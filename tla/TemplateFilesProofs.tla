------------------------ MODULE TemplateFilesProofs ------------------------
(***************************************************************************)
(* Proofs about TemplateFiles, for any files, types, events and requests:  *)
(* the map of templates and the schemas follow the directories, an upload  *)
(* holds when it is answered, and requests leave other files alone.        *)
(***************************************************************************)
EXTENDS TemplateFiles, SequenceTheorems, FiniteSetTheorems, WellFoundedInduction, TLAPS

-----------------------------------------------------------------------------
(* Positions in sequences. *)

LEMMA LeastNatural ==
  ASSUME NEW T, T \subseteq Nat, T # {}
  PROVE  \E x \in T : \A y \in T : x <= y
<1> DEFINE R == OpToRel(<, Nat)
<1>1. IsWellFoundedOn(R, Nat)
  BY NatLessThanWellFounded
<1>2. \A x \in Nat, y \in Nat : y < x => <<y, x>> \in R
  BY DEF OpToRel
<1> HIDE DEF R
<1>3. PICK x \in T : \A y \in T : ~ (<<y, x>> \in R)
  BY <1>1, WFMin
<1>4. ASSUME NEW y \in T PROVE x <= y
  <2>1. ~ (y < x)
    BY <1>2, <1>3
  <2> QED
    BY <2>1
<1> QED
  BY <1>4

\* A nonempty set of positions has a first and a last one.
LEMMA FirstAndLast ==
  ASSUME NEW n \in Nat, NEW S, S \subseteq 1..n, S # {}
  PROVE  /\ Min(S) \in S /\ \A i \in S : Min(S) <= i
         /\ Max(S) \in S /\ \A i \in S : i <= Max(S)
<1>1. Min(S) \in S /\ \A i \in S : Min(S) <= i
  <2>1. S \subseteq Nat
    OBVIOUS
  <2> QED
    BY <2>1, LeastNatural DEF Min
<1> DEFINE T == {n - i : i \in S}
<1>2. T \subseteq Nat /\ T # {}
  <2>1. \A i \in S : i \in 1..n /\ n - i \in Nat
    OBVIOUS
  <2> QED
    BY <2>1
<1>3. PICK x \in T : \A y \in T : x <= y
  BY <1>2, LeastNatural
<1>4. PICK k \in S : x = n - k
  BY <1>3
<1>5. ASSUME NEW i \in S PROVE k >= i
  <2>1. n - k <= n - i
    BY <1>3, <1>4
  <2>2. i \in Int /\ k \in Int
    OBVIOUS
  <2> QED
    BY <2>1, <2>2
<1>6. Max(S) \in S /\ \A i \in S : Max(S) >= i
  BY <1>5 DEF Max
<1>7. PICK m : m = Max(S)
  OBVIOUS
<1>8. m \in S /\ \A i \in S : i <= m
  BY <1>6, <1>7
<1> QED
  BY <1>1, <1>7, <1>8

LEMMA RangeOfList ==
  ASSUME NEW S, NEW s \in Seq(S)
  PROVE  /\ Len(s) \in Nat /\ DOMAIN s = 1..Len(s)
         /\ \A i \in 1..Len(s) : s[i] \in S
         /\ Range(s) = {s[i] : i \in 1..Len(s)}
         /\ Range(s) \subseteq S
BY LenProperties, ElementOfSeq DEF Range

\* A sequence without the element at one position.
LEMMA RemoveFacts ==
  ASSUME NEW S, NEW s \in Seq(S), NEW k \in 1..Len(s)
  PROVE  /\ RemoveAt(s, k) \in Seq(S)
         /\ Len(RemoveAt(s, k)) = Len(s) - 1
         /\ \A i \in 1..Len(s) - 1 : RemoveAt(s, k)[i] = IF i < k THEN s[i] ELSE s[i + 1]
<1>1. Len(s) \in Nat /\ \A j \in 1..Len(s) : s[j] \in S
  BY LenProperties, ElementOfSeq
<1> DEFINE before == SubSeq(s, 1, k - 1)
           after == SubSeq(s, k + 1, Len(s))
<1>2. /\ before \in Seq(S) /\ Len(before) = k - 1
      /\ \A j \in 1..k - 1 : before[j] = s[j]
  <2>1. 1 \in Int /\ k - 1 \in Int /\ \A j \in 1..k - 1 : s[j] \in S
    BY <1>1
  <2> QED
    BY <1>1, <2>1, SubSeqProperties
<1>3. /\ after \in Seq(S) /\ Len(after) = Len(s) - k
      /\ \A j \in 1..Len(s) - k : after[j] = s[k + j]
  <2>1. k + 1 \in Int /\ Len(s) \in Int /\ \A j \in k + 1..Len(s) : s[j] \in S
    BY <1>1
  <2> QED
    BY <1>1, <2>1, SubSeqProperties
<1>4. RemoveAt(s, k) = before \o after
  BY DEF RemoveAt
<1> HIDE DEF before, after
<1>5. /\ before \o after \in Seq(S)
      /\ Len(before \o after) = Len(s) - 1
      /\ \A i \in 1..Len(s) - 1 :
           (before \o after)[i] = IF i <= k - 1 THEN before[i] ELSE after[i - (k - 1)]
  <2>1. Len(before) + Len(after) = Len(s) - 1
    BY <1>1, <1>2, <1>3
  <2>2. /\ before \o after \in Seq(S)
        /\ Len(before \o after) = Len(before) + Len(after)
        /\ \A i \in 1..Len(before) + Len(after) :
             (before \o after)[i] = IF i <= Len(before) THEN before[i] ELSE after[i - Len(before)]
    BY <1>2, <1>3, ConcatProperties
  <2> QED
    BY <1>2, <2>1, <2>2
<1>6. ASSUME NEW i \in 1..Len(s) - 1
      PROVE  (before \o after)[i] = IF i < k THEN s[i] ELSE s[i + 1]
  <2>1. CASE i < k
    BY <1>1, <1>2, <1>5, <2>1
  <2>2. CASE ~ (i < k)
    <3>1. i - (k - 1) \in 1..Len(s) - k /\ k + (i - (k - 1)) = i + 1
      BY <1>1, <2>2
    <3> QED
      BY <1>1, <1>3, <1>5, <2>2, <3>1
  <2> QED
    BY <2>1, <2>2
<1> QED
  BY <1>4, <1>5, <1>6

\* A sequence with a new first element.
LEMMA PutFirstFacts ==
  ASSUME NEW S, NEW s \in Seq(S), NEW e \in S
  PROVE  /\ <<e>> \o s \in Seq(S)
         /\ Len(<<e>> \o s) = Len(s) + 1
         /\ \A i \in 1..Len(s) + 1 : (<<e>> \o s)[i] = IF i = 1 THEN e ELSE s[i - 1]
<1>1. <<e>> \in Seq(S) /\ Len(<<e>>) = 1 /\ <<e>>[1] = e /\ Len(s) \in Nat
  BY LenProperties
<1>2. /\ <<e>> \o s \in Seq(S) /\ Len(<<e>> \o s) = 1 + Len(s)
      /\ \A i \in 1..1 + Len(s) : (<<e>> \o s)[i] = IF i <= 1 THEN <<e>>[i] ELSE s[i - 1]
  BY <1>1, ConcatProperties
<1> QED
  BY <1>1, <1>2

-----------------------------------------------------------------------------
(* The map of templates: what holds of it however files come and go. *)

LEMMA Bounds ==
  /\ None \notin Paths /\ None \notin Template /\ Broken \notin Template /\ None # Broken
  /\ Shipped \intersect User = {} /\ Shipped \subseteq Paths /\ User \subseteq Paths
  /\ \A p \in Paths : Holds(p) \subseteq Template
  /\ Uploads \subseteq Template
  /\ \A content \in Contents : Readable(content) <=> content \in Template
BY FilesAssumption DEF FilesAssumption, Paths, Template, Contents, Readable

MapTypeOK(map) == map \in [Types -> Seq(Entry)]

\* A template is found under its own type,
Typed(map) ==
  \A t \in Types : \A i \in 1..Len(map[t]) : map[t][i].header.type = t

\* a file has one entry in the whole map,
Once(map) ==
  \A t, u \in Types : \A i \in 1..Len(map[t]), j \in 1..Len(map[u]) :
    map[t][i].path = map[u][j].path => t = u /\ i = j

\* and templates of the user come after those that are shipped.
UserLast(map) ==
  \A t \in Types : \A i, j \in 1..Len(map[t]) :
    i < j /\ map[t][i].path \in User => map[t][j].path \in User

Ordered(map) == MapTypeOK(map) /\ Typed(map) /\ Once(map) /\ UserLast(map)

LEMMA ListFacts ==
  ASSUME NEW map, MapTypeOK(map), NEW t \in Types
  PROVE  /\ map[t] \in Seq(Entry) /\ Len(map[t]) \in Nat /\ DOMAIN map[t] = 1..Len(map[t])
         /\ \A i \in 1..Len(map[t]) : map[t][i] \in Entry
         /\ Range(map[t]) = {map[t][i] : i \in 1..Len(map[t])}
         /\ Range(map[t]) \subseteq Entry
<1>1. map[t] \in Seq(Entry)
  BY DEF MapTypeOK
<1> QED
  BY <1>1, RangeOfList

LEMMA EntryFacts ==
  ASSUME NEW e \in Entry
  PROVE  /\ e.path \in Paths /\ e.header \in Template /\ e.body \in Template \union {None}
         /\ e.header.type \in Types
BY DEF Entry, Template

LEMMA NewFacts ==
  ASSUME NEW p \in Paths, NEW content \in Template
  PROVE  /\ New(p, content) \in Entry
         /\ New(p, content).path = p /\ New(p, content).header = content
         /\ New(p, content).body = None
         /\ content.type \in Types
BY DEF New, Entry, Template

\* What dropping the entry of a file leaves.
LEMMA WithoutFacts ==
  ASSUME Ordered(templates), NEW t \in Types, NEW p \in Paths, Uses(t, p)
  PROVE  /\ Ordered(Without(t, p))
         /\ \A u \in Types : Range(Without(t, p)[u]) = {e \in Range(templates[u]) : e.path # p}
         /\ \A u \in Types : u # t => Without(t, p)[u] = templates[u]
<1> DEFINE list == templates[t]
           found == {i \in 1..Len(list) : list[i].path = p}
<1>1. /\ MapTypeOK(templates) /\ list \in Seq(Entry) /\ Len(list) \in Nat
      /\ Range(list) = {list[i] : i \in 1..Len(list)}
  BY ListFacts DEF Ordered
<1>2. found # {} /\ found \subseteq 1..Len(list)
  BY <1>1 DEF Uses
<1>3. PICK k \in found : k = Min(found)
  BY <1>1, <1>2, FirstAndLast
<1>4. SelectInSeq(list, LAMBDA entry : entry.path = p) = k
  BY <1>2, <1>3 DEF SelectInSeq
<1>5. PICK w : w = Without(t, p)
  OBVIOUS
<1>6. w = [templates EXCEPT ![t] = RemoveAt(list, k)]
  BY <1>4, <1>5 DEF Without
<1>7. /\ RemoveAt(list, k) \in Seq(Entry)
      /\ Len(RemoveAt(list, k)) = Len(list) - 1
      /\ \A i \in 1..Len(list) - 1 : RemoveAt(list, k)[i] = IF i < k THEN list[i] ELSE list[i + 1]
  BY <1>1, RemoveFacts
<1>8. MapTypeOK(w) /\ w[t] = RemoveAt(list, k) /\ \A u \in Types : u # t => w[u] = templates[u]
  BY <1>1, <1>6, <1>7 DEF MapTypeOK
<1> DEFINE Old(u, i) == IF u = t /\ ~ (i < k) THEN i + 1 ELSE i
<1>9. ASSUME NEW u \in Types, NEW i \in 1..Len(w[u])
      PROVE  /\ Old(u, i) \in 1..Len(templates[u]) /\ w[u][i] = templates[u][Old(u, i)]
             /\ u = t => Old(u, i) # k
  <2>1. CASE u = t
    BY <1>1, <1>7, <1>8, <2>1
  <2>2. CASE u # t
    BY <1>8, <2>2
  <2> QED
    BY <2>1, <2>2
<1>10. ASSUME NEW u \in Types, NEW i \in 1..Len(w[u]), NEW j \in 1..Len(w[u])
       PROVE  /\ i < j => Old(u, i) < Old(u, j)
              /\ Old(u, i) = Old(u, j) => i = j
  BY <1>1
<1> HIDE DEF Old
<1>11. Typed(w)
  BY <1>9 DEF Ordered, Typed
<1>12. Once(w)
  <2> SUFFICES ASSUME NEW u \in Types, NEW v \in Types, NEW i \in 1..Len(w[u]), NEW j \in 1..Len(w[v]),
                      w[u][i].path = w[v][j].path
               PROVE  u = v /\ i = j
    BY DEF Once
  <2>1. /\ Old(u, i) \in 1..Len(templates[u]) /\ w[u][i] = templates[u][Old(u, i)]
        /\ Old(v, j) \in 1..Len(templates[v]) /\ w[v][j] = templates[v][Old(v, j)]
    BY <1>9
  <2>2. u = v /\ Old(u, i) = Old(v, j)
    BY <2>1 DEF Ordered, Once
  <2> QED
    BY <1>10, <2>2
<1>13. UserLast(w)
  <2> SUFFICES ASSUME NEW u \in Types, NEW i \in 1..Len(w[u]), NEW j \in 1..Len(w[u]),
                      i < j, w[u][i].path \in User
               PROVE  w[u][j].path \in User
    BY DEF UserLast
  <2>1. Old(u, i) \in 1..Len(templates[u]) /\ w[u][i] = templates[u][Old(u, i)]
    BY <1>9
  <2>2. Old(u, j) \in 1..Len(templates[u]) /\ w[u][j] = templates[u][Old(u, j)]
    BY <1>9
  <2>3. Old(u, i) < Old(u, j)
    BY <1>10
  <2>4. UserLast(templates)
    BY DEF Ordered
  <2> QED
    BY <2>1, <2>2, <2>3, <2>4 DEF UserLast
<1>14. ASSUME NEW u \in Types, NEW i \in 1..Len(w[u]) PROVE w[u][i].path # p
  <2>1. /\ Old(u, i) \in 1..Len(templates[u]) /\ w[u][i] = templates[u][Old(u, i)]
        /\ u = t => Old(u, i) # k
    BY <1>9
  <2>2. k \in 1..Len(templates[t]) /\ templates[t][k].path = p
    OBVIOUS
  <2> QED
    BY <2>1, <2>2 DEF Ordered, Once
<1>15. ASSUME NEW u \in Types, NEW j \in 1..Len(templates[u]), templates[u][j].path # p
       PROVE  \E i \in 1..Len(w[u]) : w[u][i] = templates[u][j]
  <2>1. CASE u # t
    BY <1>8, <2>1
  <2>2. CASE u = t /\ j < k
    <3>1. j \in 1..Len(list) - 1
      BY <1>1, <2>2
    <3> QED
      BY <1>7, <1>8, <2>2, <3>1
  <2>3. CASE u = t /\ ~ (j < k)
    <3>1. j # k
      BY <1>3, <1>15, <2>3
    <3>2. j - 1 \in 1..Len(list) - 1 /\ ~ (j - 1 < k) /\ (j - 1) + 1 = j
      BY <1>1, <2>3, <3>1
    <3> QED
      BY <1>7, <1>8, <2>3, <3>2
  <2> QED
    BY <2>1, <2>2, <2>3
<1>16. ASSUME NEW u \in Types
       PROVE  Range(w[u]) = {e \in Range(templates[u]) : e.path # p}
  <2>1. /\ Range(w[u]) = {w[u][i] : i \in 1..Len(w[u])}
        /\ Range(templates[u]) = {templates[u][i] : i \in 1..Len(templates[u])}
    BY <1>1, <1>8, ListFacts
  <2> QED
    BY <1>9, <1>14, <1>15, <2>1
<1> QED
  BY <1>5, <1>8, <1>11, <1>12, <1>13, <1>16 DEF Ordered

\* DeleteTemplateUnsafe drops the entry of the file and no other, and reports its type.
LEMMA DeletedFacts ==
  ASSUME Ordered(templates), NEW p \in Paths, NEW dropped \in Deleted(p)
  PROVE  /\ Ordered(dropped.map)
         /\ \A u \in Types : Range(dropped.map[u]) = {e \in Range(templates[u]) : e.path # p}
         /\ dropped.types \subseteq Types
         /\ \A u \in Types \ dropped.types : dropped.map[u] = templates[u]
<1>1. CASE \E t \in Types : Uses(t, p)
  <2>1. PICK t \in Types : Uses(t, p) /\ dropped = [map |-> Without(t, p), types |-> {t}]
    BY <1>1 DEF Deleted
  <2> QED
    BY <2>1, WithoutFacts
<1>2. CASE ~ \E t \in Types : Uses(t, p)
  <2>1. dropped = [map |-> templates, types |-> {}]
    BY <1>2 DEF Deleted
  <2> QED
    BY <1>2, <2>1 DEF Uses
<1> QED
  BY <1>1, <1>2

LEMMA PlacedLast ==
  ASSUME NEW map, Ordered(map), NEW p \in User, files[p] \in Template,
         \A u \in Types : \A i \in 1..Len(map[u]) : map[u][i].path # p
  PROVE  /\ Ordered(Placed(map, p))
         /\ \A u \in Types : Range(Placed(map, p)[u]) =
              Range(map[u]) \union (IF u = files[p].type THEN {New(p, files[p])} ELSE {})
         /\ \A u \in Types : u # files[p].type => Placed(map, p)[u] = map[u]
<1>1. PICK t \in Types : t = files[p].type
  BY DEF Template
<1>2. PICK new \in Entry : new = New(p, files[p])
  BY NewFacts, Bounds
<1>3. new.path = p /\ new.header.type = t
  BY <1>1, <1>2, NewFacts, Bounds
<1>4. MapTypeOK(map) /\ map[t] \in Seq(Entry) /\ Len(map[t]) \in Nat
  BY ListFacts DEF Ordered
<1>5. PICK w : w = Placed(map, p)
  OBVIOUS
<1>6. w = [map EXCEPT ![t] = Append(map[t], new)]
  BY <1>1, <1>2, <1>5 DEF Placed
<1>7. /\ Append(map[t], new) \in Seq(Entry)
      /\ Len(Append(map[t], new)) = Len(map[t]) + 1
      /\ \A i \in 1..Len(map[t]) : Append(map[t], new)[i] = map[t][i]
      /\ Append(map[t], new)[Len(map[t]) + 1] = new
  BY <1>4, AppendProperties
<1>8. /\ MapTypeOK(w) /\ w[t] = Append(map[t], new)
      /\ \A u \in Types : u # t => w[u] = map[u]
  BY <1>4, <1>6, <1>7 DEF MapTypeOK
<1>9. ASSUME NEW u \in Types, NEW i \in 1..Len(w[u])
      PROVE  \/ i \in 1..Len(map[u]) /\ w[u][i] = map[u][i]
             \/ u = t /\ i = Len(map[t]) + 1 /\ w[u][i] = new
  <2>1. CASE u = t
    <3>1. i \in 1..Len(map[t]) \/ i = Len(map[t]) + 1
      BY <1>4, <1>7, <1>8, <2>1
    <3> QED
      BY <1>7, <1>8, <2>1, <3>1
  <2> QED
    BY <1>8, <2>1
<1>10. Typed(w)
  BY <1>3, <1>9 DEF Ordered, Typed
<1>11. Once(w)
  <2> SUFFICES ASSUME NEW u \in Types, NEW v \in Types, NEW i \in 1..Len(w[u]), NEW j \in 1..Len(w[v]),
                      w[u][i].path = w[v][j].path
               PROVE  u = v /\ i = j
    BY DEF Once
  <2>1. CASE i \in 1..Len(map[u]) /\ w[u][i] = map[u][i] /\ j \in 1..Len(map[v]) /\ w[v][j] = map[v][j]
    BY <2>1 DEF Ordered, Once
  <2> QED
    BY <1>3, <1>9, <2>1
<1>12. UserLast(w)
  <2> SUFFICES ASSUME NEW u \in Types, NEW i \in 1..Len(w[u]), NEW j \in 1..Len(w[u]),
                      i < j, w[u][i].path \in User
               PROVE  w[u][j].path \in User
    BY DEF UserLast
  <2>1. CASE j \in 1..Len(map[u]) /\ w[u][j] = map[u][j]
    <3>1. i \in 1..Len(map[u]) /\ w[u][i] = map[u][i]
      BY <1>4, <1>9, <2>1
    <3> QED
      BY <2>1, <3>1 DEF Ordered, UserLast
  <2> QED
    BY <1>3, <1>9, <2>1
<1>13. ASSUME NEW u \in Types
       PROVE  Range(w[u]) = Range(map[u]) \union (IF u = t THEN {new} ELSE {})
  <2>1. /\ Range(w[u]) = {w[u][i] : i \in 1..Len(w[u])}
        /\ Range(map[u]) = {map[u][i] : i \in 1..Len(map[u])}
    <3>1. Range(w[u]) = {w[u][i] : i \in 1..Len(w[u])}
      <4>1. w[u] \in Seq(Entry)
        BY <1>8 DEF MapTypeOK
      <4> QED
        BY <4>1, RangeOfList
    <3>2. Range(map[u]) = {map[u][i] : i \in 1..Len(map[u])}
      BY <1>4, ListFacts
    <3> QED
      BY <3>1, <3>2
  <2>2. CASE u = t
    <3>1. Len(w[t]) = Len(map[t]) + 1 /\ Len(map[t]) + 1 \in 1..Len(w[t])
      BY <1>4, <1>7, <1>8
    <3>2. \A i \in 1..Len(map[t]) : i \in 1..Len(w[t]) /\ w[t][i] = map[t][i]
      BY <1>4, <1>7, <1>8, <3>1
    <3>3. w[t][Len(map[t]) + 1] = new
      BY <1>7, <1>8
    <3> QED
      BY <1>9, <2>1, <2>2, <3>1, <3>2, <3>3
  <2> QED
    BY <1>8, <2>2
<1> QED
  BY <1>1, <1>2, <1>5, <1>8, <1>10, <1>11, <1>12, <1>13 DEF Ordered

LEMMA PlacedFirst ==
  ASSUME NEW map, Ordered(map), NEW p \in Paths \ User, files[p] \in Template,
         \A u \in Types : \A i \in 1..Len(map[u]) : map[u][i].path # p
  PROVE  /\ Ordered(Placed(map, p))
         /\ \A u \in Types : Range(Placed(map, p)[u]) =
              Range(map[u]) \union (IF u = files[p].type THEN {New(p, files[p])} ELSE {})
         /\ \A u \in Types : u # files[p].type => Placed(map, p)[u] = map[u]
<1>1. PICK t \in Types : t = files[p].type
  BY DEF Template
<1>2. PICK new \in Entry : new = New(p, files[p])
  BY NewFacts
<1>3. new.path = p /\ new.header.type = t
  BY <1>1, <1>2, NewFacts
<1>4. MapTypeOK(map) /\ map[t] \in Seq(Entry) /\ Len(map[t]) \in Nat
  BY ListFacts DEF Ordered
<1>5. PICK w : w = Placed(map, p)
  OBVIOUS
<1>6. w = [map EXCEPT ![t] = <<new>> \o map[t]]
  BY <1>1, <1>2, <1>5 DEF Placed
<1>7. /\ <<new>> \o map[t] \in Seq(Entry)
      /\ Len(<<new>> \o map[t]) = Len(map[t]) + 1
      /\ \A i \in 1..Len(map[t]) + 1 : (<<new>> \o map[t])[i] = IF i = 1 THEN new ELSE map[t][i - 1]
  BY <1>4, PutFirstFacts
<1>8. /\ MapTypeOK(w) /\ w[t] = <<new>> \o map[t]
      /\ \A u \in Types : u # t => w[u] = map[u]
  BY <1>4, <1>6, <1>7 DEF MapTypeOK
<1> DEFINE Old(u, i) == IF u = t THEN i - 1 ELSE i
<1>9. ASSUME NEW u \in Types, NEW i \in 1..Len(w[u])
      PROVE  \/ Old(u, i) \in 1..Len(map[u]) /\ w[u][i] = map[u][Old(u, i)]
             \/ u = t /\ i = 1 /\ w[u][i] = new
  <2>1. CASE u = t
    <3>1. i = 1 \/ i - 1 \in 1..Len(map[t])
      BY <1>4, <1>7, <1>8, <2>1
    <3>2. i \in 1..Len(map[t]) + 1
      BY <1>7, <1>8, <2>1
    <3> QED
      BY <1>7, <1>8, <2>1, <3>1, <3>2
  <2> QED
    BY <1>8, <2>1
<1>10. ASSUME NEW u \in Types, NEW i \in 1..Len(w[u]), NEW j \in 1..Len(w[u])
       PROVE  /\ i < j => Old(u, i) < Old(u, j)
              /\ Old(u, i) = Old(u, j) => i = j
  BY <1>4
<1> HIDE DEF Old
<1>11. Typed(w)
  BY <1>3, <1>9 DEF Ordered, Typed
<1>12. Once(w)
  <2> SUFFICES ASSUME NEW u \in Types, NEW v \in Types, NEW i \in 1..Len(w[u]), NEW j \in 1..Len(w[v]),
                      w[u][i].path = w[v][j].path
               PROVE  u = v /\ i = j
    BY DEF Once
  <2>1. CASE /\ Old(u, i) \in 1..Len(map[u]) /\ w[u][i] = map[u][Old(u, i)]
             /\ Old(v, j) \in 1..Len(map[v]) /\ w[v][j] = map[v][Old(v, j)]
    <3>1. u = v /\ Old(u, i) = Old(v, j)
      BY <2>1 DEF Ordered, Once
    <3> QED
      BY <1>10, <3>1
  <2> QED
    BY <1>3, <1>9, <2>1
<1>13. UserLast(w)
  <2> SUFFICES ASSUME NEW u \in Types, NEW i \in 1..Len(w[u]), NEW j \in 1..Len(w[u]),
                      i < j, w[u][i].path \in User
               PROVE  w[u][j].path \in User
    BY DEF UserLast
  <2>1. Old(u, i) \in 1..Len(map[u]) /\ w[u][i] = map[u][Old(u, i)]
    BY <1>3, <1>9
  <2>2. Old(u, j) \in 1..Len(map[u]) /\ w[u][j] = map[u][Old(u, j)]
    BY <1>9
  <2> QED
    BY <1>10, <2>1, <2>2 DEF Ordered, UserLast
<1>14. ASSUME NEW u \in Types
       PROVE  Range(w[u]) = Range(map[u]) \union (IF u = t THEN {new} ELSE {})
  <2>1. /\ Range(w[u]) = {w[u][i] : i \in 1..Len(w[u])}
        /\ Range(map[u]) = {map[u][i] : i \in 1..Len(map[u])}
    <3>1. Range(w[u]) = {w[u][i] : i \in 1..Len(w[u])}
      <4>1. w[u] \in Seq(Entry)
        BY <1>8 DEF MapTypeOK
      <4> QED
        BY <4>1, RangeOfList
    <3>2. Range(map[u]) = {map[u][i] : i \in 1..Len(map[u])}
      BY <1>4, ListFacts
    <3> QED
      BY <3>1, <3>2
  <2>2. CASE u = t
    <3>1. 1 \in 1..Len(w[t]) /\ w[t][1] = new
      BY <1>4, <1>7, <1>8
    <3>2. ASSUME NEW i \in 1..Len(map[t]) PROVE \E j \in 1..Len(w[t]) : w[t][j] = map[t][i]
      <4>1. i + 1 \in 1..Len(w[t]) /\ i + 1 # 1 /\ (i + 1) - 1 = i /\ i + 1 \in 1..Len(map[t]) + 1
        BY <1>4, <1>7, <1>8
      <4> QED
        BY <1>7, <1>8, <4>1
    <3>3. Range(map[t]) \union {new} \subseteq Range(w[t])
      BY <2>1, <2>2, <3>1, <3>2
    <3>4. Range(w[t]) \subseteq Range(map[t]) \union {new}
      BY <1>9, <2>1, <2>2
    <3> QED
      BY <2>2, <3>3, <3>4
  <2> QED
    BY <1>8, <2>2
<1> QED
  BY <1>1, <1>2, <1>5, <1>8, <1>11, <1>12, <1>13, <1>14 DEF Ordered

\* UpdateTemplate: the entry of the file is what the file says, or there is none.
LEMMA UpdatedFacts ==
  ASSUME Ordered(templates), NEW p \in Paths, files[p] \in Contents, NEW update \in Updated(p)
  PROVE  /\ Ordered(update.map)
         /\ \A u \in Types : Range(update.map[u]) =
              {e \in Range(templates[u]) : e.path # p}
                \union (IF OfType(files[p], u) THEN {New(p, files[p])} ELSE {})
         /\ update.types \subseteq Types
         /\ \A u \in Types \ update.types : update.map[u] = templates[u]
         /\ update.thrown <=> ~Readable(files[p])
         /\ Readable(files[p]) => files[p].type \in update.types
<1>1. PICK dropped \in Deleted(p) :
        update = IF Readable(files[p])
                 THEN [map |-> Placed(dropped.map, p), types |-> dropped.types \union {files[p].type},
                       thrown |-> FALSE]
                 ELSE [map |-> dropped.map, types |-> dropped.types, thrown |-> TRUE]
  BY DEF Updated
<1>2. PICK map, types : map = dropped.map /\ types = dropped.types
  OBVIOUS
<1>3. /\ Ordered(map) /\ types \subseteq Types
      /\ \A u \in Types : Range(map[u]) = {e \in Range(templates[u]) : e.path # p}
      /\ \A u \in Types \ types : map[u] = templates[u]
  BY <1>2, DeletedFacts
<1>4. CASE ~Readable(files[p])
  <2>1. update.map = map /\ update.types = types /\ update.thrown = TRUE
    BY <1>1, <1>2, <1>4
  <2>2. \A u \in Types : ~OfType(files[p], u)
    BY <1>4 DEF OfType
  <2> QED
    BY <1>3, <1>4, <2>1, <2>2
<1>5. CASE Readable(files[p])
  <2>1. update.map = Placed(map, p) /\ update.types = types \union {files[p].type} /\ update.thrown = FALSE
    BY <1>1, <1>2, <1>5
  <2>2. files[p] \in Template /\ files[p].type \in Types
    BY <1>5, Bounds, NewFacts
  <2>3. \A u \in Types : \A i \in 1..Len(map[u]) : map[u][i].path # p
    <3> SUFFICES ASSUME NEW u \in Types, NEW i \in 1..Len(map[u]) PROVE map[u][i].path # p
      OBVIOUS
    <3>1. map[u][i] \in Range(map[u])
      <4>1. MapTypeOK(map)
        BY <1>3 DEF Ordered
      <4>2. Range(map[u]) = {map[u][j] : j \in 1..Len(map[u])}
        BY <4>1, ListFacts
      <4> QED
        BY <4>2
    <3> QED
      BY <1>3, <3>1
  <2>4. /\ Ordered(Placed(map, p))
        /\ \A u \in Types : Range(Placed(map, p)[u]) =
             Range(map[u]) \union (IF u = files[p].type THEN {New(p, files[p])} ELSE {})
        /\ \A u \in Types : u # files[p].type => Placed(map, p)[u] = map[u]
    <3>1. CASE p \in User
      BY <1>3, <2>2, <2>3, <3>1, PlacedLast
    <3>2. CASE p \notin User
      BY <1>3, <2>2, <2>3, <3>2, PlacedFirst
    <3> QED
      BY <3>1, <3>2
  <2>5. \A u \in Types : OfType(files[p], u) <=> u = files[p].type
    BY <1>5 DEF OfType
  <2> QED
    BY <1>3, <1>5, <2>1, <2>2, <2>4, <2>5
<1> QED
  BY <1>4, <1>5

LEMMA SameLength ==
  ASSUME NEW m \in Nat, NEW n \in Nat, 1..m = 1..n
  PROVE  m = n
<1>1. m >= 1 => m \in 1..n
  OBVIOUS
<1>2. n >= 1 => n \in 1..m
  OBVIOUS
<1> QED
  BY <1>1, <1>2

LEMMA ListedSet ==
  ASSUME NEW S, IsFiniteSet(S)
  PROVE  /\ SetToSeq(S) \in Seq(S)
         /\ \A i, j \in 1..Len(SetToSeq(S)) : SetToSeq(S)[i] = SetToSeq(S)[j] => i = j
         /\ \A p \in S : \E i \in 1..Len(SetToSeq(S)) : p = SetToSeq(S)[i]
<1>1. PICK n \in Nat : n = Cardinality(S) /\ Bijection(1..n, S) # {}
  BY FS_CardinalityType DEF ExistsBijection
<1>2. \E f \in [1..n -> S] : IsInjective(f)
  BY <1>1 DEF Bijection, Injection
<1>3. PICK f \in [1..n -> S] : f = SetToSeq(S) /\ IsInjective(f)
  BY <1>1, <1>2 DEF SetToSeq
<1>4. IsFiniteSet(1..n) /\ Cardinality(1..n) = n
  <2>1. IsFiniteSet(1..n) /\ Cardinality(1..n) = IF 1 > n THEN 0 ELSE n - 1 + 1
    BY FS_Interval
  <2> QED
    BY <2>1
<1>5. f \in Surjection(1..n, S)
  <2>1. f \in Injection(1..n, S)
    BY <1>3 DEF Injection
  <2> QED
    BY <1>1, <1>4, <2>1, FS_Injection
<1>6. f \in Seq(S) /\ Len(f) = n /\ DOMAIN f = 1..n
  <2>1. f \in Seq(S)
    BY SeqDef
  <2>2. DOMAIN f = 1..Len(f) /\ Len(f) \in Nat
    BY <2>1, LenProperties
  <2>3. 1..Len(f) = 1..n => Len(f) = n
    BY <2>2, SameLength
  <2> QED
    BY <2>1, <2>2, <2>3
<1> QED
  BY <1>3, <1>5, <1>6 DEF IsInjective, Surjection

\* What a list is that has been made of the files of a directory: each file of the type once.
ReadFrom(list, dir, content, t) ==
  /\ list \in Seq(Entry)
  /\ \A i \in 1..Len(list) : list[i].path \in dir /\ list[i].header.type = t
  /\ \A i, j \in 1..Len(list) : list[i].path = list[j].path => i = j
  /\ \A e \in Range(list) :
       e.path \in dir /\ OfType(content[e.path], t) /\ e.header = content[e.path] /\ e.body = None
  /\ \A p \in dir : OfType(content[p], t) => \E e \in Range(list) : e.path = p

LEMMA TemplatesOfFacts ==
  ASSUME NEW dir \in SUBSET Paths, IsFiniteSet(dir), NEW content \in [Paths -> Contents], NEW t \in Types
  PROVE  ReadFrom(TemplatesOf(dir, content, t), dir, content, t)
<1> PICK S : S = {p \in dir : OfType(content[p], t)}
  OBVIOUS
<1>1. IsFiniteSet(S)
  <2>1. S \in SUBSET dir
    OBVIOUS
  <2> QED
    BY <2>1, FS_Subset
<1>2. PICK paths : paths = SetToSeq(S)
  OBVIOUS
<1>3. /\ paths \in Seq(S)
      /\ \A i, j \in 1..Len(paths) : paths[i] = paths[j] => i = j
      /\ \A p \in S : \E i \in 1..Len(paths) : p = paths[i]
  <2>1. paths \in Seq(S)
    BY <1>1, <1>2, ListedSet
  <2>2. \A i, j \in 1..Len(paths) : paths[i] = paths[j] => i = j
    BY <1>1, <1>2, ListedSet
  <2>3. \A p \in S : \E i \in 1..Len(paths) : p = paths[i]
    BY <1>1, <1>2, ListedSet
  <2> QED
    BY <2>1, <2>2, <2>3
<1>4. Len(paths) \in Nat /\ DOMAIN paths = 1..Len(paths)
  BY <1>3, LenProperties
<1>5. PICK list : list = TemplatesOf(dir, content, t)
  OBVIOUS
<1>6. list = [i \in 1..Len(paths) |-> New(paths[i], content[paths[i]])]
  BY <1>2, <1>4, <1>5 DEF TemplatesOf
<1>7. ASSUME NEW p \in S
      PROVE  /\ New(p, content[p]) \in Entry /\ New(p, content[p]).path = p /\ p \in dir
             /\ New(p, content[p]).header.type = t
  <2>1. p \in Paths /\ content[p] \in Template /\ content[p].type = t
    BY Bounds DEF OfType
  <2> QED
    BY <2>1, NewFacts
<1>8. \A i \in 1..Len(paths) : paths[i] \in S /\ list[i] = New(paths[i], content[paths[i]])
  BY <1>3, <1>6
<1>9. list \in Seq(Entry) /\ Len(list) = Len(paths)
  <2>1. list \in [1..Len(paths) -> Entry]
    BY <1>6, <1>7, <1>8
  <2>2. list \in Seq(Entry)
    BY <1>4, <2>1, SeqDef
  <2>3. DOMAIN list = 1..Len(list) /\ Len(list) \in Nat /\ DOMAIN list = 1..Len(paths)
    BY <2>1, <2>2, LenProperties
  <2> QED
    BY <1>4, <2>2, <2>3, SameLength
<1>10. \A i \in 1..Len(list) : list[i].path = paths[i] /\ list[i].path \in dir /\ list[i].header.type = t
  BY <1>7, <1>8, <1>9
<1>11. Range(list) = {list[i] : i \in 1..Len(list)}
  BY <1>9, RangeOfList
<1>12. ASSUME NEW e \in Range(list)
       PROVE  e.path \in dir /\ OfType(content[e.path], t) /\ e.header = content[e.path] /\ e.body = None
  <2>1. PICK p \in S : e = New(p, content[p])
    BY <1>8, <1>9, <1>11
  <2> QED
    BY <2>1 DEF New
<1>13. ASSUME NEW p \in dir, OfType(content[p], t)
       PROVE  \E e \in Range(list) : e.path = p
  <2>1. PICK i \in 1..Len(paths) : paths[i] = p
    BY <1>3, <1>13
  <2> QED
    BY <1>9, <1>10, <1>11, <2>1
<1>14. \A i, j \in 1..Len(list) : list[i].path = list[j].path => i = j
  BY <1>3, <1>9, <1>10
<1> QED
  BY <1>5, <1>9, <1>10, <1>12, <1>13, <1>14 DEF ReadFrom

\* LoadTemplates
LEMMA LoadedFacts ==
  ASSUME NEW content \in [Paths -> Contents]
  PROVE  /\ Ordered(Loaded(content))
         /\ \A t \in Types : \A e \in Range(Loaded(content)[t]) :
              OfType(content[e.path], t) /\ e.header = content[e.path] /\ e.body = None
         /\ \A t \in Types, p \in Paths :
              OfType(content[p], t) => \E e \in Range(Loaded(content)[t]) : e.path = p
<1> DEFINE shipped(t) == TemplatesOf(Shipped, content, t)
           added(t) == TemplatesOf(User, content, t)
<1>1. /\ IsFiniteSet(Shipped) /\ IsFiniteSet(User) /\ Shipped \in SUBSET Paths /\ User \in SUBSET Paths
      /\ Paths = Shipped \union User
  BY FilesAssumption DEF FilesAssumption, Paths
<1>2. ASSUME NEW t \in Types
      PROVE  /\ shipped(t) \in Seq(Entry) /\ Len(shipped(t)) \in Nat
             /\ ReadFrom(shipped(t), Shipped, content, t)
  <2>1. ReadFrom(shipped(t), Shipped, content, t)
    BY <1>1, TemplatesOfFacts
  <2> QED
    BY <2>1, LenProperties DEF ReadFrom
<1>3. ASSUME NEW t \in Types
      PROVE  /\ added(t) \in Seq(Entry) /\ Len(added(t)) \in Nat
             /\ ReadFrom(added(t), User, content, t)
  <2>1. ReadFrom(added(t), User, content, t)
    BY <1>1, TemplatesOfFacts
  <2> QED
    BY <2>1, LenProperties DEF ReadFrom
<1>4. PICK map : map = Loaded(content)
  OBVIOUS
<1>5. map = [t \in Types |-> shipped(t) \o added(t)]
  BY <1>4 DEF Loaded
<1> HIDE DEF shipped, added
<1>6. ASSUME NEW t \in Types
      PROVE  /\ map[t] = shipped(t) \o added(t)
             /\ map[t] \in Seq(Entry)
             /\ Len(map[t]) = Len(shipped(t)) + Len(added(t))
             /\ \A i \in 1..Len(map[t]) :
                  map[t][i] = IF i <= Len(shipped(t)) THEN shipped(t)[i] ELSE added(t)[i - Len(shipped(t))]
             /\ Range(map[t]) = Range(shipped(t)) \union Range(added(t))
  <2>1. map[t] = shipped(t) \o added(t)
    BY <1>5
  <2> QED
    BY <1>2, <1>3, <2>1, ConcatProperties, RangeConcatenation
<1>7. MapTypeOK(map)
  BY <1>5, <1>6 DEF MapTypeOK
<1>8. ASSUME NEW t \in Types, NEW i \in 1..Len(map[t])
      PROVE  \/ i \in 1..Len(shipped(t)) /\ map[t][i] = shipped(t)[i]
             \/ /\ i > Len(shipped(t))
                /\ i - Len(shipped(t)) \in 1..Len(added(t))
                /\ map[t][i] = added(t)[i - Len(shipped(t))]
  <2>1. i \in 1..Len(shipped(t)) + Len(added(t))
    BY <1>6
  <2>2. CASE i <= Len(shipped(t))
    BY <1>2, <1>6, <2>2
  <2>3. CASE i > Len(shipped(t))
    <3>1. i - Len(shipped(t)) \in 1..Len(added(t)) /\ ~ (i <= Len(shipped(t)))
      BY <1>2, <1>3, <2>1, <2>3
    <3> QED
      BY <1>6, <2>3, <3>1
  <2> QED
    BY <1>2, <2>2, <2>3
<1>9. Typed(map)
  <2> SUFFICES ASSUME NEW t \in Types, NEW i \in 1..Len(map[t]) PROVE map[t][i].header.type = t
    BY DEF Typed
  <2>1. CASE i \in 1..Len(shipped(t)) /\ map[t][i] = shipped(t)[i]
    BY <1>2, <2>1 DEF ReadFrom
  <2>2. CASE i - Len(shipped(t)) \in 1..Len(added(t)) /\ map[t][i] = added(t)[i - Len(shipped(t))]
    BY <1>3, <2>2 DEF ReadFrom
  <2> QED
    BY <1>8, <2>1, <2>2
<1>10. /\ \A t \in Types : \A e \in Range(map[t]) :
            OfType(content[e.path], t) /\ e.header = content[e.path] /\ e.body = None
       /\ \A t \in Types, p \in Paths :
            OfType(content[p], t) => \E e \in Range(map[t]) : e.path = p
  <2>1. ASSUME NEW t \in Types, NEW e \in Range(map[t])
        PROVE  OfType(content[e.path], t) /\ e.header = content[e.path] /\ e.body = None
    <3>1. e \in Range(shipped(t)) \/ e \in Range(added(t))
      BY <1>6
    <3> QED
      BY <1>2, <1>3, <3>1 DEF ReadFrom
  <2>2. ASSUME NEW t \in Types, NEW p \in Paths, OfType(content[p], t)
        PROVE  \E e \in Range(map[t]) : e.path = p
    <3>1. \E e \in Range(shipped(t)) \union Range(added(t)) : e.path = p
      BY <1>1, <1>2, <1>3, <2>2 DEF ReadFrom
    <3> QED
      BY <1>6, <3>1
  <2> QED
    BY <2>1, <2>2
<1>11. Once(map)
  <2> SUFFICES ASSUME NEW t \in Types, NEW u \in Types, NEW i \in 1..Len(map[t]), NEW j \in 1..Len(map[u]),
                      map[t][i].path = map[u][j].path
               PROVE  t = u /\ i = j
    BY DEF Once
  <2>1. map[t][i].header = map[u][j].header
    <3>1. map[t][i] \in Range(map[t]) /\ map[u][j] \in Range(map[u])
      BY <1>6, RangeOfList
    <3> QED
      BY <1>10, <3>1
  <2>2. t = u
    BY <1>9, <2>1 DEF Typed
  <2>3. CASE i \in 1..Len(shipped(t)) /\ map[t][i] = shipped(t)[i]
    <3>1. map[t][j].path \notin User
      BY <1>2, <2>2, <2>3, Bounds DEF ReadFrom
    <3>2. j \in 1..Len(shipped(t)) /\ map[t][j] = shipped(t)[j]
      BY <1>3, <1>8, <2>2, <3>1 DEF ReadFrom
    <3> QED
      BY <1>2, <2>2, <2>3, <3>2 DEF ReadFrom
  <2>4. CASE /\ i > Len(shipped(t)) /\ i - Len(shipped(t)) \in 1..Len(added(t))
             /\ map[t][i] = added(t)[i - Len(shipped(t))]
    <3>1. map[t][j].path \notin Shipped
      BY <1>3, <2>2, <2>4, Bounds DEF ReadFrom
    <3>2. j - Len(shipped(t)) \in 1..Len(added(t)) /\ map[t][j] = added(t)[j - Len(shipped(t))]
      BY <1>2, <1>8, <2>2, <3>1 DEF ReadFrom
    <3>3. i - Len(shipped(t)) = j - Len(shipped(t))
      BY <1>3, <2>2, <2>4, <3>2 DEF ReadFrom
    <3> QED
      BY <1>2, <2>2, <3>3
  <2> QED
    BY <1>8, <2>3, <2>4
<1>12. UserLast(map)
  <2> SUFFICES ASSUME NEW t \in Types, NEW i \in 1..Len(map[t]), NEW j \in 1..Len(map[t]),
                      i < j, map[t][i].path \in User
               PROVE  map[t][j].path \in User
    BY DEF UserLast
  <2>1. i > Len(shipped(t))
    BY <1>2, <1>8, Bounds DEF ReadFrom
  <2>2. j > Len(shipped(t))
    BY <1>2, <2>1
  <2>3. j - Len(shipped(t)) \in 1..Len(added(t)) /\ map[t][j] = added(t)[j - Len(shipped(t))]
    BY <1>2, <1>8, <2>2
  <2> QED
    BY <1>3, <2>3 DEF ReadFrom
<1> QED
  BY <1>4, <1>7, <1>9, <1>10, <1>11, <1>12 DEF Ordered

\* The template that is in use is the last one of its type, and one of the user if there is any.
LEMMA InUseFacts ==
  ASSUME Ordered(templates), NEW t \in Types, templates[t] # <<>>
  PROVE  /\ InUse(t) \in Entry /\ InUse(t) \in Range(templates[t])
         /\ InUse(t).header.type = t
         /\ \A e \in Range(templates[t]) : e.path \in User => InUse(t).path \in User
<1>1. /\ templates[t] \in Seq(Entry) /\ Len(templates[t]) \in Nat
      /\ \A i \in 1..Len(templates[t]) : templates[t][i] \in Entry
      /\ Range(templates[t]) = {templates[t][i] : i \in 1..Len(templates[t])}
  BY ListFacts DEF Ordered
<1>2. Len(templates[t]) # 0
  BY <1>1, EmptySeq
<1>3. Len(templates[t]) \in 1..Len(templates[t])
  BY <1>1, <1>2
<1>4. PICK last : last = InUse(t)
  OBVIOUS
<1>5. last = templates[t][Len(templates[t])]
  BY <1>4 DEF InUse, Last
<1>6. last \in Entry /\ last \in Range(templates[t]) /\ last.header.type = t
  BY <1>1, <1>3, <1>5 DEF Ordered, Typed
<1>7. ASSUME NEW e \in Range(templates[t]), e.path \in User
      PROVE  last.path \in User
  <2>1. PICK i \in 1..Len(templates[t]) : templates[t][i] = e
    BY <1>1
  <2>2. CASE i = Len(templates[t])
    BY <1>5, <1>7, <2>1, <2>2
  <2>3. CASE i # Len(templates[t])
    <3>1. i < Len(templates[t])
      BY <1>1, <2>3
    <3> QED
      BY <1>3, <1>5, <1>7, <2>1, <3>1 DEF Ordered, UserLast
  <2> QED
    BY <2>2, <2>3
<1> QED
  BY <1>4, <1>6, <1>7

\* FindUserDefinedTemplate names a file of the user that the map has under the type.
LEMMA UserFileFacts ==
  ASSUME Ordered(templates), NEW t \in Types
  PROVE  /\ UserFile(t) \in User \union {None}
         /\ UserFile(t) # None => templates[t] # <<>> /\ Uses(t, UserFile(t))
<1>1. /\ templates[t] \in Seq(Entry) /\ Len(templates[t]) \in Nat /\ DOMAIN templates[t] = 1..Len(templates[t])
      /\ Range(templates[t]) = {templates[t][i] : i \in 1..Len(templates[t])}
  BY ListFacts DEF Ordered
<1>2. CASE UserDefined(t) = {}
  BY <1>2 DEF UserFile
<1>3. CASE UserDefined(t) # {}
  <2>1. PICK own : own = UserDefined(t)
    OBVIOUS
  <2>2. own \subseteq 1..Len(templates[t]) /\ own # {}
    BY <1>1, <1>3, <2>1 DEF UserDefined
  <2>3. PICK k \in own : k = Max(own)
    BY <1>1, <2>2, FirstAndLast
  <2>4. k \in 1..Len(templates[t]) /\ templates[t][k].path \in User
    BY <1>1, <2>1, <2>2 DEF UserDefined
  <2>5. UserFile(t) = templates[t][k].path
    BY <1>3, <2>1, <2>3 DEF UserFile
  <2>6. templates[t] # <<>>
    <3>1. Len(templates[t]) # 0
      BY <1>1, <2>4
    <3> QED
      BY <1>1, <3>1, EmptySeq
  <2>7. templates[t][k] \in Range(templates[t])
    BY <1>1, <2>4
  <2> QED
    BY <2>4, <2>5, <2>6, <2>7 DEF Uses
<1> QED
  BY <1>2, <1>3

WithBody(t, entry, body) == [templates EXCEPT ![t] = Filled(templates[t], entry, body)]

FilledIn(map, t, entry, body) ==
  /\ Ordered(map)
  /\ \A u \in Types : u # t => map[u] = templates[u]
  /\ \A u \in Types : Len(map[u]) = Len(templates[u])
  /\ \A u \in Types : \A i \in 1..Len(templates[u]) :
       map[u][i] = IF u = t /\ templates[u][i] = entry THEN [entry EXCEPT !.body = body]
                   ELSE templates[u][i]

\* Reading the rest of a template changes neither the order nor the file of an entry.
LEMMA FilledFacts ==
  ASSUME Ordered(templates), NEW t \in Types, NEW entry \in Entry, NEW body \in Template,
         NEW map, map = WithBody(t, entry, body)
  PROVE  FilledIn(map, t, entry, body)
<1>1. /\ MapTypeOK(templates) /\ templates[t] \in Seq(Entry) /\ Len(templates[t]) \in Nat
      /\ DOMAIN templates[t] = 1..Len(templates[t])
      /\ \A i \in 1..Len(templates[t]) : templates[t][i] \in Entry
  BY ListFacts DEF Ordered
<1>2. PICK new : new = [entry EXCEPT !.body = body]
  OBVIOUS
<1>3. new \in Entry /\ new.path = entry.path /\ new.header = entry.header /\ new.body = body
  BY <1>2 DEF Entry
<1>4. PICK list : list = Filled(templates[t], entry, body)
  OBVIOUS
<1>5. list = [i \in 1..Len(templates[t]) |-> IF templates[t][i] = entry THEN new ELSE templates[t][i]]
  BY <1>1, <1>2, <1>4 DEF Filled
<1>6. list \in [1..Len(templates[t]) -> Entry]
  BY <1>1, <1>3, <1>5
<1>7. list \in Seq(Entry)
  BY <1>1, <1>6, SeqDef
<1>8. Len(list) = Len(templates[t])
  <2>1. DOMAIN list = 1..Len(list) /\ Len(list) \in Nat /\ DOMAIN list = 1..Len(templates[t])
    BY <1>6, <1>7, LenProperties
  <2> QED
    BY <1>1, <2>1, SameLength
<1>9. map[t] = list /\ MapTypeOK(map) /\ \A u \in Types : u # t => map[u] = templates[u]
  BY <1>1, <1>4, <1>7 DEF MapTypeOK, WithBody
<1>10. ASSUME NEW u \in Types
       PROVE  Len(map[u]) = Len(templates[u])
  BY <1>8, <1>9
<1>11. ASSUME NEW u \in Types, NEW i \in 1..Len(templates[u])
       PROVE  map[u][i] = IF u = t /\ templates[u][i] = entry THEN new ELSE templates[u][i]
  <2>1. CASE u = t
    BY <1>5, <1>9, <2>1
  <2> QED
    BY <1>9, <2>1
<1>12. \A u \in Types : \A i \in 1..Len(templates[u]) :
         map[u][i].path = templates[u][i].path /\ map[u][i].header = templates[u][i].header
  BY <1>3, <1>11
<1>13. Typed(map) /\ Once(map) /\ UserLast(map)
  <2>1. Typed(map)
    BY <1>10, <1>12 DEF Ordered, Typed
  <2>2. Once(map)
    BY <1>10, <1>12 DEF Ordered, Once
  <2>3. UserLast(map)
    BY <1>10, <1>12 DEF Ordered, UserLast
  <2> QED
    BY <2>1, <2>2, <2>3
<1> QED
  BY <1>2, <1>9, <1>10, <1>11, <1>13 DEF Ordered, FilledIn

-----------------------------------------------------------------------------
(* The events that are not read yet. *)

Awaits(list, p) == \E e \in Range(list) : e.path = p

\* The last event of the file says that it is gone.
EndsDeleted(list, p) ==
  \E i \in 1..Len(list) :
    /\ list[i].path = p /\ list[i].event = "Delete"
    /\ \A j \in 1..Len(list) : j > i => list[j].path # p

LEMMA AppendedEvent ==
  ASSUME NEW list \in Seq(Event), NEW e \in Event
  PROVE  /\ Append(list, e) \in Seq(Event)
         /\ Range(Append(list, e)) = Range(list) \union {e}
         /\ EndsDeleted(Append(list, e), e.path) => e.event = "Delete"
         /\ \A p \in Paths : p # e.path /\ EndsDeleted(Append(list, e), p) => EndsDeleted(list, p)
<1>1. /\ Len(list) \in Nat /\ Range(list) = {list[i] : i \in 1..Len(list)}
  BY RangeOfList
<1>2. PICK longer \in Seq(Event) : longer = Append(list, e)
  BY AppendProperties
<1>3. /\ Len(longer) = Len(list) + 1 /\ longer[Len(list) + 1] = e
      /\ \A i \in 1..Len(list) : longer[i] = list[i]
  BY <1>2, AppendProperties
<1>4. Range(longer) = {longer[i] : i \in 1..Len(longer)}
  BY RangeOfList
<1>5. \A i \in 1..Len(longer) : i \in 1..Len(list) \/ i = Len(list) + 1
  BY <1>1, <1>3
<1>6. \A i \in 1..Len(list) : i \in 1..Len(longer) /\ Len(list) + 1 > i
  BY <1>1, <1>3
<1>7. Len(list) + 1 \in 1..Len(longer)
  BY <1>1, <1>3
<1>8. Range(longer) = Range(list) \union {e}
  <2>1. Range(longer) \subseteq Range(list) \union {e}
    BY <1>1, <1>3, <1>4, <1>5
  <2>2. Range(list) \union {e} \subseteq Range(longer)
    BY <1>1, <1>3, <1>4, <1>6, <1>7
  <2> QED
    BY <2>1, <2>2
<1>9. ASSUME EndsDeleted(longer, e.path) PROVE e.event = "Delete"
  BY <1>3, <1>5, <1>6, <1>7, <1>9 DEF EndsDeleted
<1>10. ASSUME NEW p \in Paths, p # e.path, EndsDeleted(longer, p) PROVE EndsDeleted(list, p)
  BY <1>3, <1>5, <1>6, <1>10 DEF EndsDeleted
<1> QED
  BY <1>2, <1>8, <1>9, <1>10

LEMMA ReadEvent ==
  ASSUME NEW list \in Seq(Event), list # <<>>
  PROVE  /\ Head(list) \in Event /\ Tail(list) \in Seq(Event)
         /\ Range(list) = Range(Tail(list)) \union {Head(list)}
         /\ \A p \in Paths : EndsDeleted(Tail(list), p) => EndsDeleted(list, p)
         /\ Head(list).event = "Delete" /\ ~Awaits(Tail(list), Head(list).path)
              => EndsDeleted(list, Head(list).path)
<1>1. /\ Len(list) \in Nat /\ Range(list) = {list[i] : i \in 1..Len(list)}
      /\ \A i \in 1..Len(list) : list[i] \in Event
  BY RangeOfList
<1>2. Len(list) >= 1
  BY <1>1, EmptySeq
<1>3. PICK rest \in Seq(Event) : rest = Tail(list)
  BY HeadTailProperties
<1>4. /\ Len(rest) = Len(list) - 1
      /\ \A i \in 1..Len(rest) : rest[i] = list[i + 1]
  BY <1>3, HeadTailProperties
<1>5. PICK first : first = Head(list)
  OBVIOUS
<1>6. first = list[1] /\ first \in Event
  <2>1. 1 \in 1..Len(list)
    BY <1>1, <1>2
  <2>2. Head(list) = list[1]
    BY <1>1, <1>2, HeadTailProperties
  <2> QED
    BY <1>1, <1>5, <2>1, <2>2
<1>7. Range(rest) = {rest[i] : i \in 1..Len(rest)}
  BY RangeOfList
<1>8. \A i \in 1..Len(rest) : i + 1 \in 1..Len(list) /\ i + 1 > 1
  BY <1>1, <1>4
<1>9. \A i \in 1..Len(list) : i = 1 \/ (i - 1 \in 1..Len(rest) /\ list[i] = rest[i - 1])
  <2> SUFFICES ASSUME NEW i \in 1..Len(list), i # 1 PROVE i - 1 \in 1..Len(rest) /\ list[i] = rest[i - 1]
    OBVIOUS
  <2>1. i - 1 \in 1..Len(rest) /\ (i - 1) + 1 = i
    BY <1>1, <1>4
  <2> QED
    BY <1>4, <2>1
<1>10. Range(list) = Range(rest) \union {first}
  <2>1. Range(list) \subseteq Range(rest) \union {first}
    BY <1>1, <1>6, <1>7, <1>9
  <2>2. Range(rest) \subseteq Range(list)
    BY <1>1, <1>4, <1>7, <1>8
  <2>3. first \in Range(list)
    BY <1>1, <1>2, <1>6
  <2> QED
    BY <2>1, <2>2, <2>3
<1>11. ASSUME NEW p \in Paths, EndsDeleted(rest, p) PROVE EndsDeleted(list, p)
  <2>1. PICK i \in 1..Len(rest) : /\ rest[i].path = p /\ rest[i].event = "Delete"
                                  /\ \A j \in 1..Len(rest) : j > i => rest[j].path # p
    BY <1>11 DEF EndsDeleted
  <2>2. ASSUME NEW j \in 1..Len(list), j > i + 1 PROVE list[j].path # p
    <3>1. j - 1 \in 1..Len(rest) /\ list[j] = rest[j - 1] /\ j - 1 > i
      BY <1>8, <1>9, <2>2
    <3> QED
      BY <2>1, <3>1
  <2>3. i + 1 \in 1..Len(list) /\ list[i + 1] = rest[i]
    BY <1>4, <1>8
  <2> QED
    BY <2>1, <2>2, <2>3 DEF EndsDeleted
<1>12. ASSUME first.event = "Delete", ~Awaits(rest, first.path) PROVE EndsDeleted(list, first.path)
  <2>1. \A j \in 1..Len(list) : j > 1 => list[j].path # first.path
    <3> SUFFICES ASSUME NEW j \in 1..Len(list), j > 1 PROVE list[j].path # first.path
      OBVIOUS
    <3>1. j - 1 \in 1..Len(rest) /\ list[j] = rest[j - 1]
      BY <1>9
    <3>2. list[j] \in Range(rest)
      BY <1>7, <3>1
    <3> QED
      BY <1>12, <3>2 DEF Awaits
  <2>2. 1 \in 1..Len(list)
    BY <1>1, <1>2
  <2> QED
    BY <1>6, <1>12, <2>1, <2>2 DEF EndsDeleted
<1> QED
  BY <1>3, <1>5, <1>6, <1>10, <1>11, <1>12

-----------------------------------------------------------------------------
(* Types *)

\* What a request knows at each of its steps.
RequestOK ==
  /\ rpc.pc = "schema" => rpc.entry \in Entry
  /\ rpc.pc \in {"idle", "schema"} <=> rpc.op = "none"
  /\ rpc.pc \in {"write", "update"} => rpc.op = "Upload"
  /\ rpc.op = "Upload" => rpc.path \in User
  /\ rpc.op = "Delete" => rpc.path = None
  /\ rpc.op # "none" => rpc.template \in Template
  /\ rpc.pc \in {"remove", "forget"} => rpc.old \in User /\ rpc.old # rpc.path
  /\ rpc.op = "none" => touched = {}

Sound == TypeOK /\ Ordered(templates) /\ RequestOK

LEMMA GoesFacts ==
  ASSUME rpc \in Requests, NEW pc \in {"write", "update", "remove", "forget", "answer"}, Goes(pc)
  PROVE  /\ rpc' \in Requests /\ rpc'.pc = pc /\ rpc'.op = rpc.op /\ rpc'.template = rpc.template
         /\ rpc'.path = rpc.path /\ rpc'.old = rpc.old /\ rpc'.entry = rpc.entry
BY DEF Goes, Requests

LEMMA EndFacts ==
  ASSUME rpc' = NoRequest
  PROVE  rpc' \in Requests /\ rpc'.pc = "idle" /\ rpc'.op = "none"
BY DEF NoRequest, Requests

LEMMA FindFacts ==
  ASSUME Sound, NEW t \in Types, FindTemplate(t)
  PROVE  /\ rpc' \in Requests /\ rpc'.pc = "schema" /\ rpc'.op = "none"
         /\ rpc'.entry = InUse(t) /\ rpc'.entry \in Entry
         /\ rpc'.entry.header.type = t
<1>1. InUse(t) \in Entry /\ InUse(t).header.type = t
  BY InUseFacts DEF Sound, FindTemplate
<1>2. rpc' = [NoRequest EXCEPT !.pc = "schema", !.entry = InUse(t)]
  BY DEF FindTemplate
<1> HIDE DEF InUse
<1> QED
  BY <1>1, <1>2 DEF NoRequest, Requests

LEMMA BeginsFacts ==
  ASSUME NEW op \in {"Upload", "Delete"}, NEW template \in Template, NEW path \in User \union {None},
         NEW old \in User \union {None}, Begins(op, template, path, old)
  PROVE  /\ rpc' \in Requests /\ rpc'.pc = (IF op = "Upload" THEN "write" ELSE "remove") /\ rpc'.op = op
         /\ rpc'.template = template /\ rpc'.path = path /\ rpc'.old = old
BY DEF Begins, NoRequest, Requests

LEMMA UploadFacts ==
  ASSUME Sound, NEW template \in Uploads, NEW name \in User, Upload(template, name)
  PROVE  \E path \in User, old \in User \union {None} :
           /\ Begins("Upload", template, path, old)
           /\ template \in Template /\ template.type \in Types
           /\ old = UserFile(template.type)
           /\ files[path] = None \/ path = old
           /\ rpc' \in Requests /\ rpc'.pc = "write" /\ rpc'.op = "Upload" /\ rpc'.template = template
           /\ rpc'.path = path /\ rpc'.old = old
<1>1. template \in Template /\ template.type \in Types
  BY Bounds DEF Template
<1>2. PICK old : old = UserFile(template.type)
  OBVIOUS
<1>3. old \in User \union {None}
  BY <1>1, <1>2, UserFileFacts DEF Sound
<1>4. PICK path \in FileNames(name, old) : Begins("Upload", template, path, old)
  BY <1>2 DEF Upload
<1>5. path \in User /\ (files[path] = None \/ path = old)
  BY DEF FileNames
<1>6. /\ rpc' \in Requests /\ rpc'.pc = "write" /\ rpc'.op = "Upload" /\ rpc'.template = template
      /\ rpc'.path = path /\ rpc'.old = old
  BY <1>1, <1>3, <1>4, <1>5, BeginsFacts
<1> QED
  BY <1>1, <1>2, <1>3, <1>4, <1>5, <1>6

LEMMA DeleteFacts ==
  ASSUME Sound, NEW t \in Types, Delete(t)
  PROVE  /\ UserFile(t) \in User
         /\ InUse(t).header \in Template /\ InUse(t).header.type = t
         /\ Begins("Delete", InUse(t).header, None, UserFile(t))
         /\ rpc' \in Requests /\ rpc'.pc = "remove" /\ rpc'.op = "Delete" /\ rpc'.template = InUse(t).header
         /\ rpc'.path = None /\ rpc'.old = UserFile(t)
<1>1. UserFile(t) # None /\ Begins("Delete", InUse(t).header, None, UserFile(t))
  BY DEF Delete
<1>2. UserFile(t) \in User /\ templates[t] # <<>>
  BY <1>1, UserFileFacts DEF Sound
<1>3. InUse(t).header \in Template /\ InUse(t).header.type = t
  <2>1. InUse(t) \in Entry /\ InUse(t).header.type = t
    BY <1>2, InUseFacts DEF Sound
  <2> QED
    BY <2>1, EntryFacts
<1>4. PICK header, old : header = InUse(t).header /\ old = UserFile(t)
  OBVIOUS
<1>5. /\ rpc' \in Requests /\ rpc'.pc = "remove" /\ rpc'.op = "Delete" /\ rpc'.template = header
      /\ rpc'.path = None /\ rpc'.old = old
  BY <1>1, <1>2, <1>3, <1>4, BeginsFacts
<1> QED
  BY <1>1, <1>2, <1>3, <1>4, <1>5

\* What the actions that change the map do with it.
LEMMA WrittenFacts ==
  ASSUME Sound, FileWritten
  PROVE  \E p, update :
           /\ p \in Paths
           /\ events # <<>> /\ p = Head(events).path /\ outdated = {}
           /\ events' = Tail(events) /\ Tail(events) \in Seq(Event)
           /\ update \in Updated(p) /\ templates' = update.map /\ update.types \subseteq Types
           /\ outdated' = IF update.thrown THEN {} ELSE update.types
           /\ stale' = IF update.thrown THEN stale \union update.types ELSE stale
<1>1. events # <<>> /\ events \in Seq(Event) /\ outdated = {} /\ events' = Tail(events)
  BY DEF FileWritten, NextEvent, Sound, TypeOK
<1>2. Head(events) \in Event /\ Tail(events) \in Seq(Event)
  BY <1>1, ReadEvent
<1>3. PICK p \in Paths : p = Head(events).path
  BY <1>2 DEF Event
<1>4. PICK update \in Updated(p) :
        /\ templates' = update.map
        /\ outdated' = IF update.thrown THEN {} ELSE update.types
        /\ stale' = IF update.thrown THEN stale \union update.types ELSE stale
  BY <1>3 DEF FileWritten
<1>5. files[p] \in Contents
  BY DEF Sound, TypeOK
<1>6. update.types \subseteq Types
  BY <1>5, UpdatedFacts DEF Sound
<1> QED
  BY <1>1, <1>2, <1>3, <1>4, <1>6

LEMMA DroppedFacts ==
  ASSUME Sound, FileDeleted
  PROVE  \E p, dropped :
           /\ p \in Paths
           /\ events # <<>> /\ p = Head(events).path /\ Head(events).event = "Delete" /\ outdated = {}
           /\ events' = Tail(events) /\ Tail(events) \in Seq(Event)
           /\ dropped \in Deleted(p) /\ templates' = dropped.map
           /\ outdated' = dropped.types /\ dropped.types \subseteq Types
<1>1. /\ events # <<>> /\ events \in Seq(Event) /\ outdated = {} /\ events' = Tail(events)
      /\ Head(events).event = "Delete"
  BY DEF FileDeleted, NextEvent, Sound, TypeOK
<1>2. Head(events) \in Event /\ Tail(events) \in Seq(Event)
  BY <1>1, ReadEvent
<1>3. PICK p \in Paths : p = Head(events).path
  BY <1>2 DEF Event
<1>4. PICK dropped \in Deleted(p) : templates' = dropped.map /\ outdated' = dropped.types
  BY <1>3 DEF FileDeleted
<1>5. dropped.types \subseteq Types
  BY DeletedFacts DEF Sound
<1> QED
  BY <1>1, <1>2, <1>3, <1>4, <1>5

LEMMA GeneratedFacts ==
  ASSUME Sound, GenerateSchema
  PROVE  \/ schemas' = schemas /\ templates' = templates
         \/ \E t \in Types, body \in Template :
              /\ rpc.entry \in Entry /\ t = rpc.entry.header.type
              /\ body = IF rpc.entry.body = None THEN files[rpc.entry.path] ELSE rpc.entry.body
              /\ schemas' = [schemas EXCEPT ![t] = body]
              /\ templates' = WithBody(t, rpc.entry, body)
<1>1. PICK entry \in Entry : entry = rpc.entry
  BY DEF GenerateSchema, Sound, RequestOK
<1>2. PICK t \in Types : t = entry.header.type
  BY EntryFacts
<1>3. PICK body : body = IF entry.body = None THEN files[entry.path] ELSE entry.body
  OBVIOUS
<1>4. body \in Contents
  <2>1. entry.path \in Paths /\ entry.body \in Template \union {None}
    BY EntryFacts
  <2> QED
    BY <1>3, <2>1 DEF Sound, TypeOK, Contents
<1>5. Readable(body) => body \in Template
  BY <1>4, Bounds
<1>6. IF Readable(body)
      THEN /\ schemas' = [schemas EXCEPT ![t] = body]
           /\ templates' = [templates EXCEPT ![t] = Filled(templates[t], entry, body)]
      ELSE UNCHANGED <<schemas, templates>>
  BY <1>1, <1>2, <1>3 DEF GenerateSchema
<1>7. CASE Readable(body)
  <2>1. templates' = WithBody(t, entry, body) /\ schemas' = [schemas EXCEPT ![t] = body]
    BY <1>6, <1>7 DEF WithBody
  <2> QED
    BY <1>1, <1>2, <1>3, <1>5, <1>7, <2>1
<1> QED
  BY <1>6, <1>7

LEMMA AnnouncedFacts ==
  ASSUME events \in Seq(Event), NEW p \in Paths, NEW event \in {"CloseWrite", "Delete"}, Announced(p, event)
  PROVE  /\ events' \in Seq(Event)
         /\ ~watching => events' = events
         /\ watching => /\ Range(events') = Range(events) \union {[path |-> p, event |-> event]}
                        /\ EndsDeleted(events', p) => event = "Delete"
         /\ \A q \in Paths \ {p} : Awaits(events', q) <=> Awaits(events, q)
         /\ \A q \in Paths \ {p} : EndsDeleted(events', q) => EndsDeleted(events, q)
<1>1. PICK e \in Event : e = [path |-> p, event |-> event]
  BY DEF Event
<1>2. e.path = p /\ e.event = event
  BY <1>1
<1>3. CASE watching
  <2>1. events' = Append(events, e)
    BY <1>1, <1>3 DEF Announced
  <2>2. /\ events' \in Seq(Event) /\ Range(events') = Range(events) \union {e}
        /\ EndsDeleted(events', e.path) => e.event = "Delete"
        /\ \A q \in Paths : q # e.path /\ EndsDeleted(events', q) => EndsDeleted(events, q)
    BY <2>1, AppendedEvent
  <2>3. \A q \in Paths \ {p} : Awaits(events', q) <=> Awaits(events, q)
    BY <1>2, <2>2 DEF Awaits
  <2> QED
    BY <1>1, <1>2, <1>3, <2>2, <2>3
<1>4. CASE ~watching
  <2>1. events' = events
    BY <1>4 DEF Announced
  <2> QED
    BY <1>4, <2>1
<1> QED
  BY <1>3, <1>4

\* UpdateTemplate after an upload: it has succeeded, or thrown and the file is removed.
LEMMA UploadedFacts ==
  ASSUME Sound, UpdateUploaded
  PROVE  \E p, update :
           /\ p \in User
           /\ rpc.pc = "update" /\ rpc.op = "Upload" /\ p = rpc.path
           /\ update \in Updated(p) /\ templates' = update.map /\ update.types \subseteq Types
           /\ \/ /\ update.thrown
                 /\ files' = [files EXCEPT ![p] = None]
                 /\ (files[p] = None /\ events' = events) \/ Announced(p, "Delete")
                 /\ stale' = stale \union update.types
                 /\ rpc' = NoRequest /\ touched' = {} /\ schemas' = schemas
              \/ /\ ~update.thrown
                 /\ schemas' = Invalidated(update.types) /\ stale' = stale \ update.types
                 /\ \/ rpc.old \in {None, p} /\ Goes("answer")
                    \/ rpc.old \notin {None, p} /\ Goes("remove")
                 /\ UNCHANGED <<files, events, touched>>
           /\ UNCHANGED <<others, watching, outdated, unheard>>
<1>1. rpc.pc = "update" /\ rpc.op = "Upload"
  BY DEF UpdateUploaded, Sound, RequestOK
<1>2. PICK p \in User : p = rpc.path
  BY <1>1 DEF Sound, RequestOK
<1>3. PICK update \in Updated(p) :
        /\ templates' = update.map
        /\ IF update.thrown
           THEN /\ files' = [files EXCEPT ![p] = None]
                /\ IF files[p] = None THEN UNCHANGED events ELSE Announced(p, "Delete")
                /\ stale' = stale \union update.types
                /\ End
                /\ UNCHANGED schemas
           ELSE /\ schemas' = Invalidated(update.types)
                /\ stale' = stale \ update.types
                /\ Goes(IF rpc.old \in {None, p} THEN "answer" ELSE "remove")
                /\ UNCHANGED <<files, events, touched>>
  BY <1>2 DEF UpdateUploaded
<1>4. UNCHANGED <<others, watching, outdated, unheard>>
  BY DEF UpdateUploaded
<1>5. update.types \subseteq Types
  <2>1. p \in Paths /\ files[p] \in Contents
    BY Bounds DEF Sound, TypeOK
  <2> QED
    BY <2>1, UpdatedFacts DEF Sound
<1>6. CASE update.thrown
  BY <1>1, <1>2, <1>3, <1>4, <1>5, <1>6 DEF End
<1>7. CASE ~update.thrown
  <2>1. (rpc.old \in {None, p} /\ Goes("answer")) \/ (rpc.old \notin {None, p} /\ Goes("remove"))
    BY <1>3, <1>7
  <2> QED
    BY <1>1, <1>2, <1>3, <1>4, <1>5, <1>7, <2>1
<1> QED
  BY <1>6, <1>7

LEMMA InvalidatedFacts ==
  ASSUME schemas \in [Types -> Template \union {None}], NEW types
  PROVE  /\ Invalidated(types) \in [Types -> Template \union {None}]
         /\ \A t \in Types : Invalidated(types)[t] = IF t \in types THEN None ELSE schemas[t]
BY DEF Invalidated

LEMMA InitSound == Init => Sound
<1> SUFFICES ASSUME Init PROVE Sound
  OBVIOUS
<1>1. files \in [Paths -> Contents] /\ templates = Loaded(files)
  BY DEF Init
<1>2. Ordered(templates)
  BY <1>1, LoadedFacts
<1>3. rpc = NoRequest /\ rpc \in Requests /\ rpc.pc = "idle" /\ rpc.op = "none"
  BY DEF Init, NoRequest, Requests
<1>4. RequestOK
  BY <1>3 DEF Init, RequestOK
<1>5. others \subseteq Paths
  BY FilesAssumption DEF FilesAssumption, Init, Paths
<1>6. schemas \in [Types -> Template \union {None}]
  BY DEF Init
<1>7. events \in Seq(Event)
  BY DEF Init
<1> QED
  BY <1>1, <1>2, <1>3, <1>4, <1>5, <1>6, <1>7 DEF Init, Sound, TypeOK, Ordered, MapTypeOK

\* By hand: a file and an event of it.
LEMMA HandFacts ==
  ASSUME Sound, NEW p \in Paths, OpenFile(p) \/ CloseFile(p) \/ RemoveByHand(p)
  PROVE  \E content \in Contents :
           /\ files' = [files EXCEPT ![p] = content]
           /\ touched' = IF rpc.op = "none" THEN touched ELSE touched \union {p}
           /\ UNCHANGED <<others, watching, templates, schemas, outdated, rpc, stale>>
           /\ \/ events' = events /\ unheard' = unheard \union {p}
              \/ Announced(p, "CloseWrite") /\ Heard(p)
              \/ content = None /\ Announced(p, "Delete") /\ Heard(p)
<1>1. CASE OpenFile(p)
  BY <1>1 DEF OpenFile, ChangedByHand, Contents
<1>2. CASE CloseFile(p)
  <2>1. PICK content \in Holds(p) \union {Broken} : ChangedByHand(p, content)
    BY <1>2 DEF CloseFile
  <2>2. content \in Contents
    BY Bounds DEF Contents
  <2> QED
    BY <1>2, <2>1, <2>2 DEF CloseFile, ChangedByHand
<1>3. CASE RemoveByHand(p)
  BY <1>3 DEF RemoveByHand, ChangedByHand, Contents
<1> QED
  BY <1>1, <1>2, <1>3

LEMMA NextSound == Sound /\ [Next]_vars => Sound'
<1> SUFFICES ASSUME Sound, [Next]_vars PROVE Sound'
  OBVIOUS
<1> USE DEF Sound
<1>1. ASSUME NEW p \in Paths, OpenFile(p) \/ CloseFile(p) \/ RemoveByHand(p)
      PROVE  Sound'
  <2>1. PICK content \in Contents :
           /\ files' = [files EXCEPT ![p] = content]
           /\ touched' = IF rpc.op = "none" THEN touched ELSE touched \union {p}
           /\ UNCHANGED <<others, watching, templates, schemas, outdated, rpc, stale>>
           /\ \/ events' = events /\ unheard' = unheard \union {p}
              \/ Announced(p, "CloseWrite") /\ Heard(p)
              \/ content = None /\ Announced(p, "Delete") /\ Heard(p)
    BY <1>1, HandFacts
  <2>2. events \in Seq(Event)
    BY DEF TypeOK
  <2>3. events' \in Seq(Event)
    BY <2>1, <2>2, AnnouncedFacts
  <2>4. unheard' \subseteq Paths
    BY <2>1 DEF Heard, TypeOK
  <2>5. TypeOK'
    BY <2>1, <2>3, <2>4 DEF TypeOK
  <2>6. RequestOK'
    BY <2>1 DEF RequestOK
  <2> QED
    BY <2>1, <2>5, <2>6
<1>2. CASE StartWatching
  BY <1>2 DEF StartWatching, TypeOK, RequestOK
<1>3. CASE FileWritten
  <2>1. PICK p, update :
           /\ p \in Paths
           /\ events' = Tail(events) /\ Tail(events) \in Seq(Event)
           /\ update \in Updated(p) /\ templates' = update.map /\ update.types \subseteq Types
           /\ outdated' = IF update.thrown THEN {} ELSE update.types
           /\ stale' = IF update.thrown THEN stale \union update.types ELSE stale
    BY <1>3, WrittenFacts
  <2>2. files[p] \in Contents
    BY <2>1 DEF TypeOK
  <2>3. Ordered(templates')
    BY <2>1, <2>2, UpdatedFacts
  <2>4. UNCHANGED <<others, files, watching, schemas, rpc, unheard, touched>>
    BY <1>3 DEF FileWritten, NextEvent
  <2>5. TypeOK'
    BY <2>1, <2>3, <2>4 DEF TypeOK, Ordered, MapTypeOK
  <2> QED
    BY <2>3, <2>4, <2>5 DEF RequestOK
<1>4. CASE FileDeleted
  <2>1. PICK p, dropped :
           /\ p \in Paths
           /\ events' = Tail(events) /\ Tail(events) \in Seq(Event)
           /\ dropped \in Deleted(p) /\ templates' = dropped.map
           /\ outdated' = dropped.types /\ dropped.types \subseteq Types
    BY <1>4, DroppedFacts
  <2>2. Ordered(templates')
    BY <2>1, DeletedFacts
  <2>3. UNCHANGED <<others, files, watching, schemas, rpc, unheard, touched, stale>>
    BY <1>4 DEF FileDeleted, NextEvent
  <2>4. TypeOK'
    BY <2>1, <2>2, <2>3 DEF TypeOK, Ordered, MapTypeOK
  <2> QED
    BY <2>2, <2>3, <2>4 DEF RequestOK
<1>5. CASE InvalidateCache
  <2>1. PICK t \in outdated :
          /\ schemas' = [schemas EXCEPT ![t] = None]
          /\ outdated' = outdated \ {t}
          /\ stale' = stale \ {t}
    BY <1>5 DEF InvalidateCache
  <2>2. UNCHANGED <<others, files, events, watching, templates, rpc, unheard, touched>>
    BY <1>5 DEF InvalidateCache
  <2>3. TypeOK'
    BY <2>1, <2>2 DEF TypeOK
  <2> QED
    BY <2>2, <2>3 DEF RequestOK
<1>6. ASSUME NEW t \in Types, FindTemplate(t) PROVE Sound'
  <2>1. rpc' \in Requests /\ rpc'.pc = "schema" /\ rpc'.op = "none" /\ rpc'.entry \in Entry
    BY <1>6, FindFacts
  <2>2. /\ rpc.pc = "idle"
        /\ UNCHANGED <<others, files, events, watching, templates, schemas, outdated, unheard, touched, stale>>
    BY <1>6 DEF FindTemplate, Idle
  <2>3. TypeOK'
    BY <2>1, <2>2 DEF TypeOK
  <2>4. RequestOK'
    BY <2>1, <2>2 DEF RequestOK
  <2> QED
    BY <2>2, <2>3, <2>4
<1>7. CASE GenerateSchema
  <2>1. /\ rpc' = NoRequest /\ touched' = {}
        /\ UNCHANGED <<others, files, events, watching, outdated, unheard, stale>>
    BY <1>7 DEF GenerateSchema, End
  <2>2. rpc' \in Requests /\ RequestOK'
    BY <2>1, EndFacts DEF RequestOK
  <2>3. Ordered(templates') /\ schemas' \in [Types -> Template \union {None}]
    <3>1. CASE schemas' = schemas /\ templates' = templates
      BY <3>1 DEF TypeOK
    <3>2. ASSUME NEW t \in Types, NEW body \in Template,
                 rpc.entry \in Entry, schemas' = [schemas EXCEPT ![t] = body],
                 templates' = WithBody(t, rpc.entry, body)
          PROVE  Ordered(templates') /\ schemas' \in [Types -> Template \union {None}]
      <4>1. Ordered(templates')
        BY <3>2, FilledFacts DEF FilledIn
      <4> QED
        BY <3>2, <4>1 DEF TypeOK
    <3> QED
      BY <1>7, <3>1, <3>2, GeneratedFacts
  <2> QED
    BY <2>1, <2>2, <2>3 DEF TypeOK, Ordered, MapTypeOK
<1>8. ASSUME NEW op, NEW template, NEW path, NEW old, Begins(op, template, path, old),
             rpc' \in Requests, RequestOK'
      PROVE  Sound'
  <2>1. UNCHANGED <<others, files, events, watching, templates, schemas, outdated, unheard, stale>>
    BY <1>8 DEF Begins
  <2>2. touched' \subseteq Paths
    BY <1>8 DEF Begins
  <2>3. TypeOK'
    BY <1>8, <2>1, <2>2 DEF TypeOK
  <2> QED
    BY <1>8, <2>1, <2>3
<1>9. ASSUME NEW template \in Uploads, NEW name \in User, Upload(template, name) PROVE Sound'
  <2>1. PICK path \in User, old \in User \union {None} :
           /\ Begins("Upload", template, path, old)
           /\ template \in Template
           /\ rpc' \in Requests /\ rpc'.pc = "write" /\ rpc'.op = "Upload" /\ rpc'.template = template
           /\ rpc'.path = path /\ rpc'.old = old
    BY <1>9, UploadFacts
  <2>2. RequestOK'
    BY <2>1 DEF RequestOK
  <2> QED
    BY <1>8, <2>1, <2>2
<1>10. ASSUME NEW t \in Types, Delete(t) PROVE Sound'
  <2>1. /\ UserFile(t) \in User /\ InUse(t).header \in Template
        /\ Begins("Delete", InUse(t).header, None, UserFile(t))
        /\ rpc' \in Requests /\ rpc'.pc = "remove" /\ rpc'.op = "Delete" /\ rpc'.template = InUse(t).header
        /\ rpc'.path = None /\ rpc'.old = UserFile(t)
    BY <1>10, DeleteFacts
  <2>2. RequestOK'
    BY <2>1, Bounds DEF RequestOK
  <2> QED
    BY <1>8, <2>1, <2>2
<1>11. CASE WriteFile
  <2>1. /\ rpc.pc = "write" /\ Announced(rpc.path, "CloseWrite") /\ Goes("update")
        /\ files' = [files EXCEPT ![rpc.path] = rpc.template]
        /\ UNCHANGED <<others, watching, templates, schemas, outdated, unheard, touched, stale>>
    BY <1>11 DEF WriteFile
  <2>2. rpc \in Requests /\ events \in Seq(Event)
    BY DEF TypeOK
  <2>3. rpc.op = "Upload" /\ rpc.path \in Paths /\ rpc.template \in Template
    BY <2>1, Bounds DEF RequestOK
  <2>4. /\ rpc' \in Requests /\ rpc'.pc = "update" /\ rpc'.op = rpc.op /\ rpc'.template = rpc.template
        /\ rpc'.path = rpc.path /\ rpc'.old = rpc.old
    BY <2>1, <2>2, GoesFacts
  <2>5. events' \in Seq(Event)
    BY <2>1, <2>2, <2>3, AnnouncedFacts
  <2>6. files' \in [Paths -> Contents]
    BY <2>1, <2>3 DEF TypeOK, Contents
  <2>7. TypeOK'
    BY <2>1, <2>4, <2>5, <2>6 DEF TypeOK
  <2>8. RequestOK'
    BY <2>1, <2>3, <2>4 DEF RequestOK
  <2> QED
    BY <2>1, <2>7, <2>8
<1>12. CASE UpdateUploaded
  <2>1. PICK p, update :
           /\ p \in User
           /\ rpc.pc = "update" /\ rpc.op = "Upload" /\ p = rpc.path
           /\ update \in Updated(p) /\ templates' = update.map /\ update.types \subseteq Types
           /\ \/ /\ update.thrown
                 /\ files' = [files EXCEPT ![p] = None]
                 /\ (files[p] = None /\ events' = events) \/ Announced(p, "Delete")
                 /\ stale' = stale \union update.types
                 /\ rpc' = NoRequest /\ touched' = {} /\ schemas' = schemas
              \/ /\ ~update.thrown
                 /\ schemas' = Invalidated(update.types) /\ stale' = stale \ update.types
                 /\ \/ rpc.old \in {None, p} /\ Goes("answer")
                    \/ rpc.old \notin {None, p} /\ Goes("remove")
                 /\ UNCHANGED <<files, events, touched>>
           /\ UNCHANGED <<others, watching, outdated, unheard>>
    BY <1>12, UploadedFacts
  <2>2. p \in Paths /\ files[p] \in Contents /\ rpc \in Requests /\ events \in Seq(Event)
    BY <2>1, Bounds DEF TypeOK
  <2>3. Ordered(templates')
    BY <2>1, <2>2, UpdatedFacts
  <2>4. files' \in [Paths -> Contents]
    BY <2>1 DEF TypeOK, Contents
  <2>5. events' \in Seq(Event)
    BY <2>1, <2>2, AnnouncedFacts
  <2>6. schemas' \in [Types -> Template \union {None}]
    BY <2>1, InvalidatedFacts DEF TypeOK
  <2>7. rpc' \in Requests /\ RequestOK'
    <3>1. CASE rpc' = NoRequest /\ touched' = {}
      BY <3>1, EndFacts DEF RequestOK
    <3>2. CASE Goes("answer")
      BY <2>1, <2>2, <3>2, GoesFacts DEF RequestOK
    <3>3. CASE rpc.old \notin {None, p} /\ Goes("remove")
      <4>1. rpc.old \in User
        BY <2>2, <3>3 DEF Requests
      <4> QED
        BY <2>1, <2>2, <3>3, <4>1, GoesFacts DEF RequestOK
    <3> QED
      BY <2>1, <3>1, <3>2, <3>3
  <2>8. stale' \subseteq Types /\ touched' \subseteq Paths
    BY <2>1 DEF TypeOK
  <2>9. TypeOK'
    BY <2>1, <2>3, <2>4, <2>5, <2>6, <2>7, <2>8 DEF TypeOK, Ordered, MapTypeOK
  <2> QED
    BY <2>3, <2>7, <2>9
<1>13. CASE RemoveFile
  <2>1. /\ rpc.pc = "remove" /\ Goes("forget")
        /\ (files[rpc.old] = None /\ events' = events) \/ Announced(rpc.old, "Delete")
        /\ files' = [files EXCEPT ![rpc.old] = None]
        /\ UNCHANGED <<others, watching, templates, schemas, outdated, unheard, touched, stale>>
    BY <1>13 DEF RemoveFile
  <2>2. rpc \in Requests /\ events \in Seq(Event)
    BY DEF TypeOK
  <2>3. rpc.old \in Paths
    BY <2>1, Bounds DEF RequestOK
  <2>4. /\ rpc' \in Requests /\ rpc'.pc = "forget" /\ rpc'.op = rpc.op /\ rpc'.template = rpc.template
        /\ rpc'.path = rpc.path /\ rpc'.old = rpc.old
    BY <2>1, <2>2, GoesFacts
  <2>5. events' \in Seq(Event)
    BY <2>1, <2>2, <2>3, AnnouncedFacts
  <2>6. files' \in [Paths -> Contents]
    BY <2>1, <2>3 DEF TypeOK, Contents
  <2>7. TypeOK'
    BY <2>1, <2>4, <2>5, <2>6 DEF TypeOK
  <2>8. RequestOK'
    BY <2>1, <2>3, <2>4 DEF RequestOK
  <2> QED
    BY <2>1, <2>7, <2>8
<1>14. CASE ForgetTemplate
  <2>1. PICK dropped \in Deleted(rpc.old) :
          /\ templates' = dropped.map
          /\ schemas' = Invalidated(dropped.types)
          /\ stale' = stale \ dropped.types
    BY <1>14 DEF ForgetTemplate
  <2>2. /\ rpc.pc = "forget" /\ Goes("answer")
        /\ unheard' \in {unheard, unheard \union {rpc.old}}
        /\ UNCHANGED <<others, files, events, watching, outdated, touched>>
    BY <1>14 DEF ForgetTemplate
  <2>3. rpc \in Requests /\ rpc.old \in Paths
    BY <2>2, Bounds DEF RequestOK, TypeOK
  <2>4. Ordered(templates')
    BY <2>1, <2>3, DeletedFacts
  <2>5. /\ rpc' \in Requests /\ rpc'.pc = "answer" /\ rpc'.op = rpc.op /\ rpc'.template = rpc.template
        /\ rpc'.path = rpc.path /\ rpc'.old = rpc.old
    BY <2>2, <2>3, GoesFacts
  <2>6. schemas' \in [Types -> Template \union {None}]
    BY <2>1, InvalidatedFacts DEF TypeOK
  <2>7. TypeOK'
    BY <2>1, <2>2, <2>3, <2>4, <2>5, <2>6 DEF TypeOK, Ordered, MapTypeOK
  <2>8. RequestOK'
    BY <2>2, <2>5 DEF RequestOK
  <2> QED
    BY <2>4, <2>7, <2>8
<1>15. CASE AnswerRequest
  <2>1. /\ rpc' = NoRequest /\ touched' = {}
        /\ UNCHANGED <<others, files, events, watching, templates, schemas, outdated, unheard, stale>>
    BY <1>15 DEF AnswerRequest, End
  <2>2. rpc' \in Requests /\ RequestOK'
    BY <2>1, EndFacts DEF RequestOK
  <2> QED
    BY <2>1, <2>2 DEF TypeOK
<1>16. CASE Restart
  <2>1. /\ templates' = Loaded(files) /\ schemas' = [t \in Types |-> None]
        /\ rpc' = NoRequest /\ touched' = {} /\ watching' = FALSE
        /\ events' = <<>> /\ outdated' = {} /\ unheard' = {} /\ stale' = {}
        /\ UNCHANGED <<others, files>>
    BY <1>16 DEF Restart
  <2>2. rpc' \in Requests /\ RequestOK'
    BY <2>1, EndFacts DEF RequestOK
  <2>3. files \in [Paths -> Contents]
    BY DEF TypeOK
  <2>4. Ordered(templates')
    BY <2>1, <2>3, LoadedFacts
  <2>5. events' \in Seq(Event)
    BY <2>1
  <2>6. schemas' \in [Types -> Template \union {None}]
    BY <2>1
  <2> QED
    BY <2>1, <2>2, <2>4, <2>5, <2>6 DEF TypeOK, Ordered, MapTypeOK
<1>17. CASE UNCHANGED vars
  BY <1>17 DEF vars, TypeOK, RequestOK
<1> QED
  BY <1>1, <1>2, <1>3, <1>4, <1>5, <1>6, <1>7, <1>9, <1>10, <1>11, <1>12, <1>13, <1>14, <1>15, <1>16,
     <1>17 DEF Next

\* At all times the map, the events, the schemas and the request are what their types say, for
\* any directories and any changes of them.
THEOREM TypeCorrect == Spec => []TypeOK
<1>1. Sound => TypeOK
  BY DEF Sound
<1> QED
  BY <1>1, InitSound, NextSound, PTL DEF Spec

-----------------------------------------------------------------------------
(* The map follows the directories. A file that no event was lost of has an event that is not    *)
(* read yet, or is at the point of a request where the map is to be changed, or has the entry    *)
(* that it should have. And the last event of a file does not say that it is gone while it is    *)
(* there, so that reading the events in their order ends in the right place.                     *)

Follows(map, content, p) ==
  /\ \A t \in Types : (\E e \in Range(map[t]) : e.path = p) <=> OfType(content[p], t)
  /\ \A t \in Types : \A e \in Range(map[t]) :
       e.path = p => e.header = content[p] /\ e.body \in {None, content[p]}

Busy(request, p) == \/ request.pc = "update" /\ p = request.path
                    \/ request.pc = "forget" /\ p = request.old

DiskInv ==
  /\ ~watching => events = <<>>
  /\ \A p \in Paths \ unheard : Awaits(events, p) \/ Busy(rpc, p) \/ Follows(templates, files, p)
  /\ \A p \in Paths \ unheard : EndsDeleted(events, p) => ~Readable(files[p])

\* A file whose entries and contents stay is followed as before.
LEMMA FollowsStays ==
  ASSUME NEW p \in Paths, NEW map, NEW content, Follows(templates, files, p),
         content[p] = files[p],
         \A t \in Types : \A e : e.path = p => (e \in Range(map[t]) <=> e \in Range(templates[t]))
  PROVE  Follows(map, content, p)
BY DEF Follows

LEMMA DropFollows ==
  ASSUME Sound, NEW p \in Paths, NEW dropped \in Deleted(p), NEW content
  PROVE  /\ ~Readable(content[p]) => Follows(dropped.map, content, p)
         /\ \A q \in Paths \ {p} :
              content[q] = files[q] /\ Follows(templates, files, q) => Follows(dropped.map, content, q)
<1>1. \A u \in Types : Range(dropped.map[u]) = {e \in Range(templates[u]) : e.path # p}
  BY DeletedFacts DEF Sound
<1>2. PICK map : map = dropped.map
  OBVIOUS
<1>3. \A u \in Types : \A e : e \in Range(map[u]) <=> e \in Range(templates[u]) /\ e.path # p
  BY <1>1, <1>2
<1>4. ASSUME ~Readable(content[p]) PROVE Follows(map, content, p)
  BY <1>3, <1>4 DEF Follows, OfType
<1>5. ASSUME NEW q \in Paths \ {p}, content[q] = files[q], Follows(templates, files, q)
      PROVE  Follows(map, content, q)
  BY <1>3, <1>5, FollowsStays
<1> QED
  BY <1>2, <1>4, <1>5

LEMMA UpdateFollows ==
  ASSUME Sound, NEW p \in Paths, NEW update \in Updated(p), NEW content
  PROVE  /\ content[p] = files[p] => Follows(update.map, content, p)
         /\ ~Readable(files[p]) /\ ~Readable(content[p]) => Follows(update.map, content, p)
         /\ \A q \in Paths \ {p} :
              content[q] = files[q] /\ Follows(templates, files, q) => Follows(update.map, content, q)
<1>1. files[p] \in Contents
  BY DEF Sound, TypeOK
<1>2. \A u \in Types : Range(update.map[u]) =
        {e \in Range(templates[u]) : e.path # p}
          \union (IF OfType(files[p], u) THEN {New(p, files[p])} ELSE {})
  BY <1>1, UpdatedFacts DEF Sound
<1>3. PICK map : map = update.map
  OBVIOUS
<1>4. PICK new : new = New(p, files[p])
  OBVIOUS
<1>5. new.path = p /\ new.header = files[p] /\ new.body = None
  BY <1>4 DEF New
<1>6. \A u \in Types : \A e : e \in Range(map[u]) <=>
        (e \in Range(templates[u]) /\ e.path # p) \/ (OfType(files[p], u) /\ e = new)
  BY <1>2, <1>3, <1>4
<1>7. ASSUME content[p] = files[p] PROVE Follows(map, content, p)
  BY <1>5, <1>6, <1>7 DEF Follows
<1>8. ASSUME ~Readable(files[p]), ~Readable(content[p]) PROVE Follows(map, content, p)
  BY <1>6, <1>8 DEF Follows, OfType
<1>9. ASSUME NEW q \in Paths \ {p}, content[q] = files[q], Follows(templates, files, q)
      PROVE  Follows(map, content, q)
  BY <1>5, <1>6, <1>9, FollowsStays
<1> QED
  BY <1>3, <1>7, <1>8, <1>9

\* What GenerateSchema has read is what the file says, if the entry was.
LEMMA FillFollows ==
  ASSUME Sound, NEW p \in Paths, Follows(templates, files, p),
         NEW t \in Types, NEW body \in Template, rpc.entry \in Entry,
         body = IF rpc.entry.body = None THEN files[rpc.entry.path] ELSE rpc.entry.body,
         NEW map, map = WithBody(t, rpc.entry, body)
  PROVE  Follows(map, files, p)
<1> PICK entry \in Entry : entry = rpc.entry
  OBVIOUS
<1>1. /\ Ordered(map) /\ Ordered(templates)
      /\ \A u \in Types : Len(map[u]) = Len(templates[u])
      /\ \A u \in Types : \A i \in 1..Len(templates[u]) :
           map[u][i] = IF u = t /\ templates[u][i] = entry THEN [entry EXCEPT !.body = body]
                       ELSE templates[u][i]
  <2>1. FilledIn(map, t, entry, body)
    BY FilledFacts DEF Sound
  <2> QED
    BY <2>1 DEF Sound, FilledIn
<1>2. ASSUME NEW u \in Types
      PROVE  /\ \A e \in Range(map[u]) : \E i \in 1..Len(templates[u]) : e = map[u][i]
             /\ \A e \in Range(templates[u]) : \E i \in 1..Len(templates[u]) : e = templates[u][i]
             /\ \A i \in 1..Len(templates[u]) :
                  map[u][i] \in Range(map[u]) /\ templates[u][i] \in Range(templates[u])
  <2>1. map[u] \in Seq(Entry) /\ templates[u] \in Seq(Entry) /\ Len(map[u]) = Len(templates[u])
    BY <1>1 DEF Ordered, MapTypeOK
  <2>2. PICK a, b : a = map[u] /\ b = templates[u]
    OBVIOUS
  <2>3. /\ Range(a) = {a[i] : i \in 1..Len(a)}
        /\ Range(b) = {b[i] : i \in 1..Len(b)}
    BY <2>1, <2>2, RangeOfList
  <2>4. /\ \A e \in Range(a) : \E i \in 1..Len(b) : e = a[i]
        /\ \A e \in Range(b) : \E i \in 1..Len(b) : e = b[i]
        /\ \A i \in 1..Len(b) : a[i] \in Range(a) /\ b[i] \in Range(b)
    BY <2>1, <2>2, <2>3
  <2> QED
    BY <2>2, <2>4
<1>3. PICK new : new = [entry EXCEPT !.body = body]
  OBVIOUS
<1>4. new.path = entry.path /\ new.header = entry.header /\ new.body = body
  BY <1>3 DEF Entry
<1>5. ASSUME NEW u \in Types, NEW i \in 1..Len(templates[u])
      PROVE  /\ map[u][i].path = templates[u][i].path /\ map[u][i].header = templates[u][i].header
             /\ map[u][i].body # templates[u][i].body =>
                  map[u][i].body = body /\ templates[u][i] = entry
  BY <1>1, <1>3, <1>4
<1>6. ASSUME NEW u \in Types
      PROVE  (\E e \in Range(map[u]) : e.path = p) <=> (\E e \in Range(templates[u]) : e.path = p)
  <2>1. ASSUME NEW e \in Range(map[u]) PROVE \E old \in Range(templates[u]) : old.path = e.path
    <3>1. PICK i \in 1..Len(templates[u]) : e = map[u][i]
      BY <1>1, <1>2
    <3>2. templates[u][i] \in Range(templates[u])
      BY <1>2
    <3> QED
      BY <1>5, <3>1, <3>2
  <2>2. ASSUME NEW old \in Range(templates[u]) PROVE \E e \in Range(map[u]) : old.path = e.path
    <3>1. PICK i \in 1..Len(templates[u]) : old = templates[u][i]
      BY <1>2
    <3>2. map[u][i] \in Range(map[u])
      BY <1>1, <1>2
    <3> QED
      BY <1>5, <3>1, <3>2
  <2> QED
    BY <2>1, <2>2
<1>7. ASSUME NEW u \in Types, NEW e \in Range(map[u]), e.path = p
      PROVE  e.header = files[p] /\ e.body \in {None, files[p]}
  <2>1. PICK i \in 1..Len(templates[u]) : e = map[u][i]
    BY <1>1, <1>2
  <2>2. PICK old \in Range(templates[u]) : old = templates[u][i]
    BY <1>2
  <2>3. /\ e.path = old.path /\ e.header = old.header
        /\ e.body # old.body => e.body = body /\ old = entry
    BY <1>5, <2>1, <2>2
  <2>4. old.header = files[p] /\ old.body \in {None, files[p]}
    BY <1>7, <2>3 DEF Follows
  <2> QED
    BY <1>7, <2>3, <2>4
<1> QED
  BY <1>6, <1>7 DEF Follows

LEMMA ContentFacts ==
  ASSUME Sound, NEW p \in Paths, NEW content \in Contents, files' = [files EXCEPT ![p] = content]
  PROVE  files'[p] = content /\ \A q \in Paths \ {p} : files'[q] = files[q]
BY DEF Sound, TypeOK

LEMMA LoadFollows ==
  ASSUME Sound \/ Init, NEW p \in Paths
  PROVE  Follows(Loaded(files), files, p)
<1>1. files \in [Paths -> Contents]
  BY DEF Sound, TypeOK, Init
<1>2. PICK map : map = Loaded(files)
  OBVIOUS
<1>3. /\ \A t \in Types : \A e \in Range(map[t]) :
           OfType(files[e.path], t) /\ e.header = files[e.path] /\ e.body = None
      /\ \A t \in Types, q \in Paths :
           OfType(files[q], t) => \E e \in Range(map[t]) : e.path = q
  BY <1>1, <1>2, LoadedFacts
<1> QED
  BY <1>2, <1>3 DEF Follows

LEMMA NoEvents ==
  /\ \A p : ~Awaits(<<>>, p)
  /\ \A p : ~EndsDeleted(<<>>, p)
<1>1. PICK none \in Seq(Event) : none = <<>>
  BY EmptySeq
<1>2. Len(none) = 0
  BY <1>1, EmptySeq
<1>3. Range(none) = {none[i] : i \in 1..Len(none)}
  BY RangeOfList
<1>4. 1..Len(none) = {}
  BY <1>2
<1> QED
  BY <1>1, <1>3, <1>4 DEF Awaits, EndsDeleted

LEMMA InitDisk == Init => DiskInv
<1> SUFFICES ASSUME Init PROVE DiskInv
  OBVIOUS
<1>1. events = <<>> /\ templates = Loaded(files)
  BY DEF Init
<1>2. \A p \in Paths : Follows(templates, files, p)
  BY <1>1, LoadFollows
<1> QED
  BY <1>1, <1>2, NoEvents DEF DiskInv

LEMMA NextDisk == Sound /\ DiskInv /\ [Next]_vars => DiskInv'
<1> SUFFICES ASSUME Sound, DiskInv, [Next]_vars PROVE DiskInv'
  OBVIOUS
<1>0. /\ events \in Seq(Event) /\ rpc \in Requests
      /\ \A p \in Paths : files[p] \in Contents
  BY DEF Sound, TypeOK
<1>1. ASSUME NEW p \in Paths, OpenFile(p) \/ CloseFile(p) \/ RemoveByHand(p)
      PROVE  DiskInv'
  <2>1. PICK content \in Contents :
           /\ files' = [files EXCEPT ![p] = content]
           /\ UNCHANGED <<watching, templates, rpc>>
           /\ \/ events' = events /\ unheard' = unheard \union {p}
              \/ Announced(p, "CloseWrite") /\ Heard(p)
              \/ content = None /\ Announced(p, "Delete") /\ Heard(p)
    BY <1>1, HandFacts
  <2>2. files'[p] = content /\ \A q \in Paths \ {p} : files'[q] = files[q]
    BY <2>1, ContentFacts
  <2>3. \A q \in Paths \ {p} : Awaits(events', q) <=> Awaits(events, q)
    BY <1>0, <2>1, AnnouncedFacts
  <2>4. \A q \in Paths \ {p} : EndsDeleted(events', q) => EndsDeleted(events, q)
    BY <1>0, <2>1, AnnouncedFacts
  <2>5. ASSUME p \notin unheard'
        PROVE  watching /\ Awaits(events', p) /\ (EndsDeleted(events', p) => ~Readable(content))
    <3>1. watching
      BY <2>1, <2>5 DEF Heard
    <3>2. CASE Announced(p, "CloseWrite")
      <4>1. /\ Range(events') = Range(events) \union {[path |-> p, event |-> "CloseWrite"]}
            /\ ~EndsDeleted(events', p)
        BY <1>0, <3>1, <3>2, AnnouncedFacts
      <4>2. [path |-> p, event |-> "CloseWrite"].path = p
        OBVIOUS
      <4>3. Awaits(events', p)
        BY <4>1, <4>2 DEF Awaits
      <4> QED
        BY <3>1, <4>1, <4>3
    <3>3. CASE content = None /\ Announced(p, "Delete")
      <4>1. Range(events') = Range(events) \union {[path |-> p, event |-> "Delete"]}
        BY <1>0, <3>1, <3>3, AnnouncedFacts
      <4>2. [path |-> p, event |-> "Delete"].path = p
        OBVIOUS
      <4>3. Awaits(events', p)
        BY <4>1, <4>2 DEF Awaits
      <4> QED
        BY <3>1, <3>3, <4>3 DEF Readable
    <3> QED
      BY <2>1, <2>5, <3>2, <3>3
  <2>6. ~watching' => events' = <<>>
    BY <1>0, <2>1, AnnouncedFacts DEF DiskInv
  <2>7. \A q \in Paths \ unheard' : q # p => q \notin unheard
    BY <2>1 DEF Heard
  <2>8. \A q \in Paths \ {p} : Follows(templates, files, q) => Follows(templates', files', q)
    BY <2>1, <2>2, FollowsStays
  <2>9. \A q \in Paths \ unheard' : Awaits(events', q) \/ Busy(rpc', q) \/ Follows(templates', files', q)
    BY <2>1, <2>3, <2>5, <2>7, <2>8 DEF DiskInv
  <2>10. \A q \in Paths \ unheard' : EndsDeleted(events', q) => ~Readable(files'[q])
    BY <2>2, <2>4, <2>5, <2>7 DEF DiskInv
  <2> QED
    BY <2>6, <2>9, <2>10 DEF DiskInv
<1>2. ASSUME UNCHANGED <<files, events, templates, unheard>>, watching => watching',
             \A p \in Paths : Busy(rpc, p) => Busy(rpc', p)
      PROVE  DiskInv'
  BY <1>2 DEF DiskInv
<1>3. CASE StartWatching
  BY <1>2, <1>3 DEF StartWatching
<1>4. CASE FileWritten
  <2>1. PICK p, update :
           /\ p \in Paths
           /\ events # <<>> /\ p = Head(events).path
           /\ events' = Tail(events) /\ Tail(events) \in Seq(Event)
           /\ update \in Updated(p) /\ templates' = update.map
    BY <1>4, WrittenFacts
  <2>2. UNCHANGED <<files, watching, rpc, unheard>>
    BY <1>4 DEF FileWritten, NextEvent
  <2>3. /\ Range(events) = Range(events') \union {Head(events)}
        /\ \A q \in Paths : EndsDeleted(events', q) => EndsDeleted(events, q)
    BY <1>0, <2>1, ReadEvent
  <2>4. Follows(templates', files, p)
    BY <2>1, UpdateFollows
  <2>5. \A q \in Paths \ {p} : Follows(templates, files, q) => Follows(templates', files, q)
    BY <2>1, UpdateFollows
  <2>6. \A q \in Paths \ {p} : Awaits(events, q) => Awaits(events', q)
    BY <2>1, <2>3 DEF Awaits
  <2>7. watching
    BY <2>1 DEF DiskInv
  <2>8. \A q \in Paths \ unheard : Awaits(events', q) \/ Busy(rpc, q) \/ Follows(templates', files, q)
    BY <2>4, <2>5, <2>6 DEF DiskInv
  <2>9. \A q \in Paths \ unheard : EndsDeleted(events', q) => ~Readable(files[q])
    BY <2>3 DEF DiskInv
  <2> QED
    BY <2>2, <2>7, <2>8, <2>9 DEF DiskInv
<1>5. CASE FileDeleted
  <2>1. PICK p, dropped :
           /\ p \in Paths
           /\ events # <<>> /\ p = Head(events).path /\ Head(events).event = "Delete"
           /\ events' = Tail(events) /\ Tail(events) \in Seq(Event)
           /\ dropped \in Deleted(p) /\ templates' = dropped.map
    BY <1>5, DroppedFacts
  <2>2. UNCHANGED <<files, watching, rpc, unheard>>
    BY <1>5 DEF FileDeleted, NextEvent
  <2>3. /\ Range(events) = Range(events') \union {Head(events)}
        /\ \A q \in Paths : EndsDeleted(events', q) => EndsDeleted(events, q)
        /\ ~Awaits(events', p) => EndsDeleted(events, p)
    BY <1>0, <2>1, ReadEvent
  <2>4. p \notin unheard => Awaits(events', p) \/ Follows(templates', files, p)
    <3> SUFFICES ASSUME p \notin unheard, ~Awaits(events', p) PROVE Follows(templates', files, p)
      OBVIOUS
    <3>1. ~Readable(files[p])
      BY <2>1, <2>3 DEF DiskInv
    <3> QED
      BY <2>1, <3>1, DropFollows
  <2>5. \A q \in Paths \ {p} : Follows(templates, files, q) => Follows(templates', files, q)
    BY <2>1, DropFollows
  <2>6. \A q \in Paths \ {p} : Awaits(events, q) => Awaits(events', q)
    BY <2>1, <2>3 DEF Awaits
  <2>7. watching
    BY <2>1 DEF DiskInv
  <2>8. \A q \in Paths \ unheard : Awaits(events', q) \/ Busy(rpc, q) \/ Follows(templates', files, q)
    BY <2>4, <2>5, <2>6 DEF DiskInv
  <2>9. \A q \in Paths \ unheard : EndsDeleted(events', q) => ~Readable(files[q])
    BY <2>3 DEF DiskInv
  <2> QED
    BY <2>2, <2>7, <2>8, <2>9 DEF DiskInv
<1>6. CASE InvalidateCache
  <2>1. UNCHANGED <<files, events, watching, templates, rpc, unheard>>
    BY <1>6 DEF InvalidateCache
  <2> QED
    BY <1>2, <2>1
<1>7. ASSUME NEW t \in Types, FindTemplate(t) PROVE DiskInv'
  <2>1. rpc.pc = "idle" /\ UNCHANGED <<files, events, watching, templates, unheard>>
    BY <1>7 DEF FindTemplate, Idle
  <2>2. \A p \in Paths : ~Busy(rpc, p)
    BY <2>1 DEF Busy
  <2> QED
    BY <1>2, <2>1, <2>2
<1>8. CASE GenerateSchema
  <2>1. rpc.pc = "schema" /\ UNCHANGED <<files, events, watching, unheard>>
    BY <1>8 DEF GenerateSchema
  <2>2. \A p \in Paths : ~Busy(rpc, p)
    BY <2>1 DEF Busy
  <2>3. \A p \in Paths : Follows(templates, files, p) => Follows(templates', files, p)
    <3>1. CASE templates' = templates
      BY <3>1
    <3>2. ASSUME NEW t \in Types, NEW body \in Template, rpc.entry \in Entry,
                 body = IF rpc.entry.body = None THEN files[rpc.entry.path] ELSE rpc.entry.body,
                 templates' = WithBody(t, rpc.entry, body)
          PROVE  \A p \in Paths : Follows(templates, files, p) => Follows(templates', files, p)
      BY <3>2, FillFollows
    <3> QED
      BY <1>8, <3>1, <3>2, GeneratedFacts
  <2> QED
    BY <2>1, <2>2, <2>3 DEF DiskInv
<1>9. ASSUME NEW op, NEW template, NEW path, NEW old, Begins(op, template, path, old)
      PROVE  DiskInv'
  <2>1. rpc.pc = "idle" /\ UNCHANGED <<files, events, watching, templates, unheard>>
    BY <1>9 DEF Begins, Idle
  <2>2. \A p \in Paths : ~Busy(rpc, p)
    BY <2>1 DEF Busy
  <2> QED
    BY <1>2, <2>1, <2>2
<1>10. ASSUME NEW template \in Uploads, NEW name \in User, Upload(template, name) PROVE DiskInv'
  BY <1>9, <1>10 DEF Upload
<1>11. ASSUME NEW t \in Types, Delete(t) PROVE DiskInv'
  BY <1>9, <1>11 DEF Delete
<1>12. CASE WriteFile
  <2>1. /\ rpc.pc = "write" /\ Announced(rpc.path, "CloseWrite") /\ Goes("update")
        /\ files' = [files EXCEPT ![rpc.path] = rpc.template]
        /\ UNCHANGED <<watching, templates, unheard>>
    BY <1>12 DEF WriteFile
  <2>2. PICK p \in Paths : p = rpc.path
    BY <2>1, Bounds DEF Sound, RequestOK
  <2>3. rpc.template \in Contents
    BY <2>1 DEF Sound, RequestOK, Contents
  <2>4. rpc'.pc = "update" /\ rpc'.path = p
    BY <1>0, <2>1, <2>2, GoesFacts
  <2>5. \A q \in Paths \ {p} : files'[q] = files[q]
    BY <2>1, <2>2, <2>3, ContentFacts
  <2>6. /\ \A q \in Paths \ {p} : Awaits(events', q) <=> Awaits(events, q)
        /\ \A q \in Paths \ {p} : EndsDeleted(events', q) => EndsDeleted(events, q)
        /\ ~watching => events' = events
        /\ watching => ~EndsDeleted(events', p)
    BY <1>0, <2>1, <2>2, AnnouncedFacts
  <2>7. \A q \in Paths : ~Busy(rpc, q)
    BY <2>1 DEF Busy
  <2>8. Busy(rpc', p)
    BY <2>4 DEF Busy
  <2>9. \A q \in Paths \ {p} : Follows(templates, files, q) => Follows(templates', files', q)
    BY <2>1, <2>5, FollowsStays
  <2>10. ~EndsDeleted(events', p)
    BY <2>6, NoEvents DEF DiskInv
  <2>11. ~watching' => events' = <<>>
    BY <2>1, <2>6 DEF DiskInv
  <2>12. \A q \in Paths \ unheard' : Awaits(events', q) \/ Busy(rpc', q) \/ Follows(templates', files', q)
    BY <2>1, <2>6, <2>7, <2>8, <2>9 DEF DiskInv
  <2>13. \A q \in Paths \ unheard' : EndsDeleted(events', q) => ~Readable(files'[q])
    BY <2>1, <2>5, <2>6, <2>10 DEF DiskInv
  <2> QED
    BY <2>11, <2>12, <2>13 DEF DiskInv
<1>13. CASE UpdateUploaded
  <2>1. PICK p, update :
           /\ p \in User
           /\ rpc.pc = "update" /\ p = rpc.path
           /\ update \in Updated(p) /\ templates' = update.map
           /\ \/ /\ update.thrown
                 /\ files' = [files EXCEPT ![p] = None]
                 /\ (files[p] = None /\ events' = events) \/ Announced(p, "Delete")
              \/ ~update.thrown /\ UNCHANGED <<files, events>>
           /\ UNCHANGED <<watching, unheard>>
    BY <1>13, UploadedFacts
  <2>2. p \in Paths
    BY <2>1, Bounds
  <2>3. update.thrown <=> ~Readable(files[p])
    BY <1>0, <2>1, <2>2, UpdatedFacts DEF Sound
  <2>4. /\ \A q \in Paths \ {p} : files'[q] = files[q]
        /\ files'[p] = IF update.thrown THEN None ELSE files[p]
    <3>1. CASE update.thrown
      BY <2>1, <2>2, <3>1, ContentFacts DEF Contents
    <3> QED
      BY <2>1, <3>1
  <2>5. Follows(templates', files', p)
    <3>1. CASE update.thrown
      <4>1. ~Readable(files[p]) /\ ~Readable(files'[p])
        BY <2>3, <2>4, <3>1 DEF Readable
      <4> QED
        BY <2>1, <2>2, <4>1, UpdateFollows
    <3>2. CASE ~update.thrown
      <4>1. files'[p] = files[p]
        BY <2>4, <3>2
      <4> QED
        BY <2>1, <2>2, <4>1, UpdateFollows
    <3> QED
      BY <3>1, <3>2
  <2>6. \A q \in Paths \ {p} : Follows(templates, files, q) => Follows(templates', files', q)
    BY <2>1, <2>2, <2>4, UpdateFollows
  <2>7. /\ \A q \in Paths \ {p} : Awaits(events', q) <=> Awaits(events, q)
        /\ \A q \in Paths \ {p} : EndsDeleted(events', q) => EndsDeleted(events, q)
        /\ ~watching => events' = events
    <3>1. CASE events' = events
      BY <3>1
    <3>2. CASE Announced(p, "Delete")
      BY <1>0, <2>2, <3>2, AnnouncedFacts
    <3> QED
      BY <2>1, <3>1, <3>2
  <2>8. \A q \in Paths \ {p} : ~Busy(rpc, q)
    BY <2>1 DEF Busy
  <2>9. p \notin unheard => (EndsDeleted(events', p) => ~Readable(files'[p]))
    <3>1. CASE update.thrown
      BY <2>4, <3>1 DEF Readable
    <3>2. CASE ~update.thrown
      BY <2>1, <2>2, <3>2 DEF DiskInv
    <3> QED
      BY <3>1, <3>2
  <2>10. ~watching' => events' = <<>>
    BY <2>1, <2>7 DEF DiskInv
  <2>11. \A q \in Paths \ unheard' : Awaits(events', q) \/ Busy(rpc', q) \/ Follows(templates', files', q)
    BY <2>1, <2>5, <2>6, <2>7, <2>8 DEF DiskInv
  <2>12. \A q \in Paths \ unheard' : EndsDeleted(events', q) => ~Readable(files'[q])
    BY <2>1, <2>4, <2>7, <2>9 DEF DiskInv
  <2> QED
    BY <2>10, <2>11, <2>12 DEF DiskInv
<1>14. CASE RemoveFile
  <2>1. /\ rpc.pc = "remove" /\ Goes("forget")
        /\ (files[rpc.old] = None /\ events' = events) \/ Announced(rpc.old, "Delete")
        /\ files' = [files EXCEPT ![rpc.old] = None]
        /\ UNCHANGED <<watching, templates, unheard>>
    BY <1>14 DEF RemoveFile
  <2>2. PICK p \in Paths : p = rpc.old
    BY <2>1, Bounds DEF Sound, RequestOK
  <2>3. rpc'.pc = "forget" /\ rpc'.old = p
    BY <1>0, <2>1, <2>2, GoesFacts
  <2>4. files'[p] = None /\ \A q \in Paths \ {p} : files'[q] = files[q]
    BY <2>1, <2>2, ContentFacts DEF Contents
  <2>5. /\ \A q \in Paths \ {p} : Awaits(events', q) <=> Awaits(events, q)
        /\ \A q \in Paths \ {p} : EndsDeleted(events', q) => EndsDeleted(events, q)
        /\ ~watching => events' = events
    <3>1. CASE events' = events
      BY <3>1
    <3>2. CASE Announced(p, "Delete")
      BY <1>0, <3>2, AnnouncedFacts
    <3> QED
      BY <2>1, <2>2, <3>1, <3>2
  <2>6. \A q \in Paths : ~Busy(rpc, q)
    BY <2>1 DEF Busy
  <2>7. Busy(rpc', p)
    BY <2>3 DEF Busy
  <2>8. \A q \in Paths \ {p} : Follows(templates, files, q) => Follows(templates', files', q)
    BY <2>1, <2>4, FollowsStays
  <2>9. ~watching' => events' = <<>>
    BY <2>1, <2>5 DEF DiskInv
  <2>10. \A q \in Paths \ unheard' : Awaits(events', q) \/ Busy(rpc', q) \/ Follows(templates', files', q)
    BY <2>1, <2>5, <2>6, <2>7, <2>8 DEF DiskInv
  <2>11. \A q \in Paths \ unheard' : EndsDeleted(events', q) => ~Readable(files'[q])
    BY <2>1, <2>4, <2>5 DEF DiskInv, Readable
  <2> QED
    BY <2>9, <2>10, <2>11 DEF DiskInv
<1>15. CASE ForgetTemplate
  <2>1. /\ rpc.pc = "forget"
        /\ unheard' = IF Readable(files[rpc.old])
                         /\ [path |-> rpc.old, event |-> "CloseWrite"] \notin Range(events)
                      THEN unheard \union {rpc.old} ELSE unheard
        /\ UNCHANGED <<files, events, watching>>
    BY <1>15 DEF ForgetTemplate
  <2>2. PICK p \in Paths : p = rpc.old
    BY <2>1, Bounds DEF Sound, RequestOK
  <2>3. PICK dropped \in Deleted(p) : templates' = dropped.map
    BY <1>15, <2>2 DEF ForgetTemplate
  <2>4. p \notin unheard' => Awaits(events, p) \/ Follows(templates', files, p)
    <3>1. CASE ~Readable(files[p])
      BY <2>3, <3>1, DropFollows
    <3>2. CASE Readable(files[p]) /\ p \notin unheard'
      <4>1. [path |-> p, event |-> "CloseWrite"] \in Range(events)
        BY <2>1, <2>2, <3>2
      <4>2. [path |-> p, event |-> "CloseWrite"].path = p
        OBVIOUS
      <4> QED
        BY <4>1, <4>2 DEF Awaits
    <3> QED
      BY <3>1, <3>2
  <2>5. \A q \in Paths \ {p} : Follows(templates, files, q) => Follows(templates', files, q)
    BY <2>3, DropFollows
  <2>6. \A q \in Paths \ {p} : ~Busy(rpc, q)
    BY <2>1, <2>2 DEF Busy
  <2>7. unheard \subseteq unheard'
    BY <2>1
  <2>8. \A q \in Paths \ unheard' : Awaits(events, q) \/ Busy(rpc', q) \/ Follows(templates', files, q)
    BY <2>4, <2>5, <2>6, <2>7 DEF DiskInv
  <2> QED
    BY <2>1, <2>7, <2>8 DEF DiskInv
<1>16. CASE AnswerRequest
  <2>1. rpc.pc = "answer" /\ UNCHANGED <<files, events, watching, templates, unheard>>
    BY <1>16 DEF AnswerRequest
  <2>2. \A p \in Paths : ~Busy(rpc, p)
    BY <2>1 DEF Busy
  <2> QED
    BY <1>2, <2>1, <2>2
<1>17. CASE Restart
  <2>1. /\ templates' = Loaded(files) /\ events' = <<>>
        /\ UNCHANGED <<files>>
    BY <1>17 DEF Restart
  <2>2. \A p \in Paths : Follows(templates', files', p)
    BY <2>1, LoadFollows
  <2> QED
    BY <2>1, <2>2, NoEvents DEF DiskInv
<1>18. CASE UNCHANGED vars
  BY <1>2, <1>18 DEF vars
<1> QED
  BY <1>1, <1>3, <1>4, <1>5, <1>6, <1>7, <1>8, <1>10, <1>11, <1>12, <1>13, <1>14, <1>15, <1>16,
     <1>17, <1>18 DEF Next

LEMMA DiskSpec == Spec => [](Sound /\ DiskInv)
BY InitSound, NextSound, InitDisk, NextDisk, PTL DEF Spec

\* When every event is read and no request is served, each file of the directories is in the map
\* once, with the type and the contents that it has, and a template of the user hides one that
\* is shipped.
THEOREM DiskFollowed == Spec => []FollowsDisk
<1>1. Sound /\ DiskInv => FollowsDisk
  <2> SUFFICES ASSUME Sound, DiskInv, Settled PROVE
        /\ \A p \in Paths \ unheard :
             /\ Known(p)
             /\ \A t \in Types : \A i, j \in DOMAIN templates[t] :
                  templates[t][i].path = p /\ templates[t][j].path = p => i = j
        /\ \A t \in Types : UserDefined(t) # {} => InUse(t).path \in User
    BY DEF FollowsDisk
  <2>1. events = <<>> /\ rpc.pc = "idle"
    BY DEF Settled, Idle
  <2>2. \A p \in Paths : ~Awaits(events, p) /\ ~Busy(rpc, p)
    BY <2>1, NoEvents DEF Busy
  <2>3. \A p \in Paths \ unheard : Known(p)
    BY <2>2 DEF DiskInv, Follows, Known, Uses
  <2>4. ASSUME NEW t \in Types
        PROVE  /\ DOMAIN templates[t] = 1..Len(templates[t])
               /\ Range(templates[t]) = {templates[t][i] : i \in 1..Len(templates[t])}
               /\ templates[t] \in Seq(Entry) /\ Len(templates[t]) \in Nat
    BY ListFacts DEF Sound, Ordered
  <2>5. \A p \in Paths, t \in Types : \A i, j \in DOMAIN templates[t] :
          templates[t][i].path = p /\ templates[t][j].path = p => i = j
    BY <2>4 DEF Sound, Ordered, Once
  <2>6. ASSUME NEW t \in Types, UserDefined(t) # {} PROVE InUse(t).path \in User
    <3>1. PICK i \in 1..Len(templates[t]) : templates[t][i].path \in User
      BY <2>4, <2>6 DEF UserDefined
    <3>2. templates[t][i] \in Range(templates[t])
      BY <2>4
    <3>3. templates[t] # <<>>
      <4>1. Len(templates[t]) # 0
        BY <2>4
      <4> QED
        BY <2>4, <4>1, EmptySeq
    <3> QED
      BY <3>1, <3>2, <3>3, InUseFacts DEF Sound
  <2> QED
    BY <2>3, <2>5, <2>6
<1> QED
  BY <1>1, DiskSpec, PTL

-----------------------------------------------------------------------------
(* The schemas. One that is kept is of the template that is in use, read from its entry, unless  *)
(* the watcher has changed the type and is yet to remove the schema, or could not read the file. *)
(* The template that a schema is being made of is the one in use, under the same conditions.     *)

Made(list, schema) == schema # None => list # <<>> /\ Last(list).body = schema

Found(list, entry) == list # <<>> /\ Last(list) = entry

SchemaInv ==
  /\ \A t \in Types \ (outdated \union stale) : Made(templates[t], schemas[t])
  /\ \A t \in Types \ (outdated \union stale) :
       rpc.pc = "schema" /\ rpc.entry.header.type = t => Found(templates[t], rpc.entry)

LEMMA InitSchemas == Init => SchemaInv
<1> SUFFICES ASSUME Init PROVE SchemaInv
  OBVIOUS
<1>1. \A t \in Types : schemas[t] = None
  BY DEF Init
<1>2. rpc.pc = "idle"
  BY DEF Init, NoRequest
<1> QED
  BY <1>1, <1>2 DEF SchemaInv, Made

LEMMA NextSchemas == Sound /\ SchemaInv /\ [Next]_vars => SchemaInv'
<1> SUFFICES ASSUME Sound, SchemaInv, [Next]_vars PROVE SchemaInv'
  OBVIOUS
<1>0. /\ rpc \in Requests /\ schemas \in [Types -> Template \union {None}]
      /\ \A p \in Paths : files[p] \in Contents
  BY DEF Sound, TypeOK
<1>1. ASSUME UNCHANGED <<templates, schemas, outdated, stale>>, rpc' = rpc \/ rpc'.pc # "schema"
      PROVE  SchemaInv'
  BY <1>1 DEF SchemaInv
<1>2. ASSUME NEW p \in Paths, OpenFile(p) \/ CloseFile(p) \/ RemoveByHand(p)
      PROVE  SchemaInv'
  <2>1. UNCHANGED <<templates, schemas, outdated, rpc, stale>>
    BY <1>2, HandFacts
  <2> QED
    BY <1>1, <2>1
<1>3. CASE StartWatching
  BY <1>1, <1>3 DEF StartWatching
<1>4. CASE FileWritten
  <2>1. PICK p, update :
           /\ p \in Paths
           /\ outdated = {}
           /\ update \in Updated(p) /\ templates' = update.map
           /\ outdated' = IF update.thrown THEN {} ELSE update.types
           /\ stale' = IF update.thrown THEN stale \union update.types ELSE stale
    BY <1>4, WrittenFacts
  <2>2. \A t \in Types \ update.types : templates'[t] = templates[t]
    BY <1>0, <2>1, UpdatedFacts DEF Sound
  <2>3. outdated' \union stale' = outdated \union stale \union update.types
    BY <2>1
  <2>4. UNCHANGED <<schemas, rpc>>
    BY <1>4 DEF FileWritten, NextEvent
  <2> QED
    BY <2>2, <2>3, <2>4 DEF SchemaInv
<1>5. CASE FileDeleted
  <2>1. PICK p, dropped :
           /\ p \in Paths
           /\ outdated = {}
           /\ dropped \in Deleted(p) /\ templates' = dropped.map
           /\ outdated' = dropped.types
    BY <1>5, DroppedFacts
  <2>2. \A t \in Types \ dropped.types : templates'[t] = templates[t]
    BY <2>1, DeletedFacts DEF Sound
  <2>3. UNCHANGED <<schemas, rpc, stale>>
    BY <1>5 DEF FileDeleted, NextEvent
  <2> QED
    BY <2>1, <2>2, <2>3 DEF SchemaInv
<1>6. CASE InvalidateCache
  <2>1. PICK t \in outdated :
          /\ schemas' = [schemas EXCEPT ![t] = None]
          /\ outdated' = outdated \ {t}
          /\ stale' = stale \ {t}
    BY <1>6 DEF InvalidateCache
  <2>2. rpc.pc # "schema" /\ UNCHANGED <<templates, rpc>>
    BY <1>6 DEF InvalidateCache
  <2>3. \A u \in Types : schemas'[u] = IF u = t THEN None ELSE schemas[u]
    BY <1>0, <2>1
  <2>4. Made(templates[t], None)
    BY DEF Made
  <2> QED
    BY <2>1, <2>2, <2>3, <2>4 DEF SchemaInv
<1>7. ASSUME NEW t \in Types, FindTemplate(t) PROVE SchemaInv'
  <2>1. /\ rpc'.entry = InUse(t) /\ rpc'.entry.header.type = t
        /\ templates[t] # <<>>
        /\ UNCHANGED <<templates, schemas, outdated, stale>>
    BY <1>7, FindFacts DEF FindTemplate
  <2>2. Found(templates[t], rpc'.entry)
    BY <2>1 DEF Found, InUse
  <2> QED
    BY <2>1, <2>2 DEF SchemaInv
<1>8. CASE GenerateSchema
  <2>1. rpc.pc = "schema" /\ rpc' = NoRequest /\ UNCHANGED <<outdated, stale>>
    BY <1>8 DEF GenerateSchema, End
  <2>2. rpc'.pc = "idle"
    BY <2>1, EndFacts
  <2>3. CASE schemas' = schemas /\ templates' = templates
    BY <1>1, <2>1, <2>2, <2>3
  <2>4. ASSUME NEW t \in Types, NEW body \in Template,
               rpc.entry \in Entry, t = rpc.entry.header.type,
               schemas' = [schemas EXCEPT ![t] = body],
               templates' = WithBody(t, rpc.entry, body)
        PROVE  SchemaInv'
    <3>1. FilledIn(templates', t, rpc.entry, body)
      BY <2>4, FilledFacts DEF Sound
    <3>2. /\ Ordered(templates')
          /\ \A u \in Types \ {t} : templates'[u] = templates[u] /\ schemas'[u] = schemas[u]
          /\ schemas'[t] = body
      BY <1>0, <2>4, <3>1 DEF FilledIn
    <3>3. ASSUME t \notin outdated \union stale PROVE Made(templates'[t], body)
      <4>1. templates[t] # <<>> /\ Last(templates[t]) = rpc.entry
        BY <2>1, <2>4, <3>3 DEF SchemaInv, Found
      <4>2. /\ templates[t] \in Seq(Entry) /\ Len(templates[t]) \in Nat
            /\ templates'[t] \in Seq(Entry) /\ Len(templates'[t]) = Len(templates[t])
        BY <3>1, ListFacts DEF FilledIn, Ordered, MapTypeOK, Sound
      <4>3. Len(templates[t]) \in 1..Len(templates[t])
        BY <4>1, <4>2, EmptySeq
      <4>4. templates'[t] # <<>>
        BY <4>2, <4>3, EmptySeq
      <4>5. templates[t][Len(templates[t])] = rpc.entry
        BY <4>1 DEF Last
      <4>6. templates'[t][Len(templates[t])] = [rpc.entry EXCEPT !.body = body]
        BY <3>1, <4>3, <4>5 DEF FilledIn
      <4>7. Last(templates'[t]).body = body
        BY <2>4, <4>2, <4>6 DEF Last, Entry
      <4> QED
        BY <4>4, <4>7 DEF Made
    <3> QED
      BY <2>1, <2>2, <3>2, <3>3 DEF SchemaInv
  <2> QED
    BY <1>8, <2>3, <2>4, GeneratedFacts
<1>9. ASSUME NEW op, NEW template, NEW path, NEW old, Begins(op, template, path, old)
      PROVE  SchemaInv'
  <2>1. rpc'.pc # "schema" /\ UNCHANGED <<templates, schemas, outdated, stale>>
    BY <1>9 DEF Begins, NoRequest
  <2> QED
    BY <1>1, <2>1
<1>10. ASSUME NEW template \in Uploads, NEW name \in User, Upload(template, name) PROVE SchemaInv'
  BY <1>9, <1>10 DEF Upload
<1>11. ASSUME NEW t \in Types, Delete(t) PROVE SchemaInv'
  BY <1>9, <1>11 DEF Delete
<1>12. CASE WriteFile
  <2>1. Goes("update") /\ UNCHANGED <<templates, schemas, outdated, stale>>
    BY <1>12 DEF WriteFile
  <2> QED
    BY <1>0, <1>1, <2>1, GoesFacts
<1>13. ASSUME NEW map, NEW types, templates' = map, \A t \in Types \ types : map[t] = templates[t],
              schemas' = Invalidated(types), stale' = stale \ types, UNCHANGED outdated,
              rpc'.pc # "schema"
       PROVE  SchemaInv'
  <2>1. \A t \in Types : schemas'[t] = IF t \in types THEN None ELSE schemas[t]
    BY <1>0, <1>13, InvalidatedFacts
  <2>2. \A t \in types : Made(map[t], None)
    BY DEF Made
  <2> QED
    BY <1>13, <2>1, <2>2 DEF SchemaInv
<1>14. CASE UpdateUploaded
  <2>1. PICK p, update :
           /\ p \in User
           /\ rpc.pc = "update"
           /\ update \in Updated(p) /\ templates' = update.map
           /\ \/ /\ update.thrown
                 /\ stale' = stale \union update.types
                 /\ rpc' = NoRequest /\ schemas' = schemas
              \/ /\ ~update.thrown
                 /\ schemas' = Invalidated(update.types) /\ stale' = stale \ update.types
                 /\ Goes("answer") \/ Goes("remove")
           /\ UNCHANGED outdated
    BY <1>14, UploadedFacts
  <2>2. p \in Paths
    BY <2>1, Bounds
  <2>3. \A t \in Types \ update.types : update.map[t] = templates[t]
    BY <1>0, <2>1, <2>2, UpdatedFacts DEF Sound
  <2>4. rpc'.pc # "schema"
    BY <1>0, <2>1, EndFacts, GoesFacts
  <2>5. CASE update.thrown
    BY <2>1, <2>3, <2>4, <2>5 DEF SchemaInv
  <2>6. CASE ~update.thrown
    BY <1>13, <2>1, <2>3, <2>4, <2>6
  <2> QED
    BY <2>5, <2>6
<1>15. CASE RemoveFile
  <2>1. Goes("forget") /\ UNCHANGED <<templates, schemas, outdated, stale>>
    BY <1>15 DEF RemoveFile
  <2> QED
    BY <1>0, <1>1, <2>1, GoesFacts
<1>16. CASE ForgetTemplate
  <2>1. PICK dropped \in Deleted(rpc.old) :
          /\ templates' = dropped.map
          /\ schemas' = Invalidated(dropped.types)
          /\ stale' = stale \ dropped.types
    BY <1>16 DEF ForgetTemplate
  <2>2. rpc.pc = "forget" /\ Goes("answer") /\ UNCHANGED outdated
    BY <1>16 DEF ForgetTemplate
  <2>3. rpc.old \in Paths
    BY <2>2, Bounds DEF Sound, RequestOK
  <2>4. \A t \in Types \ dropped.types : dropped.map[t] = templates[t]
    BY <2>1, <2>3, DeletedFacts DEF Sound
  <2>5. rpc'.pc # "schema"
    BY <1>0, <2>2, GoesFacts
  <2> QED
    BY <1>13, <2>1, <2>2, <2>4, <2>5
<1>17. CASE AnswerRequest
  <2>1. rpc' = NoRequest /\ UNCHANGED <<templates, schemas, outdated, stale>>
    BY <1>17 DEF AnswerRequest, End
  <2> QED
    BY <1>1, <2>1, EndFacts
<1>18. CASE Restart
  <2>1. schemas' = [t \in Types |-> None] /\ rpc' = NoRequest
    BY <1>18 DEF Restart
  <2>2. \A t \in Types : Made(templates'[t], schemas'[t])
    BY <2>1 DEF Made
  <2>3. rpc'.pc # "schema"
    BY <2>1, EndFacts
  <2> QED
    BY <2>2, <2>3 DEF SchemaInv
<1>19. CASE UNCHANGED vars
  BY <1>1, <1>19 DEF vars
<1> QED
  BY <1>2, <1>3, <1>4, <1>5, <1>6, <1>7, <1>8, <1>10, <1>11, <1>12, <1>14, <1>15, <1>16, <1>17,
     <1>18, <1>19 DEF Next

\* A schema that is kept is that of the template that is in use, as its file is now, when every
\* event is read and no request is served.
THEOREM SchemasFollowed == Spec => []SchemasFollow
<1>1. Sound /\ DiskInv /\ SchemaInv => SchemasFollow
  <2> SUFFICES ASSUME Sound, DiskInv, SchemaInv, Settled, unheard = {},
                      NEW t \in Types \ stale, schemas[t] # None
               PROVE  templates[t] # <<>> /\ schemas[t] = files[InUse(t).path]
    BY DEF SchemasFollow
  <2>1. events = <<>> /\ outdated = {} /\ rpc.pc = "idle"
    BY DEF Settled, Idle
  <2>2. templates[t] # <<>> /\ InUse(t).body = schemas[t]
    BY <2>1 DEF SchemaInv, Made, InUse
  <2>3. PICK entry \in Range(templates[t]) : entry = InUse(t) /\ entry.path \in Paths
    BY <2>2, InUseFacts, EntryFacts DEF Sound
  <2>4. Follows(templates, files, entry.path)
    BY <2>1, <2>3, NoEvents DEF DiskInv, Busy
  <2>5. entry.body \in {None, files[entry.path]}
    BY <2>4 DEF Follows
  <2> QED
    BY <2>2, <2>3, <2>5
<1> QED
  BY <1>1, DiskSpec, InitSchemas, NextSchemas, PTL DEF Spec

-----------------------------------------------------------------------------
(* What a request may change. The old file of the type has the type, and the file that is to be  *)
(* written is free or the old one, unless somebody has changed them since the request began or   *)
(* the map was behind then.                                                                      *)

KeepInv ==
  /\ rpc.pc = "write" /\ rpc.path \notin touched => files[rpc.path] = None \/ rpc.path = rpc.old
  /\ rpc.pc \in {"write", "update", "remove"} /\ rpc.old # None /\ rpc.old \notin touched
       /\ (rpc.pc = "write" \/ rpc.old # rpc.path) => OfType(files[rpc.old], rpc.template.type)
  /\ rpc.pc = "update" /\ rpc.path \notin touched => files[rpc.path] = rpc.template

\* A file that a request knows of when it begins, and what else it may not know.
LEMMA KnownAtBegin ==
  ASSUME NEW op, NEW template, NEW path, NEW old, Begins(op, template, path, old),
         NEW p \in Paths, p \notin touched'
  PROVE  /\ Known(p)
         /\ \A e \in Range(events) : e.path # p
         /\ ~ (p \in User \ {old} /\ OfType(files[p], template.type))
BY DEF Begins

LEMMA InitKeep == Init => KeepInv
BY DEF Init, NoRequest, KeepInv

LEMMA NextKeep == Sound /\ KeepInv /\ [Next]_vars => KeepInv'
<1> SUFFICES ASSUME Sound, KeepInv, [Next]_vars PROVE KeepInv'
  OBVIOUS
<1>0. rpc \in Requests /\ files \in [Paths -> Contents]
  BY DEF Sound, TypeOK
<1>1. ASSUME UNCHANGED <<files, touched, rpc>> PROVE KeepInv'
  BY <1>1 DEF KeepInv
<1>2. ASSUME rpc'.pc \notin {"write", "update", "remove"} PROVE KeepInv'
  BY <1>2 DEF KeepInv
<1>3. ASSUME NEW p \in Paths, OpenFile(p) \/ CloseFile(p) \/ RemoveByHand(p)
      PROVE  KeepInv'
  <2>1. PICK content \in Contents :
           /\ files' = [files EXCEPT ![p] = content]
           /\ touched' = IF rpc.op = "none" THEN touched ELSE touched \union {p}
           /\ UNCHANGED rpc
    BY <1>3, HandFacts
  <2>2. \A q \in Paths \ {p} : files'[q] = files[q]
    BY <2>1, ContentFacts
  <2>3. CASE rpc.op = "none"
    BY <1>2, <2>1, <2>3 DEF Sound, RequestOK
  <2>4. CASE rpc.op # "none"
    <3>1. p \in touched' /\ touched \subseteq touched'
      BY <2>1, <2>4
    <3>2. rpc.pc \in {"write", "update"} => rpc.path \in Paths
      BY Bounds DEF Sound, RequestOK
    <3>3. rpc.old # None => rpc.old \in Paths
      BY <1>0, Bounds DEF Requests
    <3> QED
      BY <2>1, <2>2, <3>1, <3>2, <3>3 DEF KeepInv
  <2> QED
    BY <2>3, <2>4
<1>4. CASE StartWatching \/ FileWritten \/ FileDeleted \/ InvalidateCache
  BY <1>1, <1>4 DEF StartWatching, FileWritten, FileDeleted, NextEvent, InvalidateCache
<1>5. ASSUME NEW t \in Types, FindTemplate(t) PROVE KeepInv'
  BY <1>2, <1>5, FindFacts
<1>6. CASE GenerateSchema \/ AnswerRequest \/ Restart
  <2>1. rpc' = NoRequest
    BY <1>6 DEF GenerateSchema, AnswerRequest, Restart, End
  <2> QED
    BY <1>2, <2>1, EndFacts
<1>7. ASSUME NEW op, NEW template, NEW path, NEW old, Begins(op, template, path, old),
             old # None => old \in Paths /\ template.type \in Types /\ Uses(template.type, old),
             op = "Upload" => files[path] = None \/ path = old,
             rpc'.pc = IF op = "Upload" THEN "write" ELSE "remove",
             rpc'.op = op, rpc'.template = template, rpc'.path = path, rpc'.old = old
      PROVE  KeepInv'
  <2>1. UNCHANGED files
    BY <1>7 DEF Begins
  <2>2. old # None /\ old \notin touched' => OfType(files[old], template.type)
    <3> SUFFICES ASSUME old # None, old \notin touched' PROVE OfType(files[old], template.type)
      OBVIOUS
    <3>1. Known(old)
      BY <1>7, KnownAtBegin
    <3> QED
      BY <1>7, <3>1 DEF Known
  <2> QED
    BY <1>7, <2>1, <2>2 DEF KeepInv
<1>8. ASSUME NEW template \in Uploads, NEW name \in User, Upload(template, name) PROVE KeepInv'
  <2>1. PICK path \in User, old \in User \union {None} :
           /\ Begins("Upload", template, path, old)
           /\ template.type \in Types
           /\ old = UserFile(template.type)
           /\ files[path] = None \/ path = old
           /\ rpc'.pc = "write" /\ rpc'.op = "Upload" /\ rpc'.template = template
           /\ rpc'.path = path /\ rpc'.old = old
    BY <1>8, UploadFacts
  <2>2. old # None => old \in Paths /\ Uses(template.type, old)
    BY <2>1, UserFileFacts, Bounds DEF Sound
  <2> QED
    BY <1>7, <2>1, <2>2
<1>9. ASSUME NEW t \in Types, Delete(t) PROVE KeepInv'
  <2>1. PICK header, old : header = InUse(t).header /\ old = UserFile(t)
    OBVIOUS
  <2>2. /\ old \in User /\ header.type = t
        /\ Begins("Delete", header, None, old)
        /\ rpc'.pc = "remove" /\ rpc'.op = "Delete" /\ rpc'.template = header
        /\ rpc'.path = None /\ rpc'.old = old
    BY <1>9, <2>1, DeleteFacts
  <2>3. old \in Paths /\ Uses(t, old)
    BY <2>1, <2>2, UserFileFacts, Bounds DEF Sound
  <2> QED
    BY <1>7, <2>2, <2>3
<1>10. CASE WriteFile
  <2>1. rpc.pc = "write" /\ Goes("update") /\ files' = [files EXCEPT ![rpc.path] = rpc.template]
        /\ UNCHANGED touched
    BY <1>10 DEF WriteFile
  <2>2. rpc.path \in Paths /\ rpc.template \in Contents
    BY <2>1, Bounds DEF Sound, RequestOK, Contents
  <2>3. files'[rpc.path] = rpc.template /\ \A q \in Paths \ {rpc.path} : files'[q] = files[q]
    BY <2>1, <2>2, ContentFacts
  <2>4. /\ rpc'.pc = "update" /\ rpc'.template = rpc.template
        /\ rpc'.path = rpc.path /\ rpc'.old = rpc.old
    BY <1>0, <2>1, GoesFacts
  <2>5. rpc.old # None => rpc.old \in Paths
    BY <1>0, Bounds DEF Requests
  <2> QED
    BY <2>1, <2>2, <2>3, <2>4, <2>5 DEF KeepInv
<1>11. CASE UpdateUploaded
  <2>1. /\ rpc.pc = "update"
        /\ \/ rpc' = NoRequest
           \/ Goes("answer")
           \/ rpc.old \notin {None, rpc.path} /\ Goes("remove") /\ UNCHANGED <<files, touched>>
    BY <1>11, UploadedFacts
  <2>2. CASE rpc' = NoRequest
    BY <1>2, <2>2, EndFacts
  <2>3. CASE Goes("answer")
    BY <1>0, <1>2, <2>3, GoesFacts
  <2>4. CASE rpc.old \notin {None, rpc.path} /\ Goes("remove") /\ UNCHANGED <<files, touched>>
    <3>1. /\ rpc'.pc = "remove" /\ rpc'.template = rpc.template
          /\ rpc'.path = rpc.path /\ rpc'.old = rpc.old
      BY <1>0, <2>4, GoesFacts
    <3> QED
      BY <2>1, <2>4, <3>1 DEF KeepInv
  <2> QED
    BY <2>1, <2>2, <2>3, <2>4
<1>12. CASE RemoveFile \/ ForgetTemplate
  <2>1. Goes("forget") \/ Goes("answer")
    BY <1>12 DEF RemoveFile, ForgetTemplate
  <2> QED
    BY <1>0, <1>2, <2>1, GoesFacts
<1>13. CASE UNCHANGED vars
  BY <1>1, <1>13 DEF vars
<1> QED
  BY <1>3, <1>4, <1>5, <1>6, <1>8, <1>9, <1>10, <1>11, <1>12, <1>13 DEF Next

\* A request changes or removes no file of another type, unless somebody has put it there since
\* the request began or the map was behind the directory then.
THEOREM RequestsKeepOthers == Spec => OthersKept
<1>1. Sound /\ KeepInv /\ [Next]_vars =>
        \A p \in Paths :
          rpc.pc \in {"write", "update", "remove"} /\ rpc' # rpc /\ files'[p] # files[p] /\ p \notin touched
            => files[p] = None \/ OfType(files[p], rpc.template.type)
  <2> SUFFICES ASSUME Sound, KeepInv, [Next]_vars, NEW p \in Paths,
                      rpc.pc \in {"write", "update", "remove"}, rpc' # rpc, files'[p] # files[p], p \notin touched
               PROVE  files[p] = None \/ OfType(files[p], rpc.template.type)
    OBVIOUS
  <2>1. CASE WriteFile
    <3>1. rpc.pc = "write" /\ files' = [files EXCEPT ![rpc.path] = rpc.template]
      BY <2>1 DEF WriteFile
    <3>2. rpc.path \in Paths /\ rpc.path # None /\ rpc.template \in Contents
      BY <3>1, Bounds DEF Sound, RequestOK, Contents
    <3>3. p = rpc.path
      BY <3>1, <3>2, ContentFacts
    <3> QED
      BY <3>1, <3>2, <3>3 DEF KeepInv
  <2>2. CASE UpdateUploaded
    <3>1. /\ rpc.pc = "update" /\ rpc.op = "Upload" /\ rpc.path \in User
          /\ files' = [files EXCEPT ![rpc.path] = None] \/ files' = files
      BY <2>2, UploadedFacts
    <3>2. rpc.path \in Paths /\ rpc.template \in Template
      BY <3>1, Bounds DEF Sound, RequestOK
    <3>3. p = rpc.path
      BY <3>1, <3>2, ContentFacts DEF Contents
    <3>4. files[p] = rpc.template /\ Readable(files[p])
      BY <3>1, <3>2, <3>3, Bounds DEF KeepInv, Contents
    <3> QED
      BY <3>4 DEF OfType
  <2>3. CASE RemoveFile
    <3>1. rpc.pc = "remove" /\ files' = [files EXCEPT ![rpc.old] = None]
      BY <2>3 DEF RemoveFile
    <3>2. rpc.old \in Paths /\ rpc.old # None /\ rpc.old # rpc.path
      BY <3>1, Bounds DEF Sound, RequestOK
    <3>3. p = rpc.old
      BY <3>1, <3>2, ContentFacts DEF Contents
    <3> QED
      BY <3>1, <3>2, <3>3 DEF KeepInv
  <2>4. ASSUME NEW q \in Paths, OpenFile(q) \/ CloseFile(q) \/ RemoveByHand(q) PROVE FALSE
    BY <2>4, HandFacts
  <2>5. UNCHANGED files \/ WriteFile \/ UpdateUploaded \/ RemoveFile
    BY <2>4 DEF Next, vars, StartWatching, FileWritten, FileDeleted, NextEvent, InvalidateCache,
       FindTemplate, Delete, Begins, GenerateSchema, Upload, ForgetTemplate, AnswerRequest, Restart
  <2> QED
    BY <2>1, <2>2, <2>3, <2>5
<1> QED
  BY <1>1, InitSound, NextSound, InitKeep, NextKeep, PTL DEF Spec, OthersKept

-----------------------------------------------------------------------------
(* An upload that nobody disturbs: no other file of the user has the type or an entry under it,  *)
(* but for the old one until it is removed and forgotten; no event of the file says that it is   *)
(* gone; from the time it is written the file is what was uploaded, and from the time the map is *)
(* updated it is found there and no schema is kept.                                              *)

Has(map, t, p) == \E e \in Range(map[t]) : e.path = p
Lists(map, t, p, header) == \E e \in Range(map[t]) : e.path = p /\ e.header = header

Alone ==
  \A p \in User \ {rpc.path} :
    /\ p # rpc.old \/ rpc.pc \in {"forget", "answer"} => ~OfType(files[p], rpc.template.type)
    /\ p # rpc.old \/ rpc.pc = "answer" => ~Has(templates, rpc.template.type, p)

InPlace ==
  /\ \A e \in Range(events) : e.path = rpc.path => e.event = "CloseWrite"
  /\ rpc.pc # "write" => files[rpc.path] = rpc.template
  /\ rpc.pc \in {"remove", "forget", "answer"} =>
       /\ schemas[rpc.template.type] = None
       /\ Lists(templates, rpc.template.type, rpc.path, rpc.template)

UploadInv == rpc.op = "Upload" /\ touched \intersect User = {} => Alone /\ InPlace

LEMMA DropHas ==
  ASSUME Sound, NEW p \in Paths, NEW dropped \in Deleted(p), NEW t \in Types
  PROVE  /\ ~Has(dropped.map, t, p)
         /\ \A q \in Paths \ {p} : Has(dropped.map, t, q) => Has(templates, t, q)
         /\ \A q \in Paths \ {p} : \A h : Lists(templates, t, q, h) => Lists(dropped.map, t, q, h)
<1>1. \A u \in Types : Range(dropped.map[u]) = {e \in Range(templates[u]) : e.path # p}
  BY DeletedFacts DEF Sound
<1>2. PICK map : map = dropped.map
  OBVIOUS
<1>3. \A e : e \in Range(map[t]) <=> e \in Range(templates[t]) /\ e.path # p
  BY <1>1, <1>2
<1> QED
  BY <1>2, <1>3 DEF Has, Lists

LEMMA UpdateHas ==
  ASSUME Sound, NEW p \in Paths, NEW update \in Updated(p), NEW t \in Types
  PROVE  /\ Has(update.map, t, p) => OfType(files[p], t)
         /\ OfType(files[p], t) => Lists(update.map, t, p, files[p])
         /\ \A q \in Paths \ {p} : Has(update.map, t, q) => Has(templates, t, q)
         /\ \A q \in Paths \ {p} : \A h : Lists(templates, t, q, h) => Lists(update.map, t, q, h)
<1>1. files[p] \in Contents
  BY DEF Sound, TypeOK
<1>2. \A u \in Types : Range(update.map[u]) =
        {e \in Range(templates[u]) : e.path # p}
          \union (IF OfType(files[p], u) THEN {New(p, files[p])} ELSE {})
  BY <1>1, UpdatedFacts DEF Sound
<1>3. PICK map, new : map = update.map /\ new = New(p, files[p])
  OBVIOUS
<1>4. new.path = p /\ new.header = files[p]
  BY <1>3 DEF New
<1>5. \A e : e \in Range(map[t]) <=>
        (e \in Range(templates[t]) /\ e.path # p) \/ (OfType(files[p], t) /\ e = new)
  BY <1>2, <1>3
<1> QED
  BY <1>3, <1>4, <1>5 DEF Has, Lists

LEMMA InitUpload == Init => UploadInv
BY DEF Init, NoRequest, UploadInv

LEMMA NextUpload == Sound /\ UploadInv /\ [Next]_vars => UploadInv'
<1> SUFFICES ASSUME Sound, UploadInv, [Next]_vars, rpc'.op = "Upload", touched' \intersect User = {}
             PROVE  Alone' /\ InPlace'
  BY DEF UploadInv
<1>0. rpc \in Requests /\ events \in Seq(Event) /\ schemas \in [Types -> Template \union {None}]
  BY DEF Sound, TypeOK
<1> DEFINE T == rpc.template.type
<1>1. ASSUME UNCHANGED <<touched, rpc>>
      PROVE  /\ Alone /\ InPlace
             /\ rpc.pc \notin {"idle", "schema"} /\ T \in Types /\ rpc.path \in User /\ rpc.path \in Paths
  <2>1. rpc.template \in Template /\ rpc.path \in User /\ rpc.op = "Upload"
    BY <1>1 DEF Sound, RequestOK
  <2> QED
    BY <1>1, <2>1, Bounds DEF UploadInv, Sound, RequestOK, Template
<1>2. ASSUME NEW p \in Paths, OpenFile(p) \/ CloseFile(p) \/ RemoveByHand(p)
      PROVE  Alone' /\ InPlace'
  <2>1. PICK content \in Contents :
           /\ files' = [files EXCEPT ![p] = content]
           /\ touched' = IF rpc.op = "none" THEN touched ELSE touched \union {p}
           /\ UNCHANGED <<templates, schemas, rpc>>
           /\ events' = events \/ Announced(p, "CloseWrite") \/ Announced(p, "Delete")
    BY <1>2, HandFacts
  <2>2. p \notin User /\ touched \intersect User = {}
    BY <2>1
  <2>3. Alone /\ InPlace /\ rpc.path \in User
    BY <2>1, <2>2 DEF UploadInv, Sound, RequestOK
  <2>4. \A q \in User : files'[q] = files[q]
    BY <2>1, <2>2, ContentFacts, Bounds
  <2>5. ASSUME NEW e \in Range(events'), e.path = rpc.path PROVE e \in Range(events)
    <3>1. CASE events' = events
      BY <2>5, <3>1
    <3>2. ASSUME NEW event \in {"CloseWrite", "Delete"}, Announced(p, event)
          PROVE  e \in Range(events)
      <4>1. events' = events \/ Range(events') = Range(events) \union {[path |-> p, event |-> event]}
        BY <1>0, <3>2, AnnouncedFacts
      <4>2. e # [path |-> p, event |-> event]
        BY <2>2, <2>3, <2>5
      <4> QED
        BY <2>5, <4>1, <4>2
    <3> QED
      BY <2>1, <3>1, <3>2
  <2>6. Alone'
    BY <2>1, <2>3, <2>4 DEF Alone
  <2>7. InPlace'
    BY <2>1, <2>3, <2>4, <2>5 DEF InPlace
  <2> QED
    BY <2>6, <2>7
<1>3. CASE StartWatching
  <2>1. UNCHANGED <<files, events, templates, schemas, rpc, touched>>
    BY <1>3 DEF StartWatching
  <2> QED
    BY <1>1, <2>1 DEF Alone, InPlace
<1>4. CASE FileWritten
  <2>1. PICK p, update :
           /\ p \in Paths
           /\ events # <<>> /\ p = Head(events).path
           /\ events' = Tail(events)
           /\ update \in Updated(p) /\ templates' = update.map
    BY <1>4, WrittenFacts
  <2>2. UNCHANGED <<files, schemas, rpc, touched>>
    BY <1>4 DEF FileWritten, NextEvent
  <2>3. Alone /\ InPlace /\ T \in Types /\ rpc.path \in User /\ rpc.path \in Paths
    BY <1>1, <2>2
  <2>4. Range(events') \subseteq Range(events)
    BY <1>0, <2>1, ReadEvent
  <2>5. ASSUME NEW q \in User \ {rpc.path}, q # rpc.old \/ rpc.pc = "answer"
        PROVE  ~Has(templates', T, q)
    <3>1. ~OfType(files[q], T) /\ ~Has(templates, T, q)
      BY <2>3, <2>5 DEF Alone
    <3>2. q \in Paths
      BY Bounds
    <3> QED
      BY <2>1, <2>3, <3>1, <3>2, UpdateHas
  <2>6. ASSUME rpc.pc \in {"remove", "forget", "answer"}
        PROVE  Lists(templates', T, rpc.path, rpc.template)
    <3>1. Lists(templates, T, rpc.path, rpc.template) /\ files[rpc.path] = rpc.template
      BY <2>3, <2>6 DEF InPlace
    <3>2. CASE rpc.path # p
      BY <2>1, <2>3, <3>1, <3>2, UpdateHas
    <3>3. CASE rpc.path = p
      <4>1. rpc.template \in Template
        BY <2>2 DEF Sound, RequestOK
      <4>2. OfType(files[p], T)
        BY <3>1, <3>3, <4>1, Bounds DEF OfType, Contents
      <4> QED
        BY <2>1, <2>3, <3>1, <3>3, <4>2, UpdateHas
    <3> QED
      BY <3>2, <3>3
  <2>7. Alone'
    BY <2>2, <2>3, <2>5 DEF Alone
  <2>8. InPlace'
    BY <2>2, <2>3, <2>4, <2>6 DEF InPlace
  <2> QED
    BY <2>7, <2>8
<1>5. CASE FileDeleted
  <2>1. PICK p, dropped :
           /\ p \in Paths
           /\ events # <<>> /\ p = Head(events).path /\ Head(events).event = "Delete"
           /\ events' = Tail(events)
           /\ dropped \in Deleted(p) /\ templates' = dropped.map
    BY <1>5, DroppedFacts
  <2>2. UNCHANGED <<files, schemas, rpc, touched>>
    BY <1>5 DEF FileDeleted, NextEvent
  <2>3. Alone /\ InPlace /\ T \in Types /\ rpc.path \in User /\ rpc.path \in Paths
    BY <1>1, <2>2
  <2>4. Range(events') \subseteq Range(events) /\ Head(events) \in Range(events)
    BY <1>0, <2>1, ReadEvent
  <2>5. p # rpc.path
    BY <2>1, <2>3, <2>4 DEF InPlace
  <2>6. \A q \in User \ {rpc.path} : Has(templates', T, q) => Has(templates, T, q)
    BY <2>1, <2>3, DropHas, Bounds
  <2>7. Lists(templates, T, rpc.path, rpc.template) => Lists(templates', T, rpc.path, rpc.template)
    BY <2>1, <2>3, <2>5, DropHas
  <2>8. Alone'
    BY <2>2, <2>3, <2>6 DEF Alone
  <2>9. InPlace'
    BY <2>2, <2>3, <2>4, <2>7 DEF InPlace
  <2> QED
    BY <2>8, <2>9
<1>6. CASE InvalidateCache
  <2>1. UNCHANGED <<files, events, templates, rpc, touched>>
    BY <1>6 DEF InvalidateCache
  <2>2. \A t \in Types : schemas[t] = None => schemas'[t] = None
    BY <1>0, <1>6 DEF InvalidateCache
  <2> QED
    BY <1>1, <2>1, <2>2 DEF Alone, InPlace
<1>7. ASSUME NEW t \in Types, FindTemplate(t) PROVE FALSE
  BY <1>7, FindFacts
<1>8. CASE GenerateSchema \/ AnswerRequest \/ Restart
  <2>1. rpc' = NoRequest
    BY <1>8 DEF GenerateSchema, AnswerRequest, Restart, End
  <2> QED
    BY <2>1, EndFacts
<1>9. ASSUME NEW template \in Uploads, NEW name \in User, Upload(template, name) PROVE Alone' /\ InPlace'
  <2>1. PICK path \in User, old \in User \union {None} :
           /\ Begins("Upload", template, path, old)
           /\ template.type \in Types
           /\ rpc'.pc = "write" /\ rpc'.op = "Upload" /\ rpc'.template = template
           /\ rpc'.path = path /\ rpc'.old = old
    BY <1>9, UploadFacts
  <2>2. UNCHANGED <<files, events, templates, schemas>>
    BY <2>1 DEF Begins
  <2>3. ASSUME NEW p \in User
        PROVE  /\ Known(p) /\ \A e \in Range(events) : e.path # p
               /\ p # old => ~OfType(files[p], template.type)
    <3>1. p \in Paths /\ p \notin touched'
      BY Bounds
    <3> QED
      BY <2>1, <3>1, KnownAtBegin
  <2>4. \A p \in User : p # old => ~Has(templates, template.type, p)
    BY <2>1, <2>3 DEF Known, Uses, Has
  <2>5. Alone'
    BY <2>1, <2>2, <2>3, <2>4 DEF Alone
  <2>6. InPlace'
    BY <2>1, <2>2, <2>3 DEF InPlace
  <2> QED
    BY <2>5, <2>6
<1>10. ASSUME NEW t \in Types, Delete(t) PROVE FALSE
  BY <1>10, DeleteFacts
<1>11. CASE WriteFile
  <2>1. /\ rpc.pc = "write" /\ Announced(rpc.path, "CloseWrite") /\ Goes("update")
        /\ files' = [files EXCEPT ![rpc.path] = rpc.template]
        /\ UNCHANGED <<templates, schemas, touched>>
    BY <1>11 DEF WriteFile
  <2>2. /\ rpc'.pc = "update" /\ rpc'.op = rpc.op /\ rpc'.template = rpc.template
        /\ rpc'.path = rpc.path /\ rpc'.old = rpc.old
    BY <1>0, <2>1, GoesFacts
  <2>3. Alone /\ InPlace /\ rpc.path \in Paths /\ rpc.template \in Contents
    BY <2>1, <2>2, Bounds DEF UploadInv, Sound, RequestOK, Contents
  <2>4. files'[rpc.path] = rpc.template /\ \A q \in Paths \ {rpc.path} : files'[q] = files[q]
    BY <2>1, <2>3, ContentFacts
  <2>5. events' = events
          \/ Range(events') = Range(events) \union {[path |-> rpc.path, event |-> "CloseWrite"]}
    BY <1>0, <2>1, <2>3, AnnouncedFacts
  <2>6. Alone'
    BY <2>1, <2>2, <2>3, <2>4, Bounds DEF Alone
  <2>7. \A e \in Range(events') : e.path = rpc.path => e.event = "CloseWrite"
    BY <2>3, <2>5 DEF InPlace
  <2>8. InPlace'
    BY <2>2, <2>4, <2>7 DEF InPlace
  <2> QED
    BY <2>6, <2>8
<1>12. CASE UpdateUploaded
  <2>1. PICK p, update :
           /\ p \in User
           /\ rpc.pc = "update" /\ p = rpc.path
           /\ update \in Updated(p) /\ templates' = update.map
           /\ \/ rpc' = NoRequest
              \/ /\ ~update.thrown
                 /\ schemas' = Invalidated(update.types)
                 /\ \/ rpc.old \in {None, p} /\ Goes("answer")
                    \/ rpc.old \notin {None, p} /\ Goes("remove")
                 /\ UNCHANGED <<files, events, touched>>
    BY <1>12, UploadedFacts
  <2>2. rpc' # NoRequest
    BY EndFacts
  <2>3. /\ rpc'.pc = (IF rpc.old \in {None, p} THEN "answer" ELSE "remove")
        /\ rpc'.op = rpc.op /\ rpc'.template = rpc.template
        /\ rpc'.path = rpc.path /\ rpc'.old = rpc.old
    BY <1>0, <2>1, <2>2, GoesFacts
  <2>4. /\ Alone /\ InPlace /\ p \in Paths /\ rpc.template \in Template /\ T \in Types
        /\ files[p] \in Contents
    BY <2>1, <2>2, <2>3, Bounds DEF UploadInv, Sound, RequestOK, Template, TypeOK
  <2>5. files[p] = rpc.template /\ OfType(files[p], T) /\ Readable(files[p])
    BY <2>1, <2>4, Bounds DEF InPlace, OfType
  <2>6. Lists(templates', T, p, rpc.template)
    BY <2>1, <2>4, <2>5, UpdateHas
  <2>7. schemas'[T] = None
    <3>1. T \in update.types
      BY <2>1, <2>4, <2>5, UpdatedFacts DEF Sound
    <3> QED
      BY <1>0, <2>1, <2>2, <2>4, <3>1, InvalidatedFacts
  <2>8. \A q \in User \ {p} : Has(templates', T, q) => Has(templates, T, q)
    BY <2>1, <2>4, UpdateHas, Bounds
  <2>9. \A q \in User : rpc.old \in {None, p} /\ q # p => q # rpc.old
    BY Bounds
  <2>10. Alone'
    BY <2>1, <2>2, <2>3, <2>4, <2>8, <2>9 DEF Alone
  <2>11. InPlace'
    BY <2>1, <2>2, <2>3, <2>4, <2>5, <2>6, <2>7 DEF InPlace
  <2> QED
    BY <2>10, <2>11
<1>13. CASE RemoveFile
  <2>1. /\ rpc.pc = "remove" /\ Goes("forget")
        /\ (files[rpc.old] = None /\ events' = events) \/ Announced(rpc.old, "Delete")
        /\ files' = [files EXCEPT ![rpc.old] = None]
        /\ UNCHANGED <<templates, schemas, touched>>
    BY <1>13 DEF RemoveFile
  <2>2. /\ rpc'.pc = "forget" /\ rpc'.op = rpc.op /\ rpc'.template = rpc.template
        /\ rpc'.path = rpc.path /\ rpc'.old = rpc.old
    BY <1>0, <2>1, GoesFacts
  <2>3. /\ Alone /\ InPlace /\ rpc.path \in Paths /\ rpc.old \in Paths /\ rpc.old # rpc.path
    BY <2>1, <2>2, Bounds DEF UploadInv, Sound, RequestOK
  <2>4. files'[rpc.old] = None /\ \A q \in Paths \ {rpc.old} : files'[q] = files[q]
    BY <2>1, <2>3, ContentFacts DEF Contents
  <2>5. events' = events
          \/ Range(events') = Range(events) \union {[path |-> rpc.old, event |-> "Delete"]}
    BY <1>0, <2>1, <2>3, AnnouncedFacts
  <2>6. ~OfType(files'[rpc.old], T)
    BY <2>4 DEF OfType, Readable
  <2>7. Alone'
    BY <2>1, <2>2, <2>3, <2>4, <2>6, Bounds DEF Alone
  <2>8. \A e \in Range(events') : e.path = rpc.path => e.event = "CloseWrite"
    BY <2>3, <2>5 DEF InPlace
  <2>9. InPlace'
    BY <2>1, <2>2, <2>3, <2>4, <2>8 DEF InPlace
  <2> QED
    BY <2>7, <2>9
<1>14. CASE ForgetTemplate
  <2>1. /\ rpc.pc = "forget" /\ Goes("answer") /\ UNCHANGED <<files, events, touched>>
    BY <1>14 DEF ForgetTemplate
  <2>2. /\ rpc'.pc = "answer" /\ rpc'.op = rpc.op /\ rpc'.template = rpc.template
        /\ rpc'.path = rpc.path /\ rpc'.old = rpc.old
    BY <1>0, <2>1, GoesFacts
  <2>3. /\ Alone /\ InPlace /\ rpc.path \in Paths /\ rpc.old \in Paths /\ rpc.old # rpc.path
        /\ T \in Types
    BY <2>1, <2>2, Bounds DEF UploadInv, Sound, RequestOK, Template
  <2>4. PICK dropped \in Deleted(rpc.old) :
          templates' = dropped.map /\ schemas' = Invalidated(dropped.types)
    BY <1>14 DEF ForgetTemplate
  <2>5. /\ ~Has(templates', T, rpc.old)
        /\ \A q \in Paths \ {rpc.old} : Has(templates', T, q) => Has(templates, T, q)
        /\ Lists(templates, T, rpc.path, rpc.template) => Lists(templates', T, rpc.path, rpc.template)
    BY <2>3, <2>4, DropHas
  <2>6. schemas[T] = None => schemas'[T] = None
    BY <1>0, <2>3, <2>4, InvalidatedFacts
  <2>7. Alone'
    BY <2>1, <2>2, <2>3, <2>5, Bounds DEF Alone
  <2>8. InPlace'
    BY <2>1, <2>2, <2>3, <2>5, <2>6 DEF InPlace
  <2> QED
    BY <2>7, <2>8
<1>15. CASE UNCHANGED vars
  BY <1>1, <1>15 DEF vars, Alone, InPlace
<1> QED
  BY <1>2, <1>3, <1>4, <1>5, <1>6, <1>7, <1>8, <1>9, <1>10, <1>11, <1>12, <1>13, <1>14, <1>15 DEF Next

\* When an upload is answered that nobody has disturbed, what was uploaded is in use, no schema
\* of another template is kept for its type, and no other file of the user has the type.
THEOREM UploadsHold == Spec => []UploadHolds
<1>1. Sound /\ UploadInv => UploadHolds
  <2> SUFFICES ASSUME Sound, UploadInv, rpc.pc = "answer", rpc.op = "Upload", touched \intersect User = {},
                      NEW t, t = rpc.template.type
               PROVE  /\ templates[t] # <<>>
                      /\ InUse(t).header = rpc.template
                      /\ schemas[t] \in {None, rpc.template}
                      /\ {p \in User : OfType(files[p], t)} = {rpc.path}
    BY DEF UploadHolds
  <2>1. /\ Alone /\ InPlace /\ rpc.path \in User /\ rpc.template \in Template /\ t \in Types
    BY DEF UploadInv, Sound, RequestOK, Template
  <2>2. PICK e \in Range(templates[t]) : e.path = rpc.path /\ e.header = rpc.template
    BY <2>1 DEF InPlace, Lists
  <2>3. /\ Range(templates[t]) = {templates[t][i] : i \in 1..Len(templates[t])}
        /\ templates[t] \in Seq(Entry) /\ Len(templates[t]) \in Nat
    BY <2>1, ListFacts DEF Sound, Ordered
  <2>4. templates[t] # <<>>
    <3>1. Len(templates[t]) # 0
      BY <2>2, <2>3
    <3> QED
      BY <2>3, <3>1, EmptySeq
  <2>5. PICK last \in Range(templates[t]) : last = InUse(t) /\ last.path \in User
    BY <2>1, <2>2, <2>4, InUseFacts DEF Sound
  <2>6. last.path = rpc.path
    BY <2>1, <2>5 DEF Alone, Has
  <2>7. last = e
    BY <2>1, <2>2, <2>3, <2>5, <2>6 DEF Sound, Ordered, Once
  <2>8. OfType(files[rpc.path], t)
    BY <2>1, Bounds DEF InPlace, OfType, Contents
  <2>9. \A p \in User : OfType(files[p], t) <=> p = rpc.path
    BY <2>1, <2>8 DEF Alone
  <2> QED
    BY <2>1, <2>2, <2>4, <2>5, <2>7, <2>9 DEF InPlace
<1> QED
  BY <1>1, InitSound, NextSound, InitUpload, NextUpload, PTL DEF Spec
=============================================================================
