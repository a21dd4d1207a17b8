---------------------------- MODULE ModbusProofs ----------------------------
(***************************************************************************)
(* Proofs about the Modbus driver. First about ModbusRegisters, for any    *)
(* devices, configurations and limits: bits beside a written one are kept, *)
(* what the setup section has written stays, and a register is not taken   *)
(* for unavailable because of holes or of its neighbours in a range. Then  *)
(* about FastModbusEvents: it implements EventDelivery, for any devices    *)
(* and numbers of events, however requests and answers are lost.           *)
(***************************************************************************)
EXTENDS ModbusRegisters, FastModbusEvents, FiniteSetTheorems, WellFoundedInduction, TLAPS

-----------------------------------------------------------------------------
(* Least and greatest elements. *)

LEMMA LeastNatural ==
  ASSUME NEW T, T \subseteq Nat, T # {}
  PROVE  \E x \in T : \A y \in T : x <= y
<1> DEFINE R == OpToRel(<, Nat)
<1>1. IsWellFoundedOn(R, Nat)
  BY NatLessThanWellFounded
<1>2. \A x \in Nat, y \in Nat : y < x => <<y, x>> \in R
  BY DEF OpToRel
<1> HIDE DEF R
<1>3. PICK x \in T : \A y \in T : ~ (<<y, x>> \in R)
  BY <1>1, WFMin
<1>4. ASSUME NEW y \in T PROVE x <= y
  <2>1. ~ (y < x)
    BY <1>2, <1>3
  <2> QED
    BY <2>1
<1> QED
  BY <1>4

LEMMA LeastFacts ==
  ASSUME NEW S, S \subseteq Nat, S # {}
  PROVE  Min(S) \in S /\ \A y \in S : Min(S) <= y
BY LeastNatural DEF Min

LEMMA LeastOfSubset ==
  ASSUME NEW S, S \subseteq Nat, NEW T, T \subseteq S, Min(S) \in T
  PROVE  Min(T) = Min(S)
<1>1. Min(S) \in S /\ \A y \in S : Min(S) <= y
  BY LeastFacts
<1>2. Min(T) \in T /\ \A y \in T : Min(T) <= y
  <2>1. T \subseteq Nat /\ T # {}
    OBVIOUS
  <2> QED
    BY <2>1, LeastFacts
<1>3. PICK s, t : s = Min(S) /\ t = Min(T)
  OBVIOUS
<1>4. s \in Nat /\ t \in Nat /\ s <= t /\ t <= s
  BY <1>1, <1>2, <1>3
<1> QED
  BY <1>3, <1>4

\* By the number of its elements: what is left without one of them has a greatest one.
LEMMA FiniteGreatest ==
  ASSUME NEW S, S \subseteq Nat, S # {}, IsFiniteSet(S)
  PROVE  \E x \in S : \A y \in S : y <= x
<1> DEFINE Bad(A) == A # {} /\ IsFiniteSet(A) /\ ~ \E x \in A : \A y \in A : y <= x
           T == {Cardinality(A) : A \in {B \in SUBSET Nat : Bad(B)}}
<1>1. SUFFICES ASSUME Bad(S) PROVE FALSE
  OBVIOUS
<1>2. T \subseteq Nat /\ T # {}
  BY <1>1, FS_CardinalityType
<1>3. PICK n \in T : \A m \in T : n <= m
  <2> HIDE DEF T
  <2> QED
    BY <1>2, LeastNatural
<1>4. PICK A \in SUBSET Nat : Bad(A) /\ n = Cardinality(A)
  BY <1>3
<1>5. PICK x \in A : x \in Nat
  BY <1>4
<1>6. PICK B : B = A \ {x}
  OBVIOUS
<1>7. IsFiniteSet(B) /\ Cardinality(B) = n - 1 /\ B \in SUBSET Nat /\ n \in Nat
  BY <1>2, <1>3, <1>4, <1>5, <1>6, FS_RemoveElement
<1>8. Cardinality(B) \notin T
  <2> HIDE DEF T
  <2> QED
    BY <1>2, <1>3, <1>7
<1>9. ~Bad(B)
  BY <1>7, <1>8
<1>10. CASE B = {}
  BY <1>4, <1>5, <1>6, <1>10
<1>11. CASE B # {}
  <2>1. PICK m \in B : \A y \in B : y <= m
    BY <1>7, <1>9, <1>11
  <2>2. m \in Nat /\ m \in A
    BY <1>6, <1>7
  <2>3. \A y \in A : y = x \/ y \in B
    BY <1>6
  <2>4. CASE m <= x
    BY <1>4, <1>5, <1>7, <2>1, <2>2, <2>3, <2>4
  <2>5. CASE x <= m
    BY <1>4, <1>5, <1>7, <2>1, <2>2, <2>3, <2>5
  <2> QED
    BY <1>5, <2>2, <2>4, <2>5
<1> QED
  BY <1>10, <1>11

LEMMA GreatestFacts ==
  ASSUME NEW S, S \subseteq Nat, S # {}, IsFiniteSet(S)
  PROVE  Max(S) \in S /\ \A y \in S : y <= Max(S)
<1>1. PICK x \in S : \A y \in S : x >= y
  BY FiniteGreatest
<1> QED
  BY <1>1 DEF Max

LEMMA GreatestOfOne ==
  ASSUME NEW n \in Nat
  PROVE  Max({n}) = n
<1>1. IsFiniteSet({n})
  BY FS_Singleton
<1>2. {n} \subseteq Nat /\ {n} # {}
  OBVIOUS
<1> QED
  BY <1>1, <1>2, GreatestFacts

LEMMA ImageIsFinite ==
  ASSUME NEW f, NEW S, IsFiniteSet(S), S \subseteq DOMAIN f
  PROVE  IsFiniteSet({f[x] : x \in S})
<1> DEFINE T == {f[x] : x \in S}
           g == [x \in S |-> f[x]]
<1>1. g \in Surjection(S, T)
  BY DEF Surjection
<1> HIDE DEF T, g
<1>2. IsFiniteSet(T)
  BY <1>1, FS_Surjection
<1> QED
  BY <1>2 DEF T

-----------------------------------------------------------------------------
(* Ranges *)

\* Registers with the numbers in which they are offered to a range.
IsList(regs) ==
  /\ DOMAIN regs \subseteq Nat /\ IsFiniteSet(DOMAIN regs)
  /\ \A n \in DOMAIN regs : regs[n] \in Register

LEMMA RegisterFacts ==
  ASSUME NEW r \in Register
  PROVE  /\ r.addr \in Nat /\ r.width \in Nat /\ r.width > 0
         /\ r.part \in {"all", "lo", "hi"}
         /\ Words(r) \subseteq Nat
         /\ \A w \in Nat : w \in Words(r) <=> r.addr <= w /\ w < r.addr + r.width
BY DEF Register, Words

\* The end of a range is that of one of its registers, and none ends behind it.
LEMMA EndFacts ==
  ASSUME NEW regs, IsList(regs), NEW R, R \subseteq DOMAIN regs, R # {}
  PROVE  /\ Max(Ends(regs, R)) \in Nat
         /\ \E n \in R : Max(Ends(regs, R)) = regs[n].addr + regs[n].width
         /\ \A n \in R : regs[n].addr + regs[n].width <= Max(Ends(regs, R))
<1>1. PICK end : end = [n \in DOMAIN regs |-> regs[n].addr + regs[n].width]
  OBVIOUS
<1>2. Ends(regs, R) = {end[n] : n \in R}
  BY <1>1 DEF Ends
<1>3. IsFiniteSet(R)
  BY FS_Subset DEF IsList
<1>4. IsFiniteSet(Ends(regs, R))
  BY <1>1, <1>2, <1>3, ImageIsFinite
<1>5. \A n \in R : end[n] \in Nat /\ end[n] = regs[n].addr + regs[n].width
  BY <1>1, RegisterFacts DEF IsList
<1>6. Ends(regs, R) \subseteq Nat /\ Ends(regs, R) # {}
  BY <1>2, <1>5
<1>7. Max(Ends(regs, R)) \in Ends(regs, R) /\ \A y \in Ends(regs, R) : y <= Max(Ends(regs, R))
  BY <1>4, <1>6, GreatestFacts
<1> QED
  BY <1>2, <1>5, <1>7

\* A range starts with the first register that is offered and leaves none out in between.
LEMMA TogetherFacts ==
  ASSUME NEW regs, IsList(regs), NEW av, Offered(regs, av) # {}
  PROVE  /\ Together(regs, av) \subseteq Offered(regs, av)
         /\ Together(regs, av) \subseteq DOMAIN regs
         /\ Min(Offered(regs, av)) \in Together(regs, av)
         /\ Min(Together(regs, av)) = Min(Offered(regs, av))
         /\ \A n \in Together(regs, av), m \in Offered(regs, av) :
              m <= n => m \in Together(regs, av)
<1>1. PICK S : S = Offered(regs, av)
  OBVIOUS
<1>2. S \subseteq DOMAIN regs /\ S \subseteq Nat /\ S # {}
  BY <1>1 DEF Offered, IsList
<1>3. Min(S) \in S /\ \A m \in S : Min(S) <= m
  BY <1>2, LeastFacts
<1>4. Together(regs, av) =
        {n \in S : \A m \in S : m <= n /\ m # Min(S) => Fits(regs, Before(S, m), regs[m], av)}
  BY <1>1 DEF Together
<1>5. Min(S) \in Together(regs, av)
  <2>1. \A m \in S : m <= Min(S) => m = Min(S)
    BY <1>2, <1>3
  <2> QED
    BY <1>3, <1>4, <2>1
<1>6. Together(regs, av) \subseteq S
  BY <1>4
<1>7. Min(Together(regs, av)) = Min(S)
  BY <1>2, <1>5, <1>6, LeastOfSubset
<1>8. \A n \in Together(regs, av), m \in S : m <= n => m \in Together(regs, av)
  <2>1. ASSUME NEW n \in Together(regs, av), NEW m \in S, m <= n,
               NEW k \in S, k <= m, k # Min(S)
        PROVE  Fits(regs, Before(S, k), regs[k], av)
    <3>1. n \in Nat /\ m \in Nat /\ k \in Nat
      BY <1>2, <1>6, <2>1
    <3>2. k <= n
      BY <2>1, <3>1
    <3> QED
      BY <1>4, <2>1, <3>2
  <2> QED
    BY <1>4, <2>1
<1> QED
  BY <1>1, <1>2, <1>5, <1>6, <1>7, <1>8

LEMMA AddedNear ==
  ASSUME NEW regs, IsList(regs), NEW av, Offered(regs, av) # {},
         NEW n \in Together(regs, av), n # Min(Together(regs, av))
  PROVE  Near(regs, Before(Offered(regs, av), n), regs[n], av)
<1>1. PICK S : S = Offered(regs, av)
  OBVIOUS
<1>2. S \subseteq Nat /\ n \in S /\ n # Min(S)
  <2>1. /\ Together(regs, av) \subseteq Offered(regs, av)
        /\ Min(Together(regs, av)) = Min(Offered(regs, av))
    BY TogetherFacts
  <2>2. DOMAIN regs \subseteq Nat /\ Offered(regs, av) \subseteq DOMAIN regs
    BY DEF IsList, Offered
  <2> QED
    BY <1>1, <2>1, <2>2
<1>3. Together(regs, av) =
        {k \in S : \A m \in S : m <= k /\ m # Min(S) => Fits(regs, Before(S, m), regs[m], av)}
  BY <1>1 DEF Together
<1>4. n <= n
  BY <1>2
<1> QED
  BY <1>1, <1>2, <1>3, <1>4 DEF Fits

\* What was checked of a register of a range, other than the first one, when it was added.
LEMMA AddedFits ==
  ASSUME NEW regs, IsList(regs), NEW av, Offered(regs, av) # {},
         NEW n \in Together(regs, av), n # Min(Together(regs, av))
  PROVE  /\ regs[Min(Together(regs, av))].addr <= regs[n].addr
         /\ MayShare(regs[Max(Before(Offered(regs, av), n))], regs[n], av)
<1>1. PICK S : S = Offered(regs, av)
  OBVIOUS
<1>2. PICK R : R = Together(regs, av)
  OBVIOUS
<1>3. S \subseteq Nat /\ n \in S /\ Min(S) = Min(R) /\ S # {} /\ n # Min(S)
  <2>1. /\ Together(regs, av) \subseteq Offered(regs, av)
        /\ Together(regs, av) \subseteq DOMAIN regs
        /\ Min(Together(regs, av)) = Min(Offered(regs, av))
    BY TogetherFacts
  <2>2. DOMAIN regs \subseteq Nat /\ Offered(regs, av) \subseteq DOMAIN regs
    BY DEF IsList, Offered
  <2> QED
    BY <1>1, <1>2, <2>1, <2>2
<1>4. Near(regs, Before(S, n), regs[n], av)
  BY <1>1, AddedNear
<1>5. Min(Before(S, n)) = Min(S)
  <2>1. Min(S) \in S /\ \A m \in S : Min(S) <= m
    BY <1>3, LeastFacts
  <2>2. PICK m : m = Min(S)
    OBVIOUS
  <2>3. m < n
    <3>1. m \in Nat /\ n \in Nat
      BY <1>3, <2>1, <2>2
    <3>2. m <= n
      BY <1>3, <2>1, <2>2
    <3>3. m # n
      BY <1>3, <2>2
    <3> QED
      BY <3>1, <3>2, <3>3
  <2>4. Before(S, n) \subseteq S /\ Min(S) \in Before(S, n)
    BY <2>1, <2>2, <2>3 DEF Before
  <2> QED
    BY <1>3, <2>4, LeastOfSubset
<1>6. regs[Min(Before(S, n))].addr <= regs[n].addr
       /\ MayShare(regs[Max(Before(S, n))], regs[n], av)
  BY <1>4 DEF Near
<1> QED
  BY <1>1, <1>2, <1>3, <1>5, <1>6

\* A range takes the first registers of those that may be read together.
IsRange(regs, av, R) ==
  Offered(regs, av) # {} /\ (R = Together(regs, av) \/ R \in Ranges(regs, av))

LEMMA RangeFacts ==
  ASSUME NEW regs, IsList(regs), NEW av, NEW R, IsRange(regs, av, R)
  PROVE  /\ Offered(regs, av) # {}
         /\ R \subseteq Together(regs, av) /\ R \subseteq Offered(regs, av)
         /\ R \subseteq DOMAIN regs /\ R \subseteq Nat /\ R # {}
         /\ Min(R) \in R /\ Min(R) = Min(Together(regs, av))
         /\ \A n \in R, m \in Offered(regs, av) : m <= n => m \in R
<1>1. PICK S : S = Offered(regs, av)
  OBVIOUS
<1>2. PICK T : T = Together(regs, av)
  OBVIOUS
<1>3. /\ S # {} /\ T \subseteq S /\ T \subseteq DOMAIN regs /\ Min(T) \in T
      /\ \A n \in T, m \in S : m <= n => m \in T
  BY <1>1, <1>2, TogetherFacts DEF IsRange
<1>4. S \subseteq Nat /\ T \subseteq Nat
  BY <1>1, <1>3 DEF Offered, IsList
<1>5. R = T \/ \E end \in T : R = {n \in T : n <= end}
  BY <1>1, <1>2 DEF IsRange, Ranges
<1>6. CASE R = T
  BY <1>1, <1>2, <1>3, <1>4, <1>6
<1>7. ASSUME NEW end \in T, R = {n \in T : n <= end}
      PROVE  /\ R \subseteq T /\ Min(T) \in R
             /\ \A n \in R, m \in S : m <= n => m \in R
  <2>1. Min(T) <= end
    BY <1>4, LeastFacts
  <2>2. \A n \in R, m \in S : m <= n => m \in T /\ m <= end
    BY <1>3, <1>4, <1>7
  <2> QED
    BY <1>3, <1>7, <2>1, <2>2
<1>8. CASE \E end \in T : R = {n \in T : n <= end}
  <2>1. R \subseteq T /\ Min(T) \in R /\ \A n \in R, m \in S : m <= n => m \in R
    BY <1>7, <1>8
  <2>2. Min(R) = Min(T)
    BY <1>4, <2>1, LeastOfSubset
  <2> QED
    BY <1>1, <1>2, <1>3, <1>4, <2>1, <2>2
<1> QED
  BY <1>5, <1>6, <1>8

\* The words of the registers of a range are between its start and its end.
LEMMA WordsAreCovered ==
  ASSUME NEW regs, IsList(regs), NEW av, NEW R, IsRange(regs, av, R)
  PROVE  /\ WordsOf(regs, R) \subseteq Covered(regs, R)
         /\ Covered(regs, R) \subseteq Nat
<1>1. R \subseteq Together(regs, av) /\ Min(R) = Min(Together(regs, av)) /\ Offered(regs, av) # {}
  BY RangeFacts
<1>2. R \subseteq DOMAIN regs /\ R # {} /\ Min(R) \in R
  BY RangeFacts
<1>3. PICK first : first = regs[Min(R)].addr
  OBVIOUS
<1>4. PICK end : end = Max(Ends(regs, R))
  OBVIOUS
<1>5. first \in Nat /\ end \in Nat
  BY <1>2, <1>3, <1>4, EndFacts, RegisterFacts DEF IsList
<1>6. Covered(regs, R) = first .. end - 1
  BY <1>3, <1>4 DEF Covered
<1>7. ASSUME NEW n \in R PROVE Words(regs[n]) \subseteq first .. end - 1
  <2>1. regs[n] \in Register
    BY <1>2 DEF IsList
  <2>2. regs[n].addr \in Nat /\ regs[n].width \in Nat
    BY <2>1, RegisterFacts
  <2>3. first <= regs[n].addr
    <3>1. CASE n = Min(R)
      BY <1>3, <2>2, <3>1
    <3>2. CASE n # Min(R)
      <4>1. n \in Together(regs, av) /\ n # Min(Together(regs, av))
        BY <1>1, <3>2
      <4> QED
        BY <1>1, <1>3, <4>1, AddedFits
    <3> QED
      BY <3>1, <3>2
  <2>4. regs[n].addr + regs[n].width <= end
    BY <1>2, <1>4, EndFacts
  <2> QED
    BY <1>5, <2>2, <2>3, <2>4 DEF Words
<1>8. WordsOf(regs, R) \subseteq first .. end - 1
  BY <1>7 DEF WordsOf
<1>9. first .. end - 1 \subseteq Nat
  BY <1>5
<1> QED
  BY <1>6, <1>8, <1>9

\* A range without holes has the words of its registers and no others.
LEMMA NothingBetween ==
  ASSUME NEW regs, IsList(regs), NEW av, NEW R, IsRange(regs, av, R),
         ~HasHoles(regs, R, av)
  PROVE  Covered(regs, R) \subseteq WordsOf(regs, R)
<1> SUFFICES ASSUME NEW w \in Covered(regs, R) PROVE \E n \in R : w \in Words(regs[n])
  BY DEF WordsOf
<1>1. \A n \in R : /\ regs[n] \in Register
                    /\ regs[n].addr \in Nat /\ regs[n].width \in Nat
  BY RangeFacts, RegisterFacts DEF IsList
<1>2. R \subseteq Nat /\ R \subseteq DOMAIN regs /\ R # {}
  BY RangeFacts
<1>3. Min(R) \in R /\ \A m \in R : Min(R) <= m
  BY <1>2, LeastFacts
<1>4. w \in Nat /\ regs[Min(R)].addr <= w /\ w < Max(Ends(regs, R))
  BY <1>1, <1>2, <1>3, EndFacts DEF Covered
<1>5. PICK S : S = {n \in R : w < regs[n].addr + regs[n].width}
  OBVIOUS
<1>6. S \subseteq Nat /\ S # {} /\ S \subseteq R
  <2>1. PICK k \in R : Max(Ends(regs, R)) = regs[k].addr + regs[k].width
    BY <1>2, EndFacts
  <2>2. k \in S
    BY <1>4, <1>5, <2>1
  <2> QED
    BY <1>2, <1>5, <2>2
<1>7. PICK n \in S : \A m \in S : n <= m
  BY <1>6, LeastNatural
<1>8. n \in R /\ w < regs[n].addr + regs[n].width
  BY <1>5
<1>9. regs[n].addr <= w
  <2>1. CASE n = Min(R)
    BY <1>4, <2>1
  <2>2. CASE n # Min(R)
    <3>1. PICK B : B = Before(Offered(regs, av), n)
      OBVIOUS
    <3>2. B \subseteq R /\ B # {} /\ \A m \in B : m < n
      <4>1. n \in Nat /\ Min(R) \in Nat /\ Min(R) <= n
        BY <1>2, <1>3, <1>8
      <4>2. Min(R) < n
        BY <4>1, <2>2
      <4>3. \A m \in B : m \in Offered(regs, av) /\ m < n
        BY <3>1 DEF Before
      <4>4. Offered(regs, av) \subseteq Nat
        BY DEF Offered, IsList
      <4>5. \A m \in B : m \in R
        BY <1>8, <4>1, <4>3, <4>4, RangeFacts
      <4>6. Min(R) \in B
        BY <1>3, <3>1, <4>2, RangeFacts DEF Before
      <4> QED
        BY <4>3, <4>5, <4>6
    <3>3. PICK m \in B : Max(Ends(regs, B)) = regs[m].addr + regs[m].width
      BY <1>2, <3>2, EndFacts
    <3>4. m \notin S
      <4>1. m \in Nat /\ n \in Nat /\ m < n
        BY <1>2, <1>8, <3>2, <3>3
      <4> QED
        BY <1>7, <4>1
    <3>5. regs[m].addr + regs[m].width <= w
      BY <1>1, <1>4, <1>5, <3>2, <3>4
    <3>6. ~(regs[n].addr > Max(Ends(regs, B)))
      <4>1. n \in Together(regs, av) /\ n # Min(Together(regs, av)) /\ n \in Offered(regs, av)
        BY <1>8, <2>2, RangeFacts
      <4>2. Near(regs, B, regs[n], av)
        BY <3>1, <4>1, RangeFacts, AddedNear
      <4> QED
        BY <3>1, <3>2, <4>1, <4>2 DEF HasHoles
    <3>7. regs[n].addr <= regs[m].addr + regs[m].width
      BY <1>1, <1>8, <3>2, <3>3, <3>6
    <3> QED
      BY <1>1, <1>4, <1>8, <3>2, <3>5, <3>7
  <2> QED
    BY <2>1, <2>2
<1> QED
  BY <1>1, <1>4, <1>8, <1>9, RegisterFacts

\* Registers that are not known yet are read alone, when reading is not continuous.
LEMMA UnknownReadAlone ==
  ASSUME NEW regs, IsList(regs), NEW av, Offered(regs, av) # {}, ~believed,
         NEW n \in Together(regs, av), NEW k \in Together(regs, av), n # k
  PROVE  av[regs[n]] # "UNKNOWN"
<1>1. PICK S : S = Offered(regs, av)
  OBVIOUS
<1>2. PICK R : R = Together(regs, av)
  OBVIOUS
<1>3. /\ S \subseteq Nat /\ R \subseteq S /\ Min(R) = Min(S)
      /\ \A x \in R, y \in S : y <= x => y \in R
  <2>1. S \subseteq DOMAIN regs /\ DOMAIN regs \subseteq Nat
    BY <1>1 DEF Offered, IsList
  <2> QED
    BY <1>1, <1>2, <2>1, TogetherFacts
<1>4. PICK first : first = Min(R)
  OBVIOUS
<1>5. first \in R /\ \A x \in R : first <= x
  <2>1. R \subseteq Nat /\ R # {}
    BY <1>2, <1>3
  <2> QED
    BY <1>4, <2>1, LeastFacts
<1>6. \A x \in R : x # first => /\ av[regs[Max(Before(S, x))]] # "UNKNOWN"
                                /\ av[regs[x]] # "UNKNOWN"
  BY <1>1, <1>2, <1>4, AddedFits DEF MayShare
<1>7. CASE n # first
  BY <1>2, <1>6, <1>7
<1>8. CASE n = first
  <2>1. R \ {first} \subseteq Nat /\ R \ {first} # {}
    BY <1>2, <1>3, <1>8
  <2>2. PICK x \in R \ {first} : \A y \in R \ {first} : x <= y
    BY <2>1, LeastNatural
  <2>3. first \in Nat /\ x \in Nat /\ first <= x /\ x # first
    BY <1>3, <1>5, <2>1, <2>2
  <2>4. first < x
    BY <2>3
  <2>5. Before(S, x) = {first}
    <3>1. ASSUME NEW y \in S, y < x PROVE y = first
      <4>1. y \in Nat
        BY <1>3
      <4>2. y <= x
        BY <2>3, <3>1, <4>1
      <4>3. y \in R
        BY <1>3, <2>2, <4>2
      <4>4. ~(x <= y)
        BY <2>3, <3>1, <4>1
      <4> QED
        BY <2>2, <4>3, <4>4
    <3> QED
      BY <1>3, <1>5, <2>4, <3>1 DEF Before
  <2>6. Max({first}) = first
    BY <2>3, GreatestOfOne
  <2> QED
    BY <1>6, <1>8, <2>2, <2>5, <2>6
<1> QED
  BY <1>7, <1>8

-----------------------------------------------------------------------------
(* Types *)

LEMMA ConfigFacts ==
  ASSUME TypeOK
  PROVE  /\ shift \in Nat /\ supported \subseteq Addresses /\ Addresses \subseteq Nat
         /\ config.hears \in BOOLEAN
         /\ Len(setup) \in Nat /\ DOMAIN setup = 1 .. Len(setup)
         /\ \A i \in DOMAIN setup : /\ setup[i].reg \in Register /\ setup[i].value \in {0, 1}
                                    /\ Partial(setup[i].reg) => setup[i].reg.width = 1
         /\ Polled \subseteq Register /\ config.written \subseteq Register
         /\ config.changing \subseteq Addresses
         /\ \A r \in Polled : \A w \in Words(r) : w + shift \in Addresses
<1>1. PICK c : c = config
  OBVIOUS
<1>2. c \in Configs
  BY <1>1 DEF TypeOK
<1>3. c \in Config
  BY <1>2, ModbusAssumption
<1>4. /\ c.shift \in Nat /\ c.supported \subseteq Addresses /\ c.hears \in BOOLEAN
      /\ c.setup \in Seq(Item) /\ c.polled \subseteq Register /\ c.written \subseteq Register
      /\ c.changing \subseteq Addresses
  BY <1>3 DEF Config
<1>5. Len(c.setup) \in Nat /\ DOMAIN c.setup = 1 .. Len(c.setup)
      /\ \A i \in DOMAIN c.setup : c.setup[i] \in Item
  BY <1>4
<1>6. \A i \in DOMAIN c.setup : c.setup[i].reg \in Register /\ c.setup[i].value \in {0, 1}
  BY <1>5 DEF Item
<1>7. \A i \in DOMAIN c.setup : c.setup[i].reg.part # "all" => c.setup[i].reg.width = 1
  BY <1>2, ModbusAssumption
<1>8. \A r \in c.polled : \A w \in Words(r) : w + c.shift \in Addresses
  BY <1>2, ModbusAssumption DEF Words
<1> QED
  BY <1>1, <1>4, <1>5, <1>6, <1>7, <1>8, ModbusAssumption
     DEF shift, supported, setup, Polled, Partial

\* A composed word has the value in the part that is written, and elsewhere what is cached.
LEMMA ComposedFacts ==
  ASSUME NEW r \in Register, NEW v \in {0, 1}, NEW w,
         w \in DOMAIN cache => cache[w] \in Word
  PROVE  /\ Composed(r, v, w) \in Word
         /\ r.part # "hi" => Composed(r, v, w).lo = v
         /\ r.part # "lo" => Composed(r, v, w).hi = v
         /\ w \in DOMAIN cache => /\ r.part = "lo" => Composed(r, v, w).hi = cache[w].hi
                                  /\ r.part = "hi" => Composed(r, v, w).lo = cache[w].lo
<1>1. PICK old : old = IF w \in DOMAIN cache THEN cache[w] ELSE Zero
  OBVIOUS
<1>2. old \in Word /\ (w \in DOMAIN cache => old = cache[w])
  BY <1>1 DEF Word, Zero
<1>3. Composed(r, v, w) = CASE r.part = "lo" -> [old EXCEPT !.lo = v]
                            [] r.part = "hi" -> [old EXCEPT !.hi = v]
                            [] r.part = "all" -> [lo |-> v, hi |-> v]
  BY <1>1 DEF Composed
<1>4. r.part \in {"lo", "hi", "all"}
  BY RegisterFacts
<1>5. CASE r.part = "lo"
  BY <1>2, <1>3, <1>5 DEF Word
<1>6. CASE r.part = "hi"
  BY <1>2, <1>3, <1>6 DEF Word
<1>7. CASE r.part = "all"
  BY <1>2, <1>3, <1>7 DEF Word
<1> QED
  BY <1>4, <1>5, <1>6, <1>7

\* What FillSetupRegistersCache reads together.
LEMMA FillFacts ==
  ASSUME TypeOK, Uncached # {}
  PROVE  /\ FillRange \subseteq Uncached
         /\ Max(FillRange) \in Uncached
         /\ WordsOf(FillList, FillRange) \subseteq Covered(FillList, FillRange)
         /\ Covered(FillList, FillRange) \subseteq Nat
<1>1. PICK U : U = Uncached
  OBVIOUS
<1>2. U \subseteq next .. Len(setup) /\ U \subseteq DOMAIN setup /\ next \in Nat
      /\ Len(setup) \in Nat /\ U # {} /\ U \subseteq Nat
  BY <1>1, ConfigFacts DEF Uncached, TypeOK
<1>3. IsFiniteSet(U)
  <2>1. IsFiniteSet(next .. Len(setup))
    BY <1>2, FS_Interval
  <2> QED
    BY <1>2, <2>1, FS_Subset
<1>4. PICK regs : regs = FillList
  OBVIOUS
<1>5. DOMAIN regs = U /\ \A i \in U : regs[i] = setup[i].reg
  BY <1>1, <1>4 DEF FillList
<1>6. IsList(regs)
  BY <1>2, <1>3, <1>5, ConfigFacts DEF IsList
<1>7. PICK av : av = FillAvail
  OBVIOUS
<1>8. Offered(regs, av) = U
  BY <1>1, <1>5, <1>7 DEF Offered, FillAvail
<1>9. FillRange = Together(regs, av)
  BY <1>4, <1>7 DEF FillRange
<1>10. FillRange \subseteq U /\ FillRange # {}
  BY <1>2, <1>6, <1>8, <1>9, TogetherFacts
<1>11. Max(FillRange) \in FillRange
  <2>1. IsFiniteSet(FillRange)
    BY <1>3, <1>10, FS_Subset
  <2>2. FillRange \subseteq Nat
    BY <1>2, <1>10
  <2> QED
    BY <1>10, <2>1, <2>2, GreatestFacts
<1>12. /\ WordsOf(regs, FillRange) \subseteq Covered(regs, FillRange)
       /\ Covered(regs, FillRange) \subseteq Nat
  <2>1. IsRange(regs, av, FillRange)
    BY <1>2, <1>8, <1>9 DEF IsRange
  <2> QED
    BY <1>6, <2>1, WordsAreCovered
<1> QED
  BY <1>1, <1>4, <1>10, <1>11, <1>12

LEMMA QueueFacts ==
  ASSUME TypeOK, NEW queue \in Queues
  PROVE  /\ IsList(queue)
         /\ \A n \in DOMAIN queue : queue[n] \in Polled
<1>1. PICK n \in 1 .. Cardinality(Polled) : queue \in Injection(1 .. n, Polled)
  BY DEF Queues
<1>2. n \in Int
  BY <1>1
<1>3. queue \in [1 .. n -> Polled]
  BY <1>1 DEF Injection
<1>4. DOMAIN queue = 1 .. n /\ \A m \in DOMAIN queue : queue[m] \in Polled
  BY <1>3
<1>5. IsFiniteSet(1 .. n) /\ 1 .. n \subseteq Nat
  BY <1>2, FS_Interval
<1> QED
  BY <1>4, <1>5, ConfigFacts DEF IsList

LEMMA ReadFacts ==
  ASSUME TypeOK, NEW queue \in Queues, NEW range \in Ranges(queue, avail)
  PROVE  /\ IsRange(queue, avail, range)
         /\ range \subseteq DOMAIN queue
         /\ WordsOf(queue, range) \subseteq Covered(queue, range)
         /\ Covered(queue, range) \subseteq Nat
<1>1. IsRange(queue, avail, range)
  BY DEF IsRange, Ranges, Together
<1>2. IsList(queue)
  BY QueueFacts
<1> QED
  BY <1>1, <1>2, RangeFacts, WordsAreCovered

-----------------------------------------------------------------------------
(* What a step does to the words of the device and to those that are known. *)

\* Words as requests write them, with the part of each word that is meant.
Writable(words, part) ==
  /\ DOMAIN words \subseteq Nat
  /\ \A w \in DOMAIN words : words[w] \in Word
  /\ \/ part = "all"
     \/ \E r \in Register, v \in {0, 1} : words = RegisterWords(r, v) /\ part = r.part

WritesWords ==
  \E words, part, kept, outcome : Writable(words, part) /\ Write(words, part, kept, outcome)

LearnsWords ==
  /\ UNCHANGED <<mem, damaged>>
  /\ \E words, s : /\ words \subseteq Nat /\ s \in {0, shift}
                   /\ \A w \in words : w + s \in Addresses
                   /\ Learn(words, s)

DeviceActs == \E a \in Addresses, part \in {"lo", "hi"} : DeviceChanges(a, part)

KnownWords == \A w \in DOMAIN cache : cache[w] \in Word

LEMMA KnownWordsType ==
  ASSUME TypeOK
  PROVE  KnownWords
BY DEF TypeOK, KnownWords, Range

LEMMA RegisterIsWritable ==
  ASSUME KnownWords, NEW r \in Register, NEW v \in {0, 1}
  PROVE  Writable(RegisterWords(r, v), r.part)
<1>1. DOMAIN RegisterWords(r, v) = Words(r)
      /\ \A w \in Words(r) : RegisterWords(r, v)[w] = Composed(r, v, w)
  BY DEF RegisterWords
<1>2. \A w \in Words(r) : Composed(r, v, w) \in Word
  BY ComposedFacts DEF KnownWords
<1> QED
  BY <1>1, <1>2, RegisterFacts DEF Writable

\* The items of a packet are items of whole words.
LEMMA PacketFacts ==
  ASSUME TypeOK, Packets
  PROVE  /\ next \in Nat /\ next < PacketEnd /\ PacketEnd \in Nat /\ PacketEnd <= Len(setup) + 1
         /\ \A i \in next .. PacketEnd - 1 : i \in DOMAIN setup /\ ~Partial(setup[i].reg)
         /\ Max(next .. PacketEnd - 1) = PacketEnd - 1
<1>1. /\ Len(setup) \in Nat /\ DOMAIN setup = 1 .. Len(setup)
      /\ next \in Nat /\ 1 <= next /\ next <= Len(setup) /\ ~Partial(setup[next].reg)
  BY ConfigFacts DEF Packets, TypeOK
<1>2. PICK S : S = {i \in next + 1 .. Len(setup) + 1 :
                      i = Len(setup) + 1 \/ Partial(setup[i].reg) \/ ~Joins(i)}
  OBVIOUS
<1>3. S \subseteq Nat /\ Len(setup) + 1 \in S
  BY <1>1, <1>2
<1>4. PICK end : end = PacketEnd
  OBVIOUS
<1>5. end \in S /\ \A y \in S : end <= y
  BY <1>2, <1>3, <1>4, LeastFacts DEF PacketEnd
<1>6. end \in Nat /\ next < end /\ end <= Len(setup) + 1
  BY <1>1, <1>2, <1>5
<1>7. ASSUME NEW i \in next .. end - 1 PROVE i \in DOMAIN setup /\ ~Partial(setup[i].reg)
  <2>1. i \in Nat /\ next <= i /\ i < end /\ i \in DOMAIN setup
    BY <1>1, <1>6
  <2>2. i \notin S
    BY <1>3, <1>5, <1>6, <2>1
  <2> QED
    BY <1>1, <1>2, <1>6, <2>1, <2>2
<1>8. Max(next .. end - 1) = end - 1
  <2>1. IsFiniteSet(next .. end - 1)
    BY <1>1, <1>6, FS_Interval
  <2>2. next .. end - 1 \subseteq Nat /\ end - 1 \in next .. end - 1
    BY <1>1, <1>6
  <2>3. Max(next .. end - 1) \in next .. end - 1 /\ end - 1 <= Max(next .. end - 1)
    BY <2>1, <2>2, GreatestFacts
  <2> QED
    BY <1>6, <2>3
<1> QED
  BY <1>1, <1>4, <1>6, <1>7, <1>8

\* A word of a packet is that of an item that has it.
LEMMA PacketWordsFacts ==
  ASSUME TypeOK, Packets
  PROVE  /\ \A w : w \in DOMAIN PacketWords <=>
                     \E i \in next .. PacketEnd - 1 : w \in Words(setup[i].reg)
         /\ \A w \in DOMAIN PacketWords :
              \E i \in next .. PacketEnd - 1 :
                /\ w \in Words(setup[i].reg)
                /\ PacketWords[w] = Composed(setup[i].reg, setup[i].value, w)
<1>1. DOMAIN PacketWords = UNION {Words(setup[i].reg) : i \in next .. PacketEnd - 1}
  BY DEF PacketWords
<1>2. \A w : w \in DOMAIN PacketWords <=>
               \E i \in next .. PacketEnd - 1 : w \in Words(setup[i].reg)
  BY <1>1
<1>3. ASSUME NEW w \in DOMAIN PacketWords
      PROVE  \E i \in next .. PacketEnd - 1 :
                /\ w \in Words(setup[i].reg)
                /\ PacketWords[w] = Composed(setup[i].reg, setup[i].value, w)
  <2>1. PICK i : i = CHOOSE j \in next .. PacketEnd - 1 : w \in Words(setup[j].reg)
    OBVIOUS
  <2>2. i \in next .. PacketEnd - 1 /\ w \in Words(setup[i].reg)
    BY <1>2, <2>1
  <2>3. PacketWords[w] = Composed(setup[i].reg, setup[i].value, w)
    BY <1>1, <2>1 DEF PacketWords
  <2> QED
    BY <2>2, <2>3
<1> QED
  BY <1>2, <1>3

LEMMA PacketIsWritable ==
  ASSUME TypeOK, Packets
  PROVE  Writable(PacketWords, "all")
<1>1. \A i \in next .. PacketEnd - 1 :
        setup[i].reg \in Register /\ setup[i].value \in {0, 1}
  BY PacketFacts, ConfigFacts
<1>2. DOMAIN PacketWords \subseteq Nat
  BY <1>1, PacketWordsFacts, RegisterFacts
<1>3. \A w \in DOMAIN PacketWords : PacketWords[w] \in Word
  BY <1>1, PacketWordsFacts, ComposedFacts, KnownWordsType DEF KnownWords
<1> QED
  BY <1>2, <1>3 DEF Writable

\* Words that the device answers for have addresses.
LEMMA AnsweredWords ==
  ASSUME TypeOK, NEW words, "ok" \in Outcomes(words, IF continuous THEN Addresses ELSE supported)
  PROVE  words \subseteq Addresses
BY ConfigFacts DEF Outcomes

LEMMA MemoryStep ==
  ASSUME TypeOK, Next
  PROVE  /\ config' = config
         /\ UNCHANGED <<mem, cache, unseen, damaged>> \/ WritesWords \/ LearnsWords \/ DeviceActs
<1>1. CASE PrepareImpl \/ PrepareConnected \/ FillEnds \/ SkipPacket \/ SetupEnds
           \/ EndSession \/ DeviceRestarts
  BY <1>1 DEF PrepareImpl, PrepareConnected, FillEnds, SkipPacket, SetupEnds, EndSession,
              DeviceRestarts
<1>2. CASE FillSetupRegistersCache
  <2>1. PICK outcome \in Outcomes(Covered(FillList, FillRange),
                                  IF continuous THEN Addresses ELSE supported) :
          \/ outcome = "ok" /\ Learn(WordsOf(FillList, FillRange), 0)
          \/ UNCHANGED <<cache, unseen>>
    BY <1>2 DEF FillSetupRegistersCache
  <2>2. UNCHANGED <<config, mem, damaged>> /\ Uncached # {}
    BY <1>2 DEF FillSetupRegistersCache
  <2>3. CASE outcome = "ok" /\ Learn(WordsOf(FillList, FillRange), 0)
    <3>1. Covered(FillList, FillRange) \subseteq Addresses
      BY <2>1, <2>3, AnsweredWords
    <3>2. WordsOf(FillList, FillRange) \subseteq Addresses
          /\ WordsOf(FillList, FillRange) \subseteq Nat
      BY <2>2, <3>1, FillFacts
    <3>3. \A w \in WordsOf(FillList, FillRange) : w + 0 \in Addresses
      BY <3>2
    <3> QED
      BY <2>2, <2>3, <3>2, <3>3 DEF LearnsWords
  <2> QED
    BY <2>1, <2>2, <2>3
<1>3. CASE WriteMultipleSetupRegisters
  <2>1. PICK outcome : Write(PacketWords, "all", TRUE, outcome)
    BY <1>3 DEF WriteMultipleSetupRegisters
  <2>2. Packets /\ config' = config
    BY <1>3 DEF WriteMultipleSetupRegisters
  <2> QED
    BY <2>1, <2>2, PacketIsWritable DEF WritesWords
<1>4. CASE WriteSetupRegister
  <2>1. PICK outcome :
          Write(RegisterWords(setup[next].reg, setup[next].value), setup[next].reg.part,
                Noted(setup[next].reg), outcome)
    BY <1>4 DEF WriteSetupRegister
  <2>2. config' = config
    BY <1>4 DEF WriteSetupRegister
  <2>3. setup[next].reg \in Register /\ setup[next].value \in {0, 1}
    <3>1. next \in DOMAIN setup
      BY <1>4, ConfigFacts DEF WriteSetupRegister, TypeOK
    <3> QED
      BY <3>1, ConfigFacts
  <2>4. Writable(RegisterWords(setup[next].reg, setup[next].value), setup[next].reg.part)
    BY <2>3, KnownWordsType, RegisterIsWritable
  <2> QED
    BY <2>1, <2>2, <2>4 DEF WritesWords
<1>5. ASSUME NEW r \in config.written, NEW v \in {0, 1}, WriteChannel(r, v)
      PROVE  config' = config /\ WritesWords
  <2>1. PICK outcome : Write(RegisterWords(r, v), r.part, Noted(r), outcome)
    BY <1>5 DEF WriteChannel
  <2>2. config' = config
    BY <1>5 DEF WriteChannel
  <2>3. Writable(RegisterWords(r, v), r.part)
    BY ConfigFacts, KnownWordsType, RegisterIsWritable
  <2> QED
    BY <2>1, <2>2, <2>3 DEF WritesWords
<1>6. ASSUME NEW queue \in Queues, NEW range \in Ranges(queue, avail),
             ReadRegisterRange(queue, range)
      PROVE  config' = config /\ (LearnsWords \/ UNCHANGED <<mem, cache, unseen, damaged>>)
  <2>2. PICK outcome \in Outcomes(Shifted(Covered(queue, range)),
                                  IF continuous THEN Addresses ELSE supported) :
          \/ outcome = "ok" /\ Learn(WordsOf(queue, range), shift)
          \/ UNCHANGED <<cache, unseen>>
    BY <1>6 DEF ReadRegisterRange
  <2>3. UNCHANGED <<config, mem, damaged>>
    BY <1>6 DEF ReadRegisterRange
  <2>4. CASE outcome = "ok" /\ Learn(WordsOf(queue, range), shift)
    <3>1. Shifted(Covered(queue, range)) \subseteq Addresses
      BY <2>2, <2>4, AnsweredWords
    <3>2. WordsOf(queue, range) \subseteq Covered(queue, range) /\ Covered(queue, range) \subseteq Nat
      BY ReadFacts
    <3>3. \A w \in WordsOf(queue, range) : w + shift \in Addresses
      BY <3>1, <3>2 DEF Shifted
    <3> QED
      BY <2>3, <2>4, <3>2, <3>3 DEF LearnsWords
  <2> QED
    BY <2>2, <2>3, <2>4
<1>7. ASSUME NEW a \in config.changing, NEW part \in {"lo", "hi"}, DeviceChanges(a, part)
      PROVE  config' = config /\ DeviceActs
  BY <1>7, ConfigFacts DEF DeviceActs, DeviceChanges
<1> QED
  BY <1>1, <1>2, <1>3, <1>4, <1>5, <1>6, <1>7 DEF Next, Preparation, Session

LEMMA WriteFacts ==
  ASSUME NEW words, NEW part, NEW kept, NEW outcome, Write(words, part, kept, outcome)
  PROVE  /\ outcome \in {"ok", "refused", "lost", "unanswered"}
         /\ Reached(outcome) => Shifted(DOMAIN words) \subseteq supported
         /\ mem' = [a \in Addresses |->
                      IF a - shift \in DOMAIN words /\ Reached(outcome)
                      THEN words[a - shift] ELSE mem[a]]
         /\ \/ /\ kept /\ outcome = "ok"
               /\ cache' = With(words) /\ unseen' = unseen \ DOMAIN words
            \/ /\ ~(kept /\ outcome = "ok")
               /\ cache' = cache
               /\ unseen' = unseen \union (IF Reached(outcome) THEN DOMAIN words ELSE {})
BY DEF Write, Outcomes, Reached, Stored, Keep

\* The types of the memory.
MemoryType ==
  /\ mem \in [Addresses -> Word]
  /\ DOMAIN cache \subseteq Nat /\ KnownWords
  /\ unseen \subseteq Nat

LEMMA MemoryTypeStep ==
  ASSUME TypeOK, [Next]_vars
  PROVE  MemoryType'
<1>1. MemoryType
  BY KnownWordsType DEF MemoryType, TypeOK
<1>2. CASE UNCHANGED <<mem, cache, unseen, damaged>>
  BY <1>1, <1>2 DEF MemoryType, KnownWords
<1>3. CASE WritesWords
  <2>1. PICK words, part, kept, outcome :
          Writable(words, part) /\ Write(words, part, kept, outcome)
    BY <1>3 DEF WritesWords
  <2>2. DOMAIN words \subseteq Nat /\ \A w \in DOMAIN words : words[w] \in Word
    BY <2>1 DEF Writable
  <2>3. mem' \in [Addresses -> Word]
    BY <1>1, <2>1, <2>2, WriteFacts DEF MemoryType
  <2>4. cache' = With(words) \/ cache' = cache
    BY <2>1, WriteFacts
  <2>5. DOMAIN cache' \subseteq Nat /\ \A w \in DOMAIN cache' : cache'[w] \in Word
    BY <1>1, <2>2, <2>4 DEF With, MemoryType, KnownWords
  <2>6. unseen' \subseteq Nat
    <3>1. unseen' \subseteq unseen \union DOMAIN words
      BY <2>1, WriteFacts
    <3> QED
      BY <1>1, <2>2, <3>1 DEF MemoryType
  <2> QED
    BY <2>3, <2>5, <2>6 DEF MemoryType, KnownWords
<1>4. CASE LearnsWords
  <2>1. PICK words, s : /\ words \subseteq Nat /\ \A w \in words : w + s \in Addresses
                        /\ Learn(words, s)
    BY <1>4 DEF LearnsWords
  <2>2. mem' = mem
    BY <1>4 DEF LearnsWords
  <2>3. PICK read : read = [w \in words |-> mem[w + s]]
    OBVIOUS
  <2>4. cache' = With(read) /\ unseen' \subseteq unseen \union words
    BY <2>1, <2>3 DEF Learn
  <2>5. DOMAIN read \subseteq Nat /\ \A w \in DOMAIN read : read[w] \in Word
    BY <1>1, <2>1, <2>3 DEF MemoryType
  <2>6. DOMAIN cache' \subseteq Nat /\ \A w \in DOMAIN cache' : cache'[w] \in Word
    BY <1>1, <2>4, <2>5 DEF With, MemoryType, KnownWords
  <2> QED
    BY <1>1, <2>1, <2>2, <2>4, <2>6 DEF MemoryType, KnownWords
<1>5. CASE DeviceActs
  <2>1. PICK a \in Addresses, part \in {"lo", "hi"} : DeviceChanges(a, part)
    BY <1>5 DEF DeviceActs
  <2>2. PICK old : old = mem[a]
    OBVIOUS
  <2>3. PICK word : word = [old EXCEPT ![part] = 1 - old[part]]
    OBVIOUS
  <2>4. mem' = [mem EXCEPT ![a] = word]
    BY <2>1, <2>2, <2>3 DEF DeviceChanges
  <2>5. mem' \in [Addresses -> Word]
    <3>1. old \in Word
      BY <1>1, <2>1, <2>2 DEF MemoryType
    <3>2. word \in Word
      BY <2>1, <2>3, <3>1 DEF Word
    <3> QED
      BY <1>1, <2>4, <3>2 DEF MemoryType
  <2>6. cache' = cache /\ unseen' \subseteq unseen \union DOMAIN cache
    BY <2>1 DEF DeviceChanges
  <2> QED
    BY <1>1, <2>5, <2>6 DEF MemoryType, KnownWords
<1>6. CASE UNCHANGED vars
  BY <1>1, <1>6 DEF vars, MemoryType, KnownWords
<1> QED
  BY <1>2, <1>3, <1>4, <1>5, <1>6, MemoryStep

-----------------------------------------------------------------------------
(* Type correctness *)

Availability == {"UNKNOWN", "AVAILABLE", "UNAVAILABLE"}

\* The types of the driver and of the history.
DriverType ==
  /\ {continuous, believed, holes, forgot} \subseteq BOOLEAN
  /\ conn \in {"UNKNOWN", "CONNECTED", "DISCONNECTED"}
  /\ pc \in {"idle", "fill", "write", "ready"}
  /\ next \in 1 .. Len(setup) + 1
  /\ avail \in [Polled -> Availability]
  /\ refused \union skipped \subseteq DOMAIN setup
  /\ blamed \subseteq Polled

LEMMA TypeParts ==
  TypeOK <=> config \in Configs /\ MemoryType /\ DriverType
BY DEF TypeOK, MemoryType, DriverType, KnownWords, Range, Availability

LEMMA FailsType ==
  ASSUME DriverType, NEW sh \in BOOLEAN, NEW av \in [Polled -> Availability],
         NEW bl \in SUBSET Polled, FailsWith(sh, av, bl)
  PROVE  /\ holes' \in BOOLEAN
         /\ conn' \in {"UNKNOWN", "CONNECTED", "DISCONNECTED"}
         /\ avail' \in [Polled -> Availability]
         /\ blamed' \subseteq Polled
BY DEF FailsWith, DriverType, Availability

\* The driver's variables after items that start with the next one.
LEMMA AfterItemsType ==
  ASSUME TypeOK, NEW items, items \subseteq DOMAIN setup, Max(items) \in DOMAIN setup,
         NEW outcome, AfterItems(items, outcome),
         UNCHANGED <<config, continuous, believed, skipped, forgot>>, pc = "write"
  PROVE  DriverType'
<1>1. DriverType /\ Len(setup) \in Nat /\ DOMAIN setup = 1 .. Len(setup)
  BY TypeParts, ConfigFacts
<1>2. CASE outcome \in {"ok", "refused"}
  <2>1. next' = Max(items) + 1 /\ refused' \subseteq refused \union items
        /\ UNCHANGED <<conn, pc, holes, avail, blamed>>
    BY <1>2 DEF AfterItems
  <2>2. next' \in 1 .. Len(setup) + 1
    BY <1>1, <2>1
  <2> QED
    BY <1>1, <2>1, <2>2 DEF DriverType, setup, Polled
<1>3. CASE outcome \notin {"ok", "refused"}
  <2>1. FailsWith(holes, avail, blamed) /\ pc' = "idle" /\ next' = 1 /\ refused' = refused
    BY <1>3 DEF AfterItems, PrepareFails, Fails
  <2>2. /\ holes \in BOOLEAN /\ avail \in [Polled -> Availability] /\ blamed \subseteq Polled
    BY <1>1 DEF DriverType
  <2>3. /\ holes' \in BOOLEAN
        /\ conn' \in {"UNKNOWN", "CONNECTED", "DISCONNECTED"}
        /\ avail' \in [Polled -> Availability]
        /\ blamed' \subseteq Polled
    BY <1>1, <2>1, <2>2, FailsType
  <2>4. next' \in 1 .. Len(setup) + 1
    BY <1>1, <2>1
  <2> QED
    BY <1>1, <2>1, <2>3, <2>4 DEF DriverType, setup, Polled
<1> QED
  BY <1>2, <1>3

LEMMA DriverTypeStep ==
  ASSUME TypeOK, [Next]_vars
  PROVE  DriverType'
<1>1. DriverType /\ Len(setup) \in Nat /\ DOMAIN setup = 1 .. Len(setup)
  BY TypeParts, ConfigFacts
<1>2. /\ continuous \in BOOLEAN /\ believed \in BOOLEAN /\ holes \in BOOLEAN
      /\ forgot \in BOOLEAN /\ avail \in [Polled -> Availability] /\ blamed \subseteq Polled
      /\ config.hears \in BOOLEAN /\ 1 \in 1 .. Len(setup) + 1
  BY <1>1, ConfigFacts DEF DriverType
<1>3. CASE PrepareImpl
  <2>1. /\ UNCHANGED config /\ next' = 1 /\ refused' = {} /\ skipped' = {}
        /\ pc' \in {"fill", "idle"}
    BY <1>3 DEF PrepareImpl, PrepareFails
  <2>2. /\ continuous' \in {continuous, continuous \/ config.hears}
        /\ believed' \in {believed, config.hears /\ shift = 0}
        /\ forgot' \in {forgot, FALSE}
    BY <1>3 DEF PrepareImpl
  <2>3. continuous' \in BOOLEAN /\ believed' \in BOOLEAN /\ forgot' \in BOOLEAN
    BY <1>2, <2>2
  <2>4. UNCHANGED <<conn, holes, avail, blamed>> \/ FailsWith(holes, avail, blamed)
    BY <1>3 DEF PrepareImpl, PrepareFails, Fails
  <2>5. /\ holes' \in BOOLEAN
        /\ conn' \in {"UNKNOWN", "CONNECTED", "DISCONNECTED"}
        /\ avail' \in [Polled -> Availability]
        /\ blamed' \subseteq Polled
    <3>1. CASE UNCHANGED <<conn, holes, avail, blamed>>
      BY <1>1, <3>1 DEF DriverType
    <3>2. CASE FailsWith(holes, avail, blamed)
      BY <1>1, <1>2, <3>2, FailsType
    <3> QED
      BY <2>4, <3>1, <3>2
  <2> QED
    BY <1>2, <2>1, <2>3, <2>5 DEF DriverType, setup, Polled
<1>4. CASE PrepareConnected \/ FillEnds \/ SetupEnds \/ EndSession \/ DeviceRestarts
           \/ UNCHANGED vars
  <2>1. UNCHANGED <<config, believed, holes, avail, refused, skipped, blamed>>
    BY <1>4 DEF PrepareConnected, FillEnds, SetupEnds, EndSession, DeviceRestarts, vars, stateVars
  <2>2. /\ pc' \in {pc, "ready", "write", "idle"} /\ next' \in {next, 1}
        /\ conn' \in {conn, "CONNECTED"}
        /\ continuous' \in {continuous, FALSE} /\ forgot' \in {forgot, TRUE}
    BY <1>4 DEF PrepareConnected, FillEnds, SetupEnds, EndSession, DeviceRestarts, vars, stateVars
  <2>3. continuous' \in BOOLEAN /\ forgot' \in BOOLEAN
    BY <1>2, <2>2
  <2>4. next' \in 1 .. Len(setup) + 1
    BY <1>1, <1>2, <2>2 DEF DriverType
  <2> QED
    BY <1>1, <2>1, <2>2, <2>3, <2>4 DEF DriverType, setup, Polled
<1>5. CASE FillSetupRegistersCache
  <2>1. UNCHANGED <<config, continuous, believed, refused, skipped, forgot>> /\ Uncached # {}
        /\ pc = "fill"
    BY <1>5 DEF FillSetupRegistersCache
  <2>2. \/ /\ conn' = "CONNECTED" /\ next' = Max(FillRange) + 1
           /\ UNCHANGED <<pc, holes, avail, blamed>>
        \/ PrepareFails(holes /\ ~HasHoles(FillList, FillRange, FillAvail))
        \/ PrepareFails(holes)
    BY <1>5 DEF FillSetupRegistersCache
  <2>3. CASE conn' = "CONNECTED" /\ next' = Max(FillRange) + 1
             /\ UNCHANGED <<pc, holes, avail, blamed>>
    <3>1. Max(FillRange) \in 1 .. Len(setup)
      BY <1>1, <2>1, FillFacts DEF Uncached, DriverType
    <3>2. next' \in 1 .. Len(setup) + 1
      BY <1>1, <2>3, <3>1
    <3> QED
      BY <1>1, <2>1, <2>3, <3>2 DEF DriverType, setup, Polled
  <2>4. ASSUME NEW sh \in BOOLEAN, PrepareFails(sh) PROVE DriverType'
    <3>1. FailsWith(sh, avail, blamed) /\ pc' = "idle" /\ next' = 1
      BY <2>4 DEF PrepareFails, Fails
    <3>2. /\ holes' \in BOOLEAN
          /\ conn' \in {"UNKNOWN", "CONNECTED", "DISCONNECTED"}
          /\ avail' \in [Polled -> Availability]
          /\ blamed' \subseteq Polled
      BY <1>1, <1>2, <3>1, FailsType
    <3> QED
      BY <1>1, <1>2, <2>1, <3>1, <3>2 DEF DriverType, setup, Polled
  <2>5. (holes /\ ~HasHoles(FillList, FillRange, FillAvail)) \in BOOLEAN
    OBVIOUS
  <2> QED
    BY <1>2, <2>2, <2>3, <2>4, <2>5
<1>6. CASE SkipPacket
  <2>1. /\ UNCHANGED <<config, continuous, conn, pc, believed, holes, avail, refused, forgot, blamed>>
        /\ next' = PacketEnd /\ skipped' = skipped \union (next .. PacketEnd - 1) /\ Packets
    BY <1>6 DEF SkipPacket
  <2>2. /\ next' \in 1 .. Len(setup) + 1
        /\ next .. PacketEnd - 1 \subseteq DOMAIN setup
    <3>1. next \in 1 .. Len(setup) + 1
      BY <1>1 DEF DriverType
    <3> QED
      BY <1>1, <2>1, <3>1, PacketFacts
  <2> QED
    BY <1>1, <2>1, <2>2 DEF DriverType, setup, Polled
<1>7. CASE WriteMultipleSetupRegisters
  <2>1. PICK outcome : AfterItems(next .. PacketEnd - 1, outcome)
    BY <1>7 DEF WriteMultipleSetupRegisters
  <2>2. Packets /\ pc = "write" /\ UNCHANGED <<config, continuous, believed, skipped, forgot>>
    BY <1>7 DEF WriteMultipleSetupRegisters
  <2>3. next .. PacketEnd - 1 \subseteq DOMAIN setup /\ PacketEnd - 1 \in next .. PacketEnd - 1
    BY <2>2, PacketFacts
  <2> QED
    BY <2>1, <2>2, <2>3, PacketFacts, AfterItemsType
<1>8. CASE WriteSetupRegister
  <2>1. PICK outcome : AfterItems({next}, outcome)
    BY <1>8 DEF WriteSetupRegister
  <2>2. pc = "write" /\ UNCHANGED <<config, continuous, believed, skipped, forgot>>
        /\ next <= Len(setup)
    BY <1>8 DEF WriteSetupRegister
  <2>3. next \in DOMAIN setup /\ next \in Nat
    BY <1>1, <2>2 DEF DriverType
  <2>4. Max({next}) = next
    BY <2>3, GreatestOfOne
  <2> QED
    BY <2>1, <2>2, <2>3, <2>4, AfterItemsType
<1>9. ASSUME NEW r \in config.written, NEW v \in {0, 1}, WriteChannel(r, v)
      PROVE  DriverType'
  <2>1. UNCHANGED <<config, continuous, next, believed, refused, skipped, forgot>>
        /\ pc = "ready"
    BY <1>9 DEF WriteChannel
  <2>2. \/ conn' = "CONNECTED" /\ UNCHANGED <<pc, holes, avail, blamed>>
        \/ FailsWith(holes, avail, blamed) /\ pc' \in {"idle", "ready"}
    BY <1>9 DEF WriteChannel, Fails
  <2>3. CASE conn' = "CONNECTED" /\ UNCHANGED <<pc, holes, avail, blamed>>
    BY <1>1, <2>1, <2>3 DEF DriverType, setup, Polled
  <2>4. CASE FailsWith(holes, avail, blamed) /\ pc' \in {"idle", "ready"}
    <3>1. /\ holes' \in BOOLEAN
          /\ conn' \in {"UNKNOWN", "CONNECTED", "DISCONNECTED"}
          /\ avail' \in [Polled -> Availability]
          /\ blamed' \subseteq Polled
      BY <1>1, <1>2, <2>4, FailsType
    <3> QED
      BY <1>1, <2>1, <2>4, <3>1 DEF DriverType, setup, Polled
  <2> QED
    BY <2>2, <2>3, <2>4
<1>10. ASSUME NEW queue \in Queues, NEW range \in Ranges(queue, avail),
              ReadRegisterRange(queue, range)
       PROVE  DriverType'
  <2>1. UNCHANGED <<config, continuous, next, believed, refused, skipped, forgot>>
        /\ pc = "ready"
    BY <1>10 DEF ReadRegisterRange
  <2>2. PICK read : read = {queue[n] : n \in range}
    OBVIOUS
  <2>3. read \subseteq Polled
    BY <2>2, QueueFacts, ReadFacts
  <2>4. PICK bl : bl = blamed \union (IF forgot THEN read ELSE {})
    OBVIOUS
  <2>5. PICK outcome :
          \/ /\ conn' = "CONNECTED" /\ avail' = Marked(read, "AVAILABLE")
             /\ UNCHANGED <<pc, holes, blamed>>
          \/ /\ pc' \in {"idle", "ready"}
             /\ \/ FailsWith(holes, Marked(read, "UNAVAILABLE"), bl)
                \/ FailsWith(holes /\ outcome # "refused", avail, blamed)
    BY <1>10, <2>2, <2>4 DEF ReadRegisterRange, Fails
  <2>6. \A a \in Availability : Marked(read, a) \in [Polled -> Availability]
    BY <1>2 DEF Marked
  <2>7. CASE /\ conn' = "CONNECTED" /\ avail' = Marked(read, "AVAILABLE")
             /\ UNCHANGED <<pc, holes, blamed>>
    <3>1. avail' \in [Polled -> Availability]
      BY <2>6, <2>7 DEF Availability
    <3> QED
      BY <1>1, <2>1, <2>7, <3>1 DEF DriverType, setup, Polled
  <2>8. ASSUME pc' \in {"idle", "ready"}, NEW sh \in BOOLEAN, NEW av \in [Polled -> Availability],
               NEW b \in SUBSET Polled, FailsWith(sh, av, b)
        PROVE  DriverType'
    <3>1. /\ holes' \in BOOLEAN
          /\ conn' \in {"UNKNOWN", "CONNECTED", "DISCONNECTED"}
          /\ avail' \in [Polled -> Availability]
          /\ blamed' \subseteq Polled
      BY <1>1, <2>8, FailsType
    <3> QED
      BY <1>1, <2>1, <2>8, <3>1 DEF DriverType, setup, Polled
  <2>9. bl \subseteq Polled /\ (holes /\ outcome # "refused") \in BOOLEAN
        /\ Marked(read, "UNAVAILABLE") \in [Polled -> Availability]
    BY <1>2, <2>3, <2>4, <2>6 DEF Availability
  <2> QED
    BY <1>2, <2>5, <2>7, <2>8, <2>9
<1>11. ASSUME NEW a \in config.changing, NEW part \in {"lo", "hi"}, DeviceChanges(a, part)
       PROVE  DriverType'
  BY <1>1, <1>11 DEF DeviceChanges, stateVars, DriverType, setup, Polled
<1> QED
  BY <1>3, <1>4, <1>5, <1>6, <1>7, <1>8, <1>9, <1>10, <1>11 DEF Next, Preparation, Session

\* THEOREM: the variables have their types; the next setup item is one of the section or the
\* one behind its end, and the refused and skipped ones are items of it.
THEOREM TypeCorrect == Spec => []TypeOK
<1>1. Init => TypeOK
  <2> SUFFICES ASSUME Init PROVE TypeOK
    OBVIOUS
  <2>1. config.setup \in Seq(Item)
    <3>1. config \in Config
      BY ModbusAssumption DEF Init
    <3> QED
      BY <3>1 DEF Config
  <2>2. Len(setup) \in Nat
    BY <2>1 DEF setup
  <2>3. config \in Configs /\ MemoryType
    BY DEF Init, MemoryType, Word, Zero, KnownWords
  <2>4. DriverType
    <3>1. continuous \in BOOLEAN /\ believed \in BOOLEAN /\ holes \in BOOLEAN /\ forgot \in BOOLEAN
      BY DEF Init
    <3>2. /\ conn = "UNKNOWN" /\ pc = "idle" /\ next = 1
          /\ avail = [r \in Polled |-> "UNKNOWN"]
          /\ refused = {} /\ skipped = {} /\ blamed = {}
      BY DEF Init
    <3>3. next \in 1 .. Len(setup) + 1
      BY <2>2, <3>2
    <3>4. avail \in [Polled -> Availability]
      BY <3>2 DEF Availability
    <3> QED
      BY <3>1, <3>2, <3>3, <3>4 DEF DriverType
  <2> QED
    BY <2>3, <2>4, TypeParts
<1>2. TypeOK /\ [Next]_vars => TypeOK'
  <2> SUFFICES ASSUME TypeOK, [Next]_vars PROVE TypeOK'
    OBVIOUS
  <2>1. MemoryType' /\ DriverType'
    BY MemoryTypeStep, DriverTypeStep
  <2>2. config' \in Configs
    BY MemoryStep DEF TypeOK, vars
  <2> QED
    BY <2>1, <2>2 DEF TypeOK, MemoryType, DriverType, KnownWords, Range, Availability
<1> QED
  BY <1>1, <1>2, PTL DEF Spec

-----------------------------------------------------------------------------
(* The cache and the words of the device *)

\* Words that are cached are those of the device, if nothing happened to them that the cache
\* was not told of.
CacheInv ==
  \A w \in DOMAIN cache \ unseen : w + shift \in Addresses /\ cache[w] = mem[w + shift]

\* The address of a word that is written, and what is there afterwards.
LEMMA WrittenAt ==
  ASSUME TypeOK, NEW words, NEW part, NEW kept, NEW outcome, Writable(words, part),
         Write(words, part, kept, outcome), NEW w \in Nat, w + shift \in Addresses
  PROVE  mem'[w + shift] =
           IF w \in DOMAIN words /\ Reached(outcome) THEN words[w] ELSE mem[w + shift]
<1>1. shift \in Nat
  BY ConfigFacts
<1>2. PICK a : a = w + shift
  OBVIOUS
<1>3. a - shift = w /\ a \in Addresses
  BY <1>1, <1>2
<1>4. mem'[a] = IF a - shift \in DOMAIN words /\ Reached(outcome) THEN words[a - shift] ELSE mem[a]
  BY <1>3, WriteFacts
<1> QED
  BY <1>2, <1>3, <1>4

LEMMA CacheStep ==
  ASSUME TypeOK, CacheInv, [Next]_vars
  PROVE  CacheInv'
<1>1. config' = config /\ DOMAIN cache \subseteq Nat /\ shift \in Nat
  BY MemoryStep, ConfigFacts DEF TypeOK, vars
<1> SUFFICES ASSUME NEW w \in DOMAIN cache' \ unseen'
             PROVE  w + shift \in Addresses /\ cache'[w] = mem'[w + shift]
  BY <1>1 DEF CacheInv, shift
<1>2. CASE UNCHANGED <<mem, cache, unseen, damaged>>
  BY <1>2 DEF CacheInv
<1>3. CASE WritesWords
  <2>1. PICK words, part, kept, outcome :
          Writable(words, part) /\ Write(words, part, kept, outcome)
    BY <1>3 DEF WritesWords
  <2>2. DOMAIN words \subseteq Nat
    BY <2>1 DEF Writable
  <2>3. CASE /\ kept /\ outcome = "ok"
             /\ cache' = With(words) /\ unseen' = unseen \ DOMAIN words
    <3>1. CASE w \in DOMAIN words
      <4>1. w + shift \in Addresses
        <5>1. Reached(outcome)
          BY <2>3 DEF Reached
        <5>2. Shifted(DOMAIN words) \subseteq supported
          BY <2>1, <5>1, WriteFacts
        <5> QED
          BY <3>1, <5>2, ConfigFacts DEF Shifted
      <4>2. mem'[w + shift] = words[w]
        BY <2>1, <2>2, <2>3, <3>1, <4>1, WrittenAt DEF Reached
      <4>3. cache'[w] = words[w]
        BY <2>3, <3>1 DEF With
      <4> QED
        BY <4>1, <4>2, <4>3
    <3>2. CASE w \notin DOMAIN words
      <4>1. w \in DOMAIN cache \ unseen /\ cache'[w] = cache[w]
        BY <2>3, <3>2 DEF With
      <4>2. w + shift \in Addresses /\ cache[w] = mem[w + shift]
        BY <4>1 DEF CacheInv
      <4>3. mem'[w + shift] = mem[w + shift]
        BY <1>1, <2>1, <3>2, <4>1, <4>2, WrittenAt
      <4> QED
        BY <4>1, <4>2, <4>3
    <3> QED
      BY <3>1, <3>2
  <2>4. CASE /\ cache' = cache
             /\ unseen' = unseen \union (IF Reached(outcome) THEN DOMAIN words ELSE {})
    <3>1. w \in DOMAIN cache \ unseen /\ ~(w \in DOMAIN words /\ Reached(outcome))
      BY <2>4
    <3>2. w + shift \in Addresses /\ cache[w] = mem[w + shift]
      BY <3>1 DEF CacheInv
    <3>3. mem'[w + shift] = mem[w + shift]
      BY <1>1, <2>1, <3>1, <3>2, WrittenAt
    <3> QED
      BY <2>4, <3>2, <3>3
  <2> QED
    BY <2>1, <2>3, <2>4, WriteFacts
<1>4. CASE LearnsWords
  <2>1. mem' = mem
    BY <1>4 DEF LearnsWords
  <2>2. PICK words, s : /\ words \subseteq Nat /\ s \in {0, shift}
                        /\ \A x \in words : x + s \in Addresses
                        /\ Learn(words, s)
    BY <1>4 DEF LearnsWords
  <2>3. PICK read : read = [x \in words |-> mem[x + s]]
    OBVIOUS
  <2>4. cache' = With(read)
    BY <2>2, <2>3 DEF Learn
  <2>5. unseen' = (unseen \ words) \union (IF s = shift THEN {} ELSE words)
    BY <2>2 DEF Learn
  <2>6. CASE w \in words
    BY <2>1, <2>2, <2>3, <2>4, <2>5, <2>6 DEF With
  <2>7. CASE w \notin words
    <3>1. w \in DOMAIN cache \ unseen /\ cache'[w] = cache[w]
      BY <2>3, <2>4, <2>5, <2>7 DEF With
    <3> QED
      BY <2>1, <3>1 DEF CacheInv
  <2> QED
    BY <2>6, <2>7
<1>5. CASE DeviceActs
  <2>1. PICK a \in Addresses, part \in {"lo", "hi"} : DeviceChanges(a, part)
    BY <1>5 DEF DeviceActs
  <2>2. cache' = cache /\ unseen' = unseen \union ({a - shift} \intersect DOMAIN cache)
    BY <2>1 DEF DeviceChanges
  <2>3. w \in DOMAIN cache \ unseen /\ w # a - shift
    BY <2>2
  <2>4. w + shift \in Addresses /\ cache[w] = mem[w + shift]
    BY <2>3 DEF CacheInv
  <2>5. w + shift # a
    <3>1. a \in Nat /\ w \in Nat
      BY <1>1, <2>3, ConfigFacts
    <3> QED
      BY <1>1, <2>3, <3>1
  <2>6. mem'[w + shift] = mem[w + shift]
    BY <2>1, <2>4, <2>5 DEF DeviceChanges, TypeOK
  <2> QED
    BY <2>2, <2>4, <2>6
<1>6. CASE UNCHANGED vars
  BY <1>6 DEF vars, CacheInv
<1> QED
  BY <1>2, <1>3, <1>4, <1>5, <1>6, MemoryStep

\* A write of some bits finds the other ones in the cache as they are in the device.
LEMMA NeighboursStep ==
  ASSUME TypeOK, CacheInv, NeighboursKept, [Next]_vars
  PROVE  NeighboursKept'
<1>1. CASE UNCHANGED damaged
  BY <1>1 DEF NeighboursKept
<1>2. CASE WritesWords
  <2>1. PICK words, part, kept, outcome :
          Writable(words, part) /\ Write(words, part, kept, outcome)
    BY <1>2 DEF WritesWords
  <2>2. ASSUME NEW d \in ((DOMAIN words \intersect DOMAIN cache) \ unseen) \X {"lo", "hi"},
               part \notin {d[2], "all"}
        PROVE  mem'[d[1] + shift][d[2]] = mem[d[1] + shift][d[2]]
    <3>1. PICK w : w = d[1]
      OBVIOUS
    <3>2. w \in DOMAIN words /\ w \in DOMAIN cache \ unseen /\ d[2] \in {"lo", "hi"}
      BY <2>2, <3>1
    <3>3. w \in Nat
      BY <3>2 DEF TypeOK
    <3>4. w + shift \in Addresses /\ cache[w] = mem[w + shift]
      BY <3>2 DEF CacheInv
    <3>5. mem'[w + shift] = words[w] \/ mem'[w + shift] = mem[w + shift]
      BY <2>1, <3>3, <3>4, WrittenAt
    <3>6. CASE mem'[w + shift] = words[w]
      <4>1. PICK r \in Register, v \in {0, 1} : words = RegisterWords(r, v) /\ part = r.part
        BY <2>1, <2>2 DEF Writable
      <4>2. words[w] = Composed(r, v, w)
        BY <3>2, <4>1 DEF RegisterWords
      <4>3. r.part \in {"lo", "hi"} /\ r.part # d[2]
        BY <2>2, <4>1, RegisterFacts
      <4>4. cache[w] \in Word
        BY <3>2, KnownWordsType DEF KnownWords
      <4>5. CASE d[2] = "lo"
        <5>1. r.part = "hi"
          BY <4>3, <4>5
        <5>2. Composed(r, v, w).lo = cache[w].lo
          BY <3>2, <4>4, <5>1, ComposedFacts
        <5> QED
          BY <3>1, <3>4, <3>6, <4>2, <4>5, <5>2
      <4>6. CASE d[2] = "hi"
        <5>1. r.part = "lo"
          BY <4>3, <4>6
        <5>2. Composed(r, v, w).hi = cache[w].hi
          BY <3>2, <4>4, <5>1, ComposedFacts
        <5> QED
          BY <3>1, <3>4, <3>6, <4>2, <4>6, <5>2
      <4> QED
        BY <3>2, <4>5, <4>6
    <3> QED
      BY <3>1, <3>5, <3>6
  <2>3. damaged' = damaged \union
          {d \in ((DOMAIN words \intersect DOMAIN cache) \ unseen) \X {"lo", "hi"} :
             part \notin {d[2], "all"} /\ mem'[d[1] + shift][d[2]] # mem[d[1] + shift][d[2]]}
    BY <2>1 DEF Write
  <2> QED
    BY <2>2, <2>3 DEF NeighboursKept
<1> QED
  BY <1>1, <1>2, MemoryStep DEF LearnsWords, DeviceActs, DeviceChanges, vars

\* THEOREM: a write of some bits of a word does not change its other bits, if the word is known
\* and nothing happened to it that the cache was not told of.
THEOREM NeighboursAreKept == Spec => []NeighboursKept
<1>1. Init => CacheInv /\ NeighboursKept
  BY DEF Init, CacheInv, NeighboursKept
<1>2. TypeOK /\ CacheInv /\ NeighboursKept /\ [Next]_vars => CacheInv' /\ NeighboursKept'
  BY CacheStep, NeighboursStep
<1> QED
  BY <1>1, <1>2, TypeCorrect, PTL DEF Spec

-----------------------------------------------------------------------------
(* The setup section *)

\* An item that was written.
Applied(i) ==
  \A w \in Words(setup[i].reg) :
    LET word == mem[w + shift] IN
    /\ setup[i].reg.part # "hi" => word.lo = setup[i].value
    /\ setup[i].reg.part # "lo" => word.hi = setup[i].value

\* The words of an item that was written exist, and those of a partial one are in the cache:
\* what another item writes to the other part of them is completed from there.
Settled(i) ==
  /\ \A w \in Words(setup[i].reg) : w + shift \in Addresses
  /\ Alone(i) => Applied(i)
  /\ Alone(i) /\ Partial(setup[i].reg) => Words(setup[i].reg) \subseteq DOMAIN cache \ unseen

SetupInv == pc = "write" => \A i \in (1 .. next - 1) \ (refused \union skipped) : Settled(i)

LEMMA SetupInvApplies ==
  SetupInv => SetupApplied
BY DEF SetupInv, Settled, Applied, SetupApplied

\* A write for other words, or for the other part of words that are cached, leaves what an item
\* has written.
LEMMA StaysSettled ==
  ASSUME TypeOK, CacheInv, config' = config, NEW i \in DOMAIN setup, Settled(i),
         NEW words, NEW part, NEW kept, NEW outcome,
         Writable(words, part), Write(words, part, kept, outcome),
         Alone(i) =>
           \A w \in Words(setup[i].reg) \intersect DOMAIN words :
             /\ Partial(setup[i].reg) /\ kept /\ outcome \in {"ok", "refused"}
             /\ \E r \in Register, v \in {0, 1} :
                  /\ words[w] = Composed(r, v, w)
                  /\ Partial(r) /\ r.part # setup[i].reg.part
  PROVE  Settled(i)'
<1>1. PICK reg : reg = setup[i].reg
  OBVIOUS
<1>2. reg \in Register /\ Words(reg) \subseteq Nat /\ reg.part \in {"all", "lo", "hi"}
  BY <1>1, ConfigFacts, RegisterFacts
<1>3. \A w \in Words(reg) : w + shift \in Addresses
  BY <1>1 DEF Settled
<1>4. ASSUME Alone(i), NEW w \in Words(reg)
      PROVE  /\ reg.part # "hi" => mem'[w + shift].lo = setup[i].value
             /\ reg.part # "lo" => mem'[w + shift].hi = setup[i].value
  <2>1. /\ reg.part # "hi" => mem[w + shift].lo = setup[i].value
        /\ reg.part # "lo" => mem[w + shift].hi = setup[i].value
    BY <1>1, <1>4 DEF Settled, Applied
  <2>2. mem'[w + shift] =
          IF w \in DOMAIN words /\ Reached(outcome) THEN words[w] ELSE mem[w + shift]
    BY <1>2, <1>3, WrittenAt
  <2>3. CASE w \notin DOMAIN words
    BY <2>1, <2>2, <2>3
  <2>4. CASE w \in DOMAIN words
    <3>1. Partial(reg)
      BY <1>1, <1>4, <2>4
    <3>2. PICK r \in Register, v \in {0, 1} :
            words[w] = Composed(r, v, w) /\ Partial(r) /\ r.part # reg.part
      BY <1>1, <1>4, <2>4
    <3>3. w \in DOMAIN cache \ unseen
      BY <1>1, <1>4, <3>1 DEF Settled
    <3>4. cache[w] = mem[w + shift] /\ cache[w] \in Word
      BY <3>3, KnownWordsType DEF CacheInv, KnownWords
    <3>5. r.part \in {"lo", "hi"} /\ reg.part \in {"lo", "hi"}
      BY <1>2, <3>1, <3>2, RegisterFacts DEF Partial
    <3>6. /\ r.part = "lo" => words[w].hi = mem[w + shift].hi
          /\ r.part = "hi" => words[w].lo = mem[w + shift].lo
      BY <3>2, <3>3, <3>4, ComposedFacts
    <3> QED
      BY <2>1, <2>2, <3>2, <3>5, <3>6
  <2> QED
    BY <2>3, <2>4
<1>5. ASSUME Alone(i), Partial(reg), NEW w \in Words(reg)
      PROVE  w \in DOMAIN cache' \ unseen'
  <2>1. w \in DOMAIN cache \ unseen
    BY <1>1, <1>5 DEF Settled
  <2>2. \/ /\ kept /\ outcome = "ok"
           /\ cache' = With(words) /\ unseen' = unseen \ DOMAIN words
        \/ /\ ~(kept /\ outcome = "ok")
           /\ cache' = cache
           /\ unseen' = unseen \union (IF Reached(outcome) THEN DOMAIN words ELSE {})
    BY WriteFacts
  <2>3. w \in DOMAIN words => kept /\ outcome \in {"ok", "refused"}
    BY <1>1, <1>5
  <2>4. CASE cache' = With(words) /\ unseen' = unseen \ DOMAIN words
    BY <2>1, <2>4 DEF With
  <2>5. CASE /\ ~(kept /\ outcome = "ok")
             /\ cache' = cache
             /\ unseen' = unseen \union (IF Reached(outcome) THEN DOMAIN words ELSE {})
    <3>1. w \in DOMAIN words => ~Reached(outcome)
      BY <2>3, <2>5 DEF Reached
    <3> QED
      BY <2>1, <2>5, <3>1
  <2> QED
    BY <2>2, <2>4, <2>5
<1>6. setup' = setup /\ shift' = shift
  BY DEF setup, shift
<1>7. Alone(i)' <=> Alone(i)
  BY <1>6 DEF Alone
<1> QED
  BY <1>1, <1>3, <1>4, <1>5, <1>6, <1>7 DEF Settled, Applied

\* An item whose words were written, each with the value of an item for its register.
LEMMA BecomesSettled ==
  ASSUME TypeOK, config' = config, NEW i \in DOMAIN setup,
         NEW words, NEW part, NEW kept, Writable(words, part), Write(words, part, kept, "ok"),
         Partial(setup[i].reg) => kept,
         \A w \in Words(setup[i].reg) :
           w \in DOMAIN words
           /\ (Alone(i) => words[w] = Composed(setup[i].reg, setup[i].value, w))
  PROVE  Settled(i)'
<1>1. PICK reg : reg = setup[i].reg
  OBVIOUS
<1>2. reg \in Register /\ Words(reg) \subseteq Nat /\ setup[i].value \in {0, 1}
  BY <1>1, ConfigFacts, RegisterFacts
<1>3. \A w \in Words(reg) : w + shift \in Addresses
  <2>1. Shifted(DOMAIN words) \subseteq supported
    BY WriteFacts DEF Reached
  <2> QED
    BY <1>1, <2>1, ConfigFacts DEF Shifted
<1>4. ASSUME Alone(i), NEW w \in Words(reg)
      PROVE  /\ reg.part # "hi" => mem'[w + shift].lo = setup[i].value
             /\ reg.part # "lo" => mem'[w + shift].hi = setup[i].value
  <2>1. mem'[w + shift] = Composed(reg, setup[i].value, w)
    BY <1>1, <1>2, <1>3, <1>4, WrittenAt DEF Reached
  <2>2. w \in DOMAIN cache => cache[w] \in Word
    BY KnownWordsType DEF KnownWords
  <2> QED
    BY <1>2, <2>1, <2>2, ComposedFacts
<1>5. Partial(reg) => Words(reg) \subseteq DOMAIN cache' \ unseen'
  <2>1. kept => cache' = With(words) /\ unseen' = unseen \ DOMAIN words
    BY DEF Write, Keep
  <2> QED
    BY <1>1, <2>1 DEF With
<1>6. setup' = setup /\ shift' = shift
  BY DEF setup, shift
<1>7. Alone(i)' <=> Alone(i)
  BY <1>6 DEF Alone
<1> QED
  BY <1>1, <1>3, <1>4, <1>5, <1>6, <1>7 DEF Settled, Applied

LEMMA UnchangedSettled ==
  ASSUME UNCHANGED <<config, mem, cache, unseen>>, NEW i, Settled(i)
  PROVE  Settled(i)'
<1>1. setup' = setup /\ shift' = shift
  BY DEF setup, shift
<1> QED
  BY <1>1 DEF Settled, Applied, Alone

\* The items that precede the next one after items were written or refused.
LEMMA ItemsDone ==
  ASSUME TypeOK, NEW items, NEW outcome, AfterItems(items, outcome), pc' = "write",
         UNCHANGED skipped, Max(items) \in Nat,
         NEW i \in (1 .. next' - 1) \ (refused' \union skipped'),
         \A j \in next .. Max(items) : j \in items
  PROVE  /\ outcome \in {"ok", "refused"}
         /\ i \in Nat /\ i \notin refused \union skipped
         /\ i \in items => outcome = "ok"
         /\ i \in items \/ i \in 1 .. next - 1
<1>1. outcome \in {"ok", "refused"}
  BY DEF AfterItems, PrepareFails
<1>2. next' = Max(items) + 1 /\ refused' = refused \union (IF outcome = "refused" THEN items ELSE {})
  BY <1>1 DEF AfterItems
<1>3. i \in 1 .. Max(items) /\ next \in Nat
  BY <1>2 DEF TypeOK
<1>4. i \in Nat /\ 1 <= i /\ i <= Max(items)
  BY <1>3
<1>5. i <= next - 1 \/ next <= i
  BY <1>3, <1>4
<1> QED
  BY <1>1, <1>2, <1>3, <1>4, <1>5

LEMMA SetupStep ==
  ASSUME TypeOK, CacheInv, SetupInv, [Next]_vars
  PROVE  SetupInv'
<1> SUFFICES ASSUME pc' = "write", NEW i \in (1 .. next' - 1) \ (refused' \union skipped')
             PROVE  Settled(i)'
  BY DEF SetupInv
<1>1. config' = config
  BY MemoryStep DEF vars
<1>2. /\ Len(setup) \in Nat /\ DOMAIN setup = 1 .. Len(setup)
      /\ next \in Nat /\ 1 <= next /\ next <= Len(setup) + 1
      /\ next' \in Nat /\ next' <= Len(setup) + 1
  <2>1. next' \in 1 .. Len(setup') + 1 /\ setup' = setup
    BY <1>1, DriverTypeStep DEF DriverType, setup
  <2> QED
    BY <2>1, ConfigFacts DEF TypeOK
<1>3. i \in DOMAIN setup
  <2>1. PICK n : n = next'
    OBVIOUS
  <2>2. i \in 1 .. n - 1
    BY <2>1
  <2>3. n \in Nat /\ n <= Len(setup) + 1
    BY <1>2, <2>1
  <2>4. i \in 1 .. Len(setup)
    BY <1>2, <2>2, <2>3
  <2> QED
    BY <1>2, <2>4
<1>4. \/ FillEnds
      \/ /\ pc = "write"
         /\ SkipPacket \/ WriteMultipleSetupRegisters \/ WriteSetupRegister \/ UNCHANGED vars
  <2>1. ~PrepareImpl /\ ~PrepareConnected /\ ~SetupEnds /\ ~FillSetupRegistersCache
        /\ ~EndSession /\ ~DeviceRestarts
    BY DEF PrepareImpl, PrepareConnected, SetupEnds, FillSetupRegistersCache, EndSession,
           DeviceRestarts, PrepareFails, stateVars
  <2>2. \A r \in config.written, v \in {0, 1} : ~WriteChannel(r, v)
    BY DEF WriteChannel
  <2>3. \A queue \in Queues : \A range \in Ranges(queue, avail) : ~ReadRegisterRange(queue, range)
    BY DEF ReadRegisterRange
  <2>4. \A a \in config.changing, part \in {"lo", "hi"} : ~DeviceChanges(a, part)
    BY DEF DeviceChanges, stateVars
  <2>5. CASE UNCHANGED vars
    BY <2>5 DEF vars, stateVars
  <2>6. CASE Next
    BY <2>1, <2>2, <2>3, <2>4, <2>6
       DEF Next, Preparation, Session, SkipPacket, WriteMultipleSetupRegisters, WriteSetupRegister
  <2> QED
    BY <2>5, <2>6
<1>5. CASE FillEnds
  BY <1>5 DEF FillEnds
<1>6. CASE pc = "write" /\ UNCHANGED vars
  <2>1. i \in (1 .. next - 1) \ (refused \union skipped)
    BY <1>6 DEF vars, stateVars
  <2>2. UNCHANGED <<config, mem, cache, unseen>>
    BY <1>6 DEF vars
  <2> QED
    BY <1>6, <2>1, <2>2, UnchangedSettled DEF SetupInv
<1>7. CASE pc = "write" /\ SkipPacket
  <2>1. Packets /\ UNCHANGED <<config, mem, cache, unseen, refused>>
        /\ next' = PacketEnd /\ skipped' = skipped \union (next .. PacketEnd - 1)
    BY <1>7 DEF SkipPacket
  <2>2. i \in (1 .. next - 1) \ (refused \union skipped)
    <3>1. i \in Nat /\ 1 <= i /\ i < PacketEnd /\ i \notin next .. PacketEnd - 1
          /\ i \notin refused \union skipped
      BY <1>2, <2>1
    <3> QED
      BY <1>2, <2>1, <3>1, PacketFacts
  <2> QED
    BY <1>7, <2>1, <2>2, UnchangedSettled DEF SetupInv
<1>8. CASE pc = "write" /\ WriteMultipleSetupRegisters
  <2>1. Packets /\ skipped' = skipped
    BY <1>8 DEF WriteMultipleSetupRegisters
  <2>2. PICK outcome : Write(PacketWords, "all", TRUE, outcome)
                       /\ AfterItems(next .. PacketEnd - 1, outcome)
    BY <1>8 DEF WriteMultipleSetupRegisters
  <2>3. PICK items : items = next .. PacketEnd - 1
    OBVIOUS
  <2>4. Max(items) \in Nat /\ \A j \in next .. Max(items) : j \in items
    BY <1>2, <2>1, <2>3, PacketFacts
  <2>5. /\ outcome \in {"ok", "refused"} /\ i \notin refused \union skipped
        /\ i \in items => outcome = "ok"
        /\ i \in items \/ i \in 1 .. next - 1
    BY <2>1, <2>2, <2>3, <2>4, ItemsDone
  <2>6. Writable(PacketWords, "all")
    BY <2>1, PacketIsWritable
  <2>7. \A j \in items : j \in DOMAIN setup /\ ~Partial(setup[j].reg)
    BY <2>1, <2>3, PacketFacts
  \* A word that an item of the packet shares with i: i is that item, or not alone.
  <2>8. ASSUME Alone(i), NEW w \in Words(setup[i].reg), NEW j \in items, w \in Words(setup[j].reg)
        PROVE  j = i
    BY <1>3, <2>7, <2>8 DEF Alone
  <2>9. CASE i \in items
    <3>1. \A w \in Words(setup[i].reg) :
            /\ w \in DOMAIN PacketWords
            /\ Alone(i) => PacketWords[w] = Composed(setup[i].reg, setup[i].value, w)
      BY <2>1, <2>3, <2>8, <2>9, PacketWordsFacts
    <3>2. Write(PacketWords, "all", TRUE, "ok")
      BY <2>2, <2>5, <2>9
    <3>3. ~Partial(setup[i].reg)
      BY <2>7, <2>9
    <3> QED
      BY <1>1, <1>3, <2>6, <3>1, <3>2, <3>3, BecomesSettled
  <2>10. CASE i \notin items
    <3>1. Settled(i)
      BY <1>8, <2>5, <2>10 DEF SetupInv
    <3>2. Alone(i) => Words(setup[i].reg) \intersect DOMAIN PacketWords = {}
      BY <2>1, <2>3, <2>8, <2>10, PacketWordsFacts
    <3> QED
      BY <1>1, <1>3, <2>2, <2>6, <3>1, <3>2, StaysSettled
  <2> QED
    BY <2>9, <2>10
<1>9. CASE pc = "write" /\ WriteSetupRegister
  <2>1. PICK reg, value : reg = setup[next].reg /\ value = setup[next].value
    OBVIOUS
  <2>2. PICK outcome : Write(RegisterWords(reg, value), reg.part, Noted(reg), outcome)
                       /\ AfterItems({next}, outcome)
    BY <1>9, <2>1 DEF WriteSetupRegister
  <2>3. next \in DOMAIN setup /\ skipped' = skipped
    BY <1>2, <1>9 DEF WriteSetupRegister
  <2>4. reg \in Register /\ value \in {0, 1}
    BY <2>1, <2>3, ConfigFacts
  <2>5. Max({next}) = next
    BY <1>2, GreatestOfOne
  <2>6. \A j \in next .. Max({next}) : j \in {next}
    BY <1>2, <2>5
  <2>7. /\ outcome \in {"ok", "refused"} /\ i \notin refused \union skipped
        /\ i = next => outcome = "ok"
        /\ i = next \/ i \in 1 .. next - 1
    <3>1. Max({next}) \in Nat
      BY <1>2, <2>5
    <3> QED
      BY <2>2, <2>3, <2>6, <3>1, ItemsDone
  <2>8. PICK words : words = RegisterWords(reg, value)
    OBVIOUS
  <2>9. Writable(words, reg.part)
    BY <2>4, <2>8, KnownWordsType, RegisterIsWritable
  <2>10. DOMAIN words = Words(reg) /\ \A w \in Words(reg) : words[w] = Composed(reg, value, w)
    BY <2>8 DEF RegisterWords
  <2>11. Partial(reg) => Noted(reg)
    BY DEF Noted
  <2>12. CASE i = next
    <3>1. Write(words, reg.part, Noted(reg), "ok")
      BY <2>2, <2>7, <2>8, <2>12
    <3>2. \A w \in Words(setup[i].reg) :
            w \in DOMAIN words
            /\ (Alone(i) => words[w] = Composed(setup[i].reg, setup[i].value, w))
      BY <2>1, <2>10, <2>12
    <3>3. Partial(setup[i].reg) => Noted(reg)
      BY <2>1, <2>11, <2>12
    <3> QED
      BY <1>1, <1>3, <2>9, <3>1, <3>2, <3>3, BecomesSettled
  <2>13. CASE i # next
    <3>1. Settled(i)
      BY <1>9, <2>7, <2>13 DEF SetupInv
    <3>2. ASSUME Alone(i), NEW w \in Words(setup[i].reg) \intersect DOMAIN words
          PROVE  /\ Partial(setup[i].reg) /\ Noted(reg)
                 /\ words[w] = Composed(reg, value, w)
                 /\ Partial(reg) /\ reg.part # setup[i].reg.part
      BY <2>1, <2>3, <2>10, <2>11, <2>13, <3>2 DEF Alone
    <3>3. Write(words, reg.part, Noted(reg), outcome)
      BY <2>2, <2>8
    <3>4. Alone(i) =>
            \A w \in Words(setup[i].reg) \intersect DOMAIN words :
              /\ Partial(setup[i].reg) /\ Noted(reg) /\ outcome \in {"ok", "refused"}
              /\ \E r \in Register, v \in {0, 1} :
                   /\ words[w] = Composed(r, v, w)
                   /\ Partial(r) /\ r.part # setup[i].reg.part
      BY <2>4, <2>7, <3>2
    <3> QED
      BY <1>1, <1>3, <2>9, <3>1, <3>3, <3>4, StaysSettled
  <2> QED
    BY <2>12, <2>13
<1> QED
  BY <1>4, <1>5, <1>6, <1>7, <1>8, <1>9

\* THEOREM: until the setup section ends, what an item has written is still there, if no other
\* item is for the same bits: neither the rest of a word that another item writes nor a packet
\* changes it, and only refused items and those of packets that are never sent are left out.
THEOREM SetupIsApplied == Spec => []SetupApplied
<1>1. Init => CacheInv /\ SetupInv
  BY DEF Init, CacheInv, SetupInv
<1>2. TypeOK /\ CacheInv /\ SetupInv /\ [Next]_vars => CacheInv' /\ SetupInv'
  BY CacheStep, SetupStep
<1> QED
  BY <1>1, <1>2, SetupInvApplies, TypeCorrect, PTL DEF Spec

-----------------------------------------------------------------------------
(* Availability *)

\* The driver knows whether reading is continuous, but for a restart; without continuous reading
\* a register is available only if the device has answered for all its words.
ReadingInv ==
  /\ continuous \/ believed => config.hears
  /\ pc # "idle" \/ conn = "CONNECTED" => forgot \/ (config.hears => continuous)
  /\ \A r \in Polled : ~config.hears /\ avail[r] = "AVAILABLE" => Shifted(Words(r)) \subseteq supported

\* What polls do to the availability of registers: nothing, unless an answer says something
\* about those that were read; a connection that is lost forgets who was unavailable.
AvailabilityKept ==
  \/ UNCHANGED <<avail, blamed>>
  \/ /\ \A r \in Polled : avail'[r] # "UNAVAILABLE"
     /\ \A r \in Polled : avail'[r] = "AVAILABLE" => avail[r] = "AVAILABLE"

LEMMA FailsKeeps ==
  ASSUME DriverType, NEW sh, FailsWith(sh, avail, blamed)
  PROVE  AvailabilityKept /\ conn' \in {conn, "DISCONNECTED"}
BY DEF FailsWith, AvailabilityKept, DriverType, Availability

\* All steps but polls leave the availability alone.
LEMMA OtherSteps ==
  ASSUME TypeOK, ReadingInv, [Next]_vars,
         \A queue \in Queues : \A range \in Ranges(queue, avail) : ~ReadRegisterRange(queue, range)
  PROVE  /\ AvailabilityKept
         /\ continuous' \/ believed' => config.hears
         /\ pc' # "idle" \/ conn' = "CONNECTED" => forgot' \/ (config.hears => continuous')
<1>1. DriverType
  BY TypeParts
<1>2. CASE PrepareImpl
  <2>1. CASE /\ continuous' = (continuous \/ config.hears) /\ believed' = (config.hears /\ shift = 0)
             /\ UNCHANGED <<avail, blamed>>
    BY <2>1 DEF AvailabilityKept, ReadingInv
  <2>2. CASE /\ continuous' \in {continuous, continuous \/ config.hears} /\ believed' = believed
             /\ PrepareFails(holes) /\ conn # "CONNECTED"
    <3>1. FailsWith(holes, avail, blamed) /\ pc' = "idle"
      BY <2>2 DEF PrepareFails, Fails
    <3>2. AvailabilityKept /\ conn' # "CONNECTED"
      BY <1>1, <2>2, <3>1, FailsKeeps
    <3> QED
      BY <2>2, <3>1, <3>2 DEF ReadingInv
  <2> QED
    BY <1>2, <2>1, <2>2 DEF PrepareImpl
<1>3. CASE FillSetupRegistersCache \/ WriteMultipleSetupRegisters \/ WriteSetupRegister
  <2>1. UNCHANGED <<continuous, believed, forgot>> /\ pc # "idle"
    BY <1>3 DEF FillSetupRegistersCache, WriteMultipleSetupRegisters, WriteSetupRegister
  <2>2. UNCHANGED <<avail, blamed>> \/ \E sh : FailsWith(sh, avail, blamed)
    BY <1>3 DEF FillSetupRegistersCache, WriteMultipleSetupRegisters, WriteSetupRegister,
                AfterItems, PrepareFails, Fails
  <2>3. AvailabilityKept
    BY <1>1, <2>2, FailsKeeps DEF AvailabilityKept
  <2> QED
    BY <2>1, <2>3 DEF ReadingInv
<1>4. CASE PrepareConnected \/ FillEnds \/ SkipPacket \/ SetupEnds \/ EndSession
           \/ UNCHANGED vars
  <2>1. UNCHANGED <<continuous, believed, forgot, avail, blamed>>
    BY <1>4 DEF PrepareConnected, FillEnds, SkipPacket, SetupEnds, EndSession, vars, stateVars
  <2>2. pc # "idle" \/ conn = "CONNECTED" \/ (UNCHANGED <<pc, conn>>)
    BY <1>4 DEF PrepareConnected, FillEnds, SkipPacket, SetupEnds, EndSession, vars, stateVars
  <2> QED
    BY <2>1, <2>2 DEF ReadingInv, AvailabilityKept
<1>5. ASSUME NEW r \in config.written, NEW v \in {0, 1}, WriteChannel(r, v)
      PROVE  /\ AvailabilityKept /\ UNCHANGED <<continuous, believed, forgot>> /\ pc # "idle"
  <2>1. UNCHANGED <<continuous, believed, forgot>> /\ pc # "idle"
    BY <1>5 DEF WriteChannel
  <2>2. UNCHANGED <<avail, blamed>> \/ FailsWith(holes, avail, blamed)
    BY <1>5 DEF WriteChannel, Fails
  <2> QED
    BY <1>1, <2>1, <2>2, FailsKeeps DEF AvailabilityKept
<1>6. CASE DeviceRestarts
  BY <1>6 DEF DeviceRestarts, stateVars, ReadingInv, AvailabilityKept
<1>7. ASSUME NEW a \in config.changing, NEW part \in {"lo", "hi"}, DeviceChanges(a, part)
      PROVE  UNCHANGED <<continuous, believed, forgot, avail, blamed, pc, conn>>
  BY <1>7 DEF DeviceChanges, stateVars
<1>8. CASE \E a \in config.changing, part \in {"lo", "hi"} : DeviceChanges(a, part)
  BY <1>7, <1>8 DEF ReadingInv, AvailabilityKept
<1>9. CASE \E r \in config.written, v \in {0, 1} : WriteChannel(r, v)
  BY <1>5, <1>9 DEF ReadingInv
<1> QED
  BY <1>2, <1>3, <1>4, <1>6, <1>8, <1>9 DEF Next, Preparation, Session

\* An exception for a range without holes means that the device does not have the registers
\* that were read, unless it has restarted.
LEMMA RefusedMeansMissing ==
  ASSUME TypeOK, ReadingInv, pc = "ready", ~forgot,
         NEW queue \in Queues, NEW range \in Ranges(queue, avail),
         ~HasHoles(queue, range, avail),
         "refused" \in Outcomes(Shifted(Covered(queue, range)),
                                IF continuous THEN Addresses ELSE supported),
         NEW n \in range
  PROVE  ~(Shifted(Words(queue[n])) \subseteq supported)
<1> SUFFICES ASSUME Shifted(Words(queue[n])) \subseteq supported PROVE FALSE
  OBVIOUS
<1>1. IsList(queue) /\ IsRange(queue, avail, range) /\ Offered(queue, avail) # {}
      /\ range \subseteq Together(queue, avail)
      /\ \A k \in range : queue[k] \in Polled /\ avail[queue[k]] # "UNAVAILABLE"
  <2>1. IsList(queue) /\ IsRange(queue, avail, range)
    BY QueueFacts, ReadFacts
  <2>2. range \subseteq Offered(queue, avail) /\ range \subseteq DOMAIN queue
        /\ range \subseteq Together(queue, avail) /\ Offered(queue, avail) # {}
    BY <2>1, RangeFacts
  <2> QED
    BY <2>1, <2>2, QueueFacts DEF Offered
<1>2. Covered(queue, range) \subseteq WordsOf(queue, range)
  BY <1>1, NothingBetween
<1>3. ~(Shifted(Covered(queue, range)) \subseteq IF continuous THEN Addresses ELSE supported)
  BY DEF Outcomes
<1>4. \A k \in range : Shifted(Words(queue[k])) \subseteq Addresses
  BY <1>1, ConfigFacts DEF Shifted
<1>5. ~continuous
  <2>1. Shifted(WordsOf(queue, range)) \subseteq Addresses
    BY <1>4 DEF Shifted, WordsOf
  <2> QED
    BY <1>2, <1>3, <2>1 DEF Shifted
<1>6. ~config.hears /\ ~believed
  BY <1>5 DEF ReadingInv
<1>7. \A k \in range : Shifted(Words(queue[k])) \subseteq supported
  <2> SUFFICES ASSUME NEW k \in range, k # n PROVE Shifted(Words(queue[k])) \subseteq supported
    OBVIOUS
  <2>1. avail[queue[k]] # "UNKNOWN"
    BY <1>1, <1>6, UnknownReadAlone
  <2>2. avail[queue[k]] = "AVAILABLE"
    BY <1>1, <2>1 DEF TypeOK
  <2> QED
    BY <1>1, <1>6, <2>2 DEF ReadingInv
<1>8. Shifted(WordsOf(queue, range)) \subseteq supported
  BY <1>7 DEF Shifted, WordsOf
<1> QED
  BY <1>2, <1>3, <1>5, <1>8 DEF Shifted

LEMMA PollStep ==
  ASSUME TypeOK, ReadingInv, SupportedAvailable, NEW queue \in Queues,
         NEW range \in Ranges(queue, avail), ReadRegisterRange(queue, range)
  PROVE  ReadingInv' /\ SupportedAvailable'
<1>1. DriverType
  BY TypeParts
<1>2. UNCHANGED <<config, continuous, believed, forgot>> /\ pc = "ready"
  BY DEF ReadRegisterRange
<1>4. PICK read : read = {queue[n] : n \in range}
  OBVIOUS
<1>5. PICK outcome \in Outcomes(Shifted(Covered(queue, range)),
                                IF continuous THEN Addresses ELSE supported) :
        \/ /\ outcome = "ok"
           /\ avail' = Marked(read, "AVAILABLE") /\ UNCHANGED blamed
        \/ /\ outcome = "refused" /\ ~HasHoles(queue, range, avail)
           /\ FailsWith(holes, Marked(read, "UNAVAILABLE"),
                        blamed \union (IF forgot THEN read ELSE {}))
        \/ Fails(holes /\ outcome # "refused")
  BY <1>4 DEF ReadRegisterRange
<1>6. setup' = setup /\ supported' = supported /\ shift' = shift /\ Polled' = Polled
      /\ config.hears' = config.hears
  BY <1>2 DEF setup, supported, shift, Polled
<1>7. /\ continuous' \/ believed' => config'.hears
      /\ forgot' \/ (config'.hears => continuous')
  BY <1>2 DEF ReadingInv
<1>8. SUFFICES /\ \A r \in Polled : ~config.hears /\ avail'[r] = "AVAILABLE" =>
                    Shifted(Words(r)) \subseteq supported
               /\ \A r \in Polled \ blamed' : avail'[r] = "UNAVAILABLE" =>
                    ~(Shifted(Words(r)) \subseteq supported)
  BY <1>6, <1>7 DEF ReadingInv, SupportedAvailable, Shifted
<1>9. \A r \in Polled \ blamed : avail[r] = "UNAVAILABLE" => ~(Shifted(Words(r)) \subseteq supported)
  BY DEF SupportedAvailable, Shifted
<1>10. CASE outcome = "ok" /\ avail' = Marked(read, "AVAILABLE") /\ UNCHANGED blamed
  <2>1. ASSUME ~config.hears, NEW r \in read PROVE Shifted(Words(r)) \subseteq supported
    <3>1. ~continuous
      BY <2>1 DEF ReadingInv
    <3>2. Shifted(Covered(queue, range)) \subseteq supported
      BY <1>5, <1>10, <3>1 DEF Outcomes
    <3>3. WordsOf(queue, range) \subseteq Covered(queue, range)
      BY ReadFacts
    <3>4. Words(r) \subseteq WordsOf(queue, range)
      BY <1>4, <2>1 DEF WordsOf
    <3> QED
      BY <3>2, <3>3, <3>4 DEF Shifted
  <2>2. \A r \in Polled : avail'[r] = IF r \in read THEN "AVAILABLE" ELSE avail[r]
    BY <1>10 DEF Marked
  <2> QED
    BY <1>9, <1>10, <2>1, <2>2 DEF ReadingInv
<1>11. CASE /\ outcome = "refused" /\ ~HasHoles(queue, range, avail)
            /\ FailsWith(holes, Marked(read, "UNAVAILABLE"),
                         blamed \union (IF forgot THEN read ELSE {}))
  <2>1. \/ /\ avail' = Marked(read, "UNAVAILABLE")
           /\ blamed' = blamed \union (IF forgot THEN read ELSE {})
        \/ avail' = [r \in Polled |-> IF Marked(read, "UNAVAILABLE")[r] = "UNAVAILABLE"
                                      THEN "UNKNOWN" ELSE Marked(read, "UNAVAILABLE")[r]]
    BY <1>11 DEF FailsWith
  <2>2. \A r \in Polled : Marked(read, "UNAVAILABLE")[r] = IF r \in read THEN "UNAVAILABLE" ELSE avail[r]
    BY DEF Marked
  <2>3. ASSUME ~forgot, NEW r \in read PROVE ~(Shifted(Words(r)) \subseteq supported)
    <3>1. PICK n \in range : r = queue[n]
      BY <1>4, <2>3
    <3> QED
      BY <1>2, <1>5, <1>11, <2>3, <3>1, RefusedMeansMissing
  <2>4. CASE /\ avail' = Marked(read, "UNAVAILABLE")
             /\ blamed' = blamed \union (IF forgot THEN read ELSE {})
    BY <1>9, <2>2, <2>3, <2>4 DEF ReadingInv
  <2>5. CASE avail' = [r \in Polled |-> IF Marked(read, "UNAVAILABLE")[r] = "UNAVAILABLE"
                                        THEN "UNKNOWN" ELSE Marked(read, "UNAVAILABLE")[r]]
    BY <2>2, <2>5 DEF ReadingInv
  <2> QED
    BY <2>1, <2>4, <2>5
<1>12. CASE Fails(holes /\ outcome # "refused")
  <2>1. AvailabilityKept
    BY <1>1, <1>12, FailsKeeps DEF Fails
  <2> QED
    BY <1>9, <2>1 DEF AvailabilityKept, ReadingInv
<1> QED
  BY <1>5, <1>10, <1>11, <1>12

LEMMA AvailabilityStep ==
  ASSUME TypeOK, ReadingInv, SupportedAvailable, [Next]_vars
  PROVE  ReadingInv' /\ SupportedAvailable'
<1>1. CASE \E queue \in Queues : \E range \in Ranges(queue, avail) : ReadRegisterRange(queue, range)
  BY <1>1, PollStep
<1>2. CASE \A queue \in Queues : \A range \in Ranges(queue, avail) : ~ReadRegisterRange(queue, range)
  <2>1. config' = config
    BY MemoryStep DEF vars
  <2>2. /\ AvailabilityKept
        /\ continuous' \/ believed' => config.hears
        /\ pc' # "idle" \/ conn' = "CONNECTED" => forgot' \/ (config.hears => continuous')
    BY <1>2, OtherSteps
  <2>3. \A r \in Polled : ~config.hears /\ avail'[r] = "AVAILABLE" => Shifted(Words(r)) \subseteq supported
    BY <2>2 DEF AvailabilityKept, ReadingInv
  <2>4. \A r \in Polled \ blamed' : avail'[r] = "UNAVAILABLE" =>
          ~({w + shift : w \in Words(r)} \subseteq supported)
    BY <2>2 DEF AvailabilityKept, SupportedAvailable
  <2>5. supported' = supported /\ shift' = shift /\ Polled' = Polled
    BY <2>1 DEF supported, shift, Polled
  <2>6. ReadingInv'
    BY <2>1, <2>2, <2>3, <2>5 DEF ReadingInv, Shifted
  <2>7. SupportedAvailable'
    BY <2>4, <2>5 DEF SupportedAvailable
  <2> QED
    BY <2>6, <2>7
<1> QED
  BY <1>1, <1>2

\* THEOREM: a register is not taken for unavailable because of holes or of its neighbours in a
\* range: the device does not have it, or has restarted without anybody having noticed.
THEOREM SupportedStayAvailable == Spec => []SupportedAvailable
<1>1. Init => ReadingInv /\ SupportedAvailable
  BY DEF Init, ReadingInv, SupportedAvailable
<1>2. TypeOK /\ ReadingInv /\ SupportedAvailable /\ [Next]_vars => ReadingInv' /\ SupportedAvailable'
  BY AvailabilityStep
<1> QED
  BY <1>1, <1>2, TypeCorrect, PTL DEF Spec

-----------------------------------------------------------------------------
(* FastModbusEvents *)

LEMMA Bounds ==
  /\ MaxEvents \in Nat /\ MaxReadErrors \in Nat /\ 0 \notin Devices
  /\ 0 \in 0..MaxEvents /\ 0 \in 0..MaxReadErrors
BY EventsAssumption DEF EventsAssumption

USE Bounds

LEMMA ConfirmedType ==
  ASSUME EventsTypeOK, NEW heard \in SUBSET Devices, NEW d \in Devices
  PROVE  Confirmed(heard, d) \in 0..MaxEvents
BY DEF EventsTypeOK, Confirmed

\* What a request and its answer change in the devices.
LEMMA SendType ==
  ASSUME EventsTypeOK, NEW heard \in SUBSET Devices,
         (\E d \in heard, n \in 1..MaxEvents : SendEvents(heard, d, n)) \/ SendNoEvents(heard)
  PROVE  /\ occurred' = occurred
         /\ dropped' \in [Devices -> 0..MaxEvents]
         /\ sent' \in [Devices -> 0..MaxEvents]
         /\ flag' \in [Devices -> {0, 1}]
<1>1. dropped' \in [Devices -> 0..MaxEvents] /\ occurred' = occurred
  BY ConfirmedType DEF SendEvents, SendNoEvents, Hear
<1>2. ASSUME NEW d \in heard, NEW n \in 1..MaxEvents, SendEvents(heard, d, n)
      PROVE  sent' \in [Devices -> 0..MaxEvents] /\ flag' \in [Devices -> {0, 1}]
  <2>1. sent' \in [Devices -> 0..MaxEvents]
    BY <1>2 DEF SendEvents, EventsTypeOK
  <2>2. flag[d] \in {0, 1} /\ 1 - flag[d] \in {0, 1}
    BY DEF EventsTypeOK
  <2> QED
    BY <1>2, <2>1, <2>2 DEF SendEvents, EventsTypeOK
<1>3. CASE SendNoEvents(heard)
  BY <1>1, <1>3 DEF SendNoEvents, EventsTypeOK
<1> QED
  BY <1>1, <1>2, <1>3

LEMMA FailedType ==
  ASSUME EventsTypeOK, Failed
  PROVE  /\ readErrors' \in 0..MaxReadErrors /\ clearErrors' \in BOOLEAN /\ reading' \in BOOLEAN
         /\ error' \subseteq Devices /\ own' \subseteq Devices
         /\ UNCHANGED <<last, applied, broken, enabled, excluded>>
<1>1. CASE TooManyErrors(readErrors + 1)
  BY <1>1 DEF Failed, ErrorsAreSet, SetReadErrors, EventsTypeOK, enabledVars
<1>2. CASE ~ TooManyErrors(readErrors + 1)
  <2>1. readErrors + 1 \in 0..MaxReadErrors
    BY <1>2 DEF TooManyErrors, EventsTypeOK
  <2> QED
    BY <1>2, <2>1 DEF Failed, EventsTypeOK, enabledVars
<1> QED
  BY <1>1, <1>2

LEMMA ClearType ==
  ASSUME EventsTypeOK, NEW err \in SUBSET Devices, NEW others \in SUBSET Devices, ClearReadErrors(err, others)
  PROVE  /\ readErrors' \in 0..MaxReadErrors /\ clearErrors' \in BOOLEAN
         /\ error' \subseteq Devices /\ own' \subseteq Devices
         /\ UNCHANGED <<enabled, excluded>>
<1>1. readErrors' \in 0..MaxReadErrors /\ clearErrors' \in BOOLEAN /\ UNCHANGED <<enabled, excluded>>
  BY DEF ClearReadErrors, enabledVars
<1>2. error' \subseteq Devices /\ own' \subseteq Devices
  BY DEF ClearReadErrors
<1> QED
  BY <1>1, <1>2

LEMMA ReadType ==
  ASSUME EventsTypeOK, Read
  PROVE  EventsTypeOK'
<1>1. CASE NoAnswer
  BY <1>1, FailedType DEF NoAnswer, deviceVars, EventsTypeOK
<1>2. ASSUME NEW heard \in SUBSET Devices, NEW d \in heard, NEW n \in 1..MaxEvents,
             ReceiveEvents(heard, d, n)
      PROVE  EventsTypeOK'
  <2>1. /\ occurred' = occurred /\ dropped' \in [Devices -> 0..MaxEvents]
        /\ sent' \in [Devices -> 0..MaxEvents] /\ flag' \in [Devices -> {0, 1}]
    BY <1>2, SendType DEF ReceiveEvents
  <2>2. conf' \in [id : Devices \cup {0}, flag : {0, 1}]
    BY <1>2, <2>1 DEF ReceiveEvents, Confirmation
  <2>3. applied' \in [Devices -> 0..MaxEvents]
    BY <1>2 DEF ReceiveEvents, EventsTypeOK
  <2>4. /\ readErrors' \in 0..MaxReadErrors /\ clearErrors' \in BOOLEAN
        /\ error' \subseteq Devices /\ own' \subseteq Devices /\ broken' \subseteq Devices
        /\ UNCHANGED <<enabled, excluded>>
    <3>1. broken' \subseteq Devices /\ Shown(error, d, n) \in SUBSET Devices /\ own \ {d} \in SUBSET Devices
      BY <1>2 DEF ReceiveEvents, Shown, EventsTypeOK
    <3> QED
      BY <1>2, <3>1, ClearType DEF ReceiveEvents
  <2> QED
    BY <1>2, <2>1, <2>2, <2>3, <2>4 DEF ReceiveEvents, EventsTypeOK
<1>3. ASSUME NEW heard \in SUBSET Devices, NEW d \in heard, NEW n \in 1..MaxEvents,
             LoseEvents(heard, d, n)
      PROVE  EventsTypeOK'
  <2>1. /\ occurred' = occurred /\ dropped' \in [Devices -> 0..MaxEvents]
        /\ sent' \in [Devices -> 0..MaxEvents] /\ flag' \in [Devices -> {0, 1}]
    BY <1>3, SendType DEF LoseEvents
  <2>2. conf' = conf /\ Failed
    BY <1>3 DEF LoseEvents, Confirmation
  <2> QED
    BY <2>1, <2>2, FailedType DEF EventsTypeOK
<1>4. ASSUME NEW heard \in SUBSET Devices, ReceiveNoEvents(heard)
      PROVE  EventsTypeOK'
  <2>1. /\ occurred' = occurred /\ dropped' \in [Devices -> 0..MaxEvents]
        /\ sent' \in [Devices -> 0..MaxEvents] /\ flag' \in [Devices -> {0, 1}]
    BY <1>4, SendType DEF ReceiveNoEvents
  <2> QED
    BY <1>4, <2>1, ClearType DEF ReceiveNoEvents, NoConfirmation, FirstAddress, EventsTypeOK
<1>5. ASSUME NEW heard \in SUBSET Devices, LoseNoEvents(heard)
      PROVE  EventsTypeOK'
  <2>1. /\ occurred' = occurred /\ dropped' \in [Devices -> 0..MaxEvents]
        /\ sent' \in [Devices -> 0..MaxEvents] /\ flag' \in [Devices -> {0, 1}]
    BY <1>5, SendType DEF LoseNoEvents
  <2> QED
    BY <1>5, <2>1, FailedType DEF LoseNoEvents, EventsTypeOK
<1> QED
  BY <1>1, <1>2, <1>3, <1>4, <1>5 DEF Read, Received, Lost

LEMMA InitType == ASSUME EventsInit PROVE EventsTypeOK
<1>1. /\ occurred \in [Devices -> 0..MaxEvents] /\ dropped \in [Devices -> 0..MaxEvents]
      /\ sent \in [Devices -> 0..MaxEvents] /\ applied \in [Devices -> 0..MaxEvents]
      /\ flag \in [Devices -> {0, 1}]
  BY DEF EventsInit
<1>2. conf \in [id : Devices \cup {0}, flag : {0, 1}] /\ last \in Devices \cup {0}
  BY DEF EventsInit, NoConfirmation
<1>3. readErrors \in 0..MaxReadErrors /\ clearErrors \in BOOLEAN /\ reading \in BOOLEAN
  BY DEF EventsInit
<1> QED
  BY <1>1, <1>2, <1>3 DEF EventsInit, EventsTypeOK

\* The type invariant: numbers of events within the bound, one-bit flags, addresses of
\* devices, and a count of read errors that never exceeds its limit.
THEOREM EventsTypeCorrect == EventsSpec => []EventsTypeOK
<1>1. EventsInit => EventsTypeOK
  BY InitType
<1>2. EventsTypeOK /\ [EventsNext]_eventsVars => EventsTypeOK'
  <2> SUFFICES ASSUME EventsTypeOK, [EventsNext]_eventsVars PROVE EventsTypeOK'
    OBVIOUS
  <2>1. CASE EndReading
    BY <2>1 DEF EndReading, EventsTypeOK, deviceVars, readerVars, enabledVars, registerVars
  <2>2. CASE Connection
    BY <2>2
       DEF Connection, Disconnect, Reschedule, EnableEvents, ClosedPortCycle, SetReadErrors,
           EventsTypeOK, deviceVars, readerVars, enabledVars, registerVars
  <2>3. ASSUME NEW d \in Devices, Occur(d)
        PROVE  EventsTypeOK'
    BY <2>3 DEF Occur, EventsTypeOK, readerVars, enabledVars, registerVars
  <2>4. CASE UNCHANGED eventsVars
    BY <2>4 DEF eventsVars, EventsTypeOK, deviceVars, readerVars, enabledVars, registerVars
  <2> QED
    BY <2>1, <2>2, <2>3, <2>4, ReadType DEF EventsNext
<1> QED
  BY <1>1, <1>2, PTL DEF EventsSpec

-----------------------------------------------------------------------------
(* No event is lost.                                                       *)

\* A device has dropped no more than was applied.  The confirmation that the next
\* request carries stands for a packet whose events were applied, unless its flag is
\* that of an older one: then the device has a packet out that is not confirmed.
Confirmable(d) ==
  /\ dropped[d] <= sent[d] /\ sent[d] <= occurred[d]
  /\ dropped[d] <= applied[d] /\ applied[d] <= occurred[d]
  /\ conf.id = d /\ conf.flag = flag[d] => sent[d] <= applied[d]
  /\ conf.id = d /\ conf.flag # flag[d] => dropped[d] < sent[d]

DeliveryInv == EventsTypeOK /\ \A d \in Devices : Confirmable(d)

LEMMA ConfirmedBounds ==
  ASSUME DeliveryInv, NEW heard \in SUBSET Devices, NEW d \in Devices
  PROVE  /\ Confirmed(heard, d) \in Nat
         /\ dropped[d] <= Confirmed(heard, d) /\ Confirmed(heard, d) <= applied[d]
         /\ Confirmed(heard, d) <= sent[d]
<1>1. dropped[d] \in Nat /\ sent[d] \in Nat /\ applied[d] \in Nat
  BY DEF DeliveryInv, EventsTypeOK
<1> QED
  BY <1>1 DEF DeliveryInv, Confirmable, Confirmed

\* A device that does not answer, whatever becomes of the answer of another.
LEMMA SilentDevice ==
  ASSUME DeliveryInv, NEW heard \in SUBSET Devices, NEW d \in Devices,
         dropped'[d] = Confirmed(heard, d), sent'[d] = sent[d], flag'[d] = flag[d],
         occurred' = occurred, applied'[d] = applied[d],
         conf' = conf \/ conf'.id # d
  PROVE  Confirmable(d)'
<1>1. dropped[d] \in Nat /\ sent[d] \in Nat /\ applied[d] \in Nat /\ occurred[d] \in Nat
  BY DEF DeliveryInv, EventsTypeOK
<1>2. Confirmable(d)
  BY DEF DeliveryInv
<1> QED
  BY <1>1, <1>2, ConfirmedBounds DEF Confirmable, Confirmed

LEMMA ReceiveInv ==
  ASSUME DeliveryInv, NEW heard \in SUBSET Devices, NEW d \in heard, NEW n \in 1..MaxEvents,
         ReceiveEvents(heard, d, n)
  PROVE  /\ \A e \in Devices : Confirmable(e)'
         /\ \A e \in Devices : applied[e] <= applied'[e] /\ applied'[e] <= occurred[e]
<1> SUFFICES ASSUME NEW e \in Devices
             PROVE  Confirmable(e)' /\ applied[e] <= applied'[e] /\ applied'[e] <= occurred[e]
  OBVIOUS
<1>1. /\ dropped[e] \in Nat /\ sent[e] \in Nat /\ applied[e] \in Nat /\ occurred[e] \in Nat
      /\ n \in Nat /\ flag[e] \in {0, 1}
  BY DEF DeliveryInv, EventsTypeOK
<1>2. /\ dropped'[e] = Confirmed(heard, e) /\ occurred' = occurred
      /\ sent'[e] = IF e = d THEN n ELSE sent[e]
      /\ e # d => flag'[e] = flag[e]
      /\ n <= occurred[d] /\ Confirmed(heard, d) < n
      /\ conf'.id = d /\ conf'.flag = flag'[d]
  <2>1. Confirmed(heard, d) \in Nat /\ occurred[d] \in Nat
    BY ConfirmedBounds DEF DeliveryInv, EventsTypeOK
  <2> QED
    BY <2>1 DEF ReceiveEvents, SendEvents, Hear, Confirmation, DeliveryInv, EventsTypeOK
<1>3. applied'[e] = IF e = d /\ dropped'[e] <= applied[e] /\ applied[e] < n THEN n ELSE applied[e]
  BY DEF ReceiveEvents, DeliveryInv, EventsTypeOK
<1>4. Confirmable(e)
  BY DEF DeliveryInv
<1>5. CASE e = d
  BY <1>1, <1>2, <1>3, <1>4, <1>5, ConfirmedBounds DEF Confirmable
<1>6. CASE e # d
  BY <1>1, <1>2, <1>3, <1>4, <1>6, SilentDevice DEF Confirmable
<1> QED
  BY <1>5, <1>6

LEMMA LoseInv ==
  ASSUME DeliveryInv, NEW heard \in SUBSET Devices, NEW d \in heard, NEW n \in 1..MaxEvents,
         LoseEvents(heard, d, n)
  PROVE  applied' = applied /\ \A e \in Devices : Confirmable(e)'
<1> SUFFICES ASSUME NEW e \in Devices PROVE applied' = applied /\ Confirmable(e)'
  OBVIOUS
<1>1. /\ dropped[e] \in Nat /\ sent[e] \in Nat /\ applied[e] \in Nat /\ occurred[e] \in Nat
      /\ n \in Nat /\ flag[e] \in {0, 1}
  BY DEF DeliveryInv, EventsTypeOK
<1>2. /\ dropped'[e] = Confirmed(heard, e) /\ occurred' = occurred /\ applied' = applied
      /\ sent'[e] = IF e = d THEN n ELSE sent[e]
      /\ e # d => flag'[e] = flag[e]
      /\ n <= occurred[d] /\ Confirmed(heard, d) < n
      /\ conf' = conf
  <2>1. Confirmed(heard, d) \in Nat /\ occurred[d] \in Nat
    BY ConfirmedBounds DEF DeliveryInv, EventsTypeOK
  <2> QED
    BY <2>1 DEF LoseEvents, SendEvents, Hear, Failed, Confirmation, DeliveryInv, EventsTypeOK
<1>3. flag'[d] = IF sent[d] = Confirmed(heard, d) THEN 1 - flag[d] ELSE flag[d]
  BY DEF LoseEvents, SendEvents, DeliveryInv, EventsTypeOK
<1>4. Confirmable(e)
  BY DEF DeliveryInv
<1>5. CASE e = d
  <2>1. CASE conf.id = e /\ conf.flag = flag[e]
    <3>1. Confirmed(heard, e) = sent[e]
      BY <1>5, <2>1 DEF Confirmed
    <3>2. conf'.flag # flag'[e]
      BY <1>1, <1>2, <1>3, <1>5, <2>1, <3>1
    <3> QED
      BY <1>1, <1>2, <1>4, <1>5, <2>1, <3>1, <3>2, ConfirmedBounds DEF Confirmable
  <2>2. CASE conf.id = e /\ conf.flag # flag[e]
    <3>1. Confirmed(heard, e) = dropped[e] /\ flag'[e] = flag[e]
      BY <1>1, <1>3, <1>4, <1>5, <2>2 DEF Confirmed, Confirmable
    <3> QED
      BY <1>1, <1>2, <1>4, <1>5, <2>2, <3>1, ConfirmedBounds DEF Confirmable
  <2>3. CASE conf.id # e
    BY <1>1, <1>2, <1>4, <1>5, <2>3, ConfirmedBounds DEF Confirmable
  <2> QED
    BY <2>1, <2>2, <2>3
<1>6. CASE e # d
  BY <1>1, <1>2, <1>4, <1>6, SilentDevice
<1> QED
  BY <1>2, <1>5, <1>6

LEMMA NoEventsInv ==
  ASSUME DeliveryInv, NEW heard \in SUBSET Devices, ReceiveNoEvents(heard) \/ LoseNoEvents(heard)
  PROVE  applied' = applied /\ \A e \in Devices : Confirmable(e)'
<1>1. /\ occurred' = occurred /\ applied' = applied /\ sent' = sent /\ flag' = flag
      /\ dropped' = [d \in Devices |-> Confirmed(heard, d)]
      /\ conf' = conf \/ conf'.id = 0
  BY DEF ReceiveNoEvents, LoseNoEvents, SendNoEvents, Hear, Failed, NoConfirmation
<1> QED
  BY <1>1, SilentDevice

\* Every step keeps the invariant and is a step of EventDelivery, or changes nothing
\* of it.
LEMMA ReadDelivers ==
  ASSUME DeliveryInv, Read
  PROVE  (\A d \in Devices : Confirmable(d)') /\ [Delivery!Next]_(Delivery!vars)
<1>1. EventsTypeOK /\ EventsTypeOK'
  BY ReadType DEF DeliveryInv
<1>2. ASSUME NEW heard \in SUBSET Devices,
             \A d \in Devices : dropped'[d] = Confirmed(heard, d),
             \A d \in Devices : applied[d] <= applied'[d] /\ applied'[d] <= occurred[d],
             occurred' = occurred
      PROVE  Delivery!Next
  <2>1. applied' \in [Devices -> 0..MaxEvents] /\ dropped' \in [Devices -> 0..MaxEvents]
    BY <1>1 DEF EventsTypeOK
  <2>2. \A d \in Devices : dropped[d] <= dropped'[d] /\ dropped'[d] <= applied[d]
    BY <1>2, ConfirmedBounds
  <2> QED
    BY <1>2, <2>1, <2>2 DEF Delivery!Next, Delivery!Exchange
<1>3. \A d \in Devices : applied[d] \in Nat /\ applied[d] <= applied[d] /\ applied[d] <= occurred[d]
  BY <1>1 DEF DeliveryInv, Confirmable, EventsTypeOK
<1>4. CASE NoAnswer
  <2>1. UNCHANGED <<occurred, dropped, sent, flag, conf, applied>>
    BY <1>4 DEF NoAnswer, Failed, deviceVars
  <2> QED
    BY <2>1 DEF DeliveryInv, Confirmable, Delivery!vars
<1>5. ASSUME NEW heard \in SUBSET Devices, NEW d \in heard, NEW n \in 1..MaxEvents,
             ReceiveEvents(heard, d, n)
      PROVE  (\A e \in Devices : Confirmable(e)') /\ Delivery!Next
  <2>1. occurred' = occurred /\ \A e \in Devices : dropped'[e] = Confirmed(heard, e)
    BY <1>5 DEF ReceiveEvents, SendEvents, Hear
  <2> QED
    BY <1>2, <1>5, <2>1, ReceiveInv
<1>6. ASSUME NEW heard \in SUBSET Devices, NEW d \in heard, NEW n \in 1..MaxEvents,
             LoseEvents(heard, d, n)
      PROVE  (\A e \in Devices : Confirmable(e)') /\ Delivery!Next
  <2>1. occurred' = occurred /\ \A e \in Devices : dropped'[e] = Confirmed(heard, e)
    BY <1>6 DEF LoseEvents, SendEvents, Hear
  <2> QED
    BY <1>2, <1>3, <1>6, <2>1, LoseInv
<1>7. ASSUME NEW heard \in SUBSET Devices, ReceiveNoEvents(heard) \/ LoseNoEvents(heard)
      PROVE  (\A e \in Devices : Confirmable(e)') /\ Delivery!Next
  <2>1. occurred' = occurred /\ \A e \in Devices : dropped'[e] = Confirmed(heard, e)
    BY <1>7 DEF ReceiveNoEvents, LoseNoEvents, SendNoEvents, Hear
  <2> QED
    BY <1>2, <1>3, <1>7, <2>1, NoEventsInv
<1> QED
  BY <1>4, <1>5, <1>6, <1>7 DEF Read, Received, Lost

LEMMA StepDelivers ==
  ASSUME DeliveryInv, [EventsNext]_eventsVars
  PROVE  DeliveryInv' /\ [Delivery!Next]_(Delivery!vars)
<1>1. CASE Read
  BY <1>1, ReadType, ReadDelivers DEF DeliveryInv
<1>2. CASE EndReading \/ Connection \/ UNCHANGED eventsVars
  <2>1. EventsTypeOK'
    BY <1>2 DEF EndReading, Connection, Disconnect, Reschedule, EnableEvents, ClosedPortCycle,
       SetReadErrors, DeliveryInv, EventsTypeOK, eventsVars, deviceVars, readerVars, enabledVars, registerVars
  <2>2. UNCHANGED <<occurred, dropped, sent, flag, conf, applied>>
    <3>1. ASSUME NEW d \in Devices,
                 Disconnect(d) \/ Reschedule(d) \/ \E answered \in BOOLEAN : EnableEvents(d, answered)
          PROVE  UNCHANGED <<occurred, dropped, sent, flag, conf, applied>>
      BY <3>1 DEF Disconnect, Reschedule, EnableEvents, deviceVars, readerVars, registerVars
    <3>2. CASE ClosedPortCycle
      BY <3>2 DEF ClosedPortCycle, deviceVars, readerVars
    <3>3. CASE EndReading \/ UNCHANGED eventsVars
      BY <3>3 DEF EndReading, eventsVars, deviceVars, readerVars, registerVars
    <3> QED
      BY <1>2, <3>1, <3>2, <3>3 DEF Connection
  <2> QED
    BY <2>1, <2>2 DEF DeliveryInv, Confirmable, Delivery!vars
<1>3. ASSUME NEW d \in Devices, Occur(d)
      PROVE  DeliveryInv' /\ Delivery!Next
  <2>1. EventsTypeOK'
    BY <1>3 DEF Occur, DeliveryInv, EventsTypeOK, readerVars, enabledVars, registerVars
  <2>2. ASSUME NEW e \in Devices PROVE Confirmable(e)'
    <3>1. /\ sent[e] \in Nat /\ applied[e] \in Nat /\ occurred[e] \in Nat
          /\ occurred'[e] \in {occurred[e], occurred[e] + 1}
      BY <1>3 DEF Occur, DeliveryInv, EventsTypeOK
    <3> QED
      BY <1>3, <3>1 DEF Occur, DeliveryInv, Confirmable, readerVars, registerVars
  <2>3. Delivery!Next
    BY <1>3 DEF Occur, Delivery!Next, Delivery!Occur, registerVars
  <2> QED
    BY <2>1, <2>2, <2>3 DEF DeliveryInv
<1> QED
  BY <1>1, <1>2, <1>3 DEF EventsNext

\* The reader implements EventDelivery: whatever requests and answers are lost, no device
\* is made to drop an event before the service has applied it and all the earlier ones.
THEOREM EventsDelivered == EventsSpec => NoEventLost
<1>1. EventsInit => DeliveryInv /\ Delivery!Init
  <2> SUFFICES ASSUME EventsInit PROVE DeliveryInv /\ Delivery!Init
    OBVIOUS
  <2>1. EventsTypeOK
    BY InitType
  <2> QED
    BY <2>1 DEF EventsInit, NoConfirmation, DeliveryInv, Confirmable, Delivery!Init
<1>2. DeliveryInv /\ [EventsNext]_eventsVars => DeliveryInv' /\ [Delivery!Next]_(Delivery!vars)
  BY StepDelivers
<1> QED
  BY <1>1, <1>2, PTL DEF EventsSpec, NoEventLost, Delivery!Spec

\* Of the errors on registers that are not polled, those that failing to read events has
\* set do not outlive the next success: only errors that a closed port or a first read
\* with no answer has set, and the register's own error_value, are left by one.
THEOREM OutagesEnd == EventsSpec => []OutageEnds
<1>1. EventsInit => OutageEnds
  BY DEF EventsInit, OutageEnds
<1>2. OutageEnds /\ [EventsNext]_eventsVars => OutageEnds'
  <2> SUFFICES ASSUME OutageEnds, [EventsNext]_eventsVars PROVE OutageEnds'
    OBVIOUS
  <2>1. ASSUME Failed PROVE OutageEnds'
    BY <2>1 DEF Failed, ErrorsAreSet, SetReadErrors, OutageEnds, enabledVars
  <2>2. ASSUME NEW heard, NEW d, NEW n, ReceiveEvents(heard, d, n) PROVE OutageEnds'
    <3>1. CASE <<d, n>> \in ErrorEvents
      BY <2>2, <3>1 DEF ReceiveEvents, ClearReadErrors, Shown, OutageEnds, enabledVars
    <3>2. CASE <<d, n>> \notin ErrorEvents
      BY <2>2, <3>2 DEF ReceiveEvents, ClearReadErrors, Shown, OutageEnds, enabledVars
    <3> QED
      BY <3>1, <3>2
  <2>3. ASSUME NEW heard, ReceiveNoEvents(heard) PROVE OutageEnds'
    BY <2>3 DEF ReceiveNoEvents, ClearReadErrors, OutageEnds, enabledVars
  <2>4. CASE Read
    BY <2>1, <2>2, <2>3, <2>4 DEF Read, NoAnswer, Received, Lost, LoseEvents, LoseNoEvents
  <2>5. CASE EndReading \/ (\E d \in Devices : Occur(d)) \/ UNCHANGED eventsVars
    BY <2>5 DEF EndReading, Occur, OutageEnds, eventsVars, readerVars, enabledVars, registerVars
  <2>6. CASE ClosedPortCycle
    BY <2>6 DEF ClosedPortCycle, SetReadErrors, OutageEnds, enabledVars, readerVars
  <2>7. ASSUME NEW d \in Devices, Disconnect(d) \/ Reschedule(d) PROVE OutageEnds'
    BY <2>7 DEF Disconnect, Reschedule, OutageEnds, readerVars, registerVars
  <2>8. ASSUME NEW d \in Devices, NEW answered \in BOOLEAN, EnableEvents(d, answered) PROVE OutageEnds'
    BY <2>8 DEF EnableEvents, OutageEnds, readerVars
  <2> QED
    BY <2>4, <2>5, <2>6, <2>7, <2>8 DEF EventsNext, Connection
<1> QED
  BY <1>1, <1>2, PTL DEF EventsSpec
=============================================================================
