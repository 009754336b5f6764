------------------------------- MODULE SumProofs -------------------------------
(***************************************************************************)
(* Sums of whole numbers over finite sets, as SumFunctionOnSet of the      *)
(* community modules defines them: what the books of the exchange are made *)
(* of.  Proofs over all finite sets take a smallest counterexample, by     *)
(* LeastMember, where an induction would take a step.                      *)
(***************************************************************************)
EXTENDS FiniteSetsExt, FiniteSetTheorems, WellFoundedInduction, TLAPS

\* Any set of subsets of a finite set that is not empty has a smallest member:
\* what a proof by induction on finite sets rests on.
LEMMA LeastMember ==
    ASSUME NEW S, IsFiniteSet(S), NEW F \in SUBSET SUBSET S, F # {}
    PROVE  \E m \in F : \A t \in F : t \subseteq m => t = m
<1> DEFINE R == StrictSubsetOrdering(S)
<1>1. IsWellFoundedOn(R, FiniteSubsetsOf(S))  BY FS_StrictSubsetOrderingWellFounded
<1>2. F \subseteq FiniteSubsetsOf(S)  BY FS_Subset DEF FiniteSubsetsOf
<1>3. \E m \in F : \A t \in F : ~(<<t, m>> \in R)
  <2> HIDE DEF R
  <2> QED BY <1>1, <1>2, WFMin
<1>4. QED  BY <1>3 DEF StrictSubsetOrdering

\* The member of a set that a sum takes first, and the rest.
FirstOf(s) == CHOOSE x \in s : TRUE
RestOf(s)  == s \ {FirstOf(s)}

\* A set that is not empty is its first member and a smaller rest.
LEMMA FirstMember ==
    ASSUME NEW s, s # {}
    PROVE  FirstOf(s) \in s /\ RestOf(s) \subseteq s /\ RestOf(s) # s
<1>1. FirstOf(s) \in s  BY DEF FirstOf
<1>2. QED  BY <1>1 DEF RestOf

\* h is the table of the sums of f over the subsets of S.
Sums(h, f, S) ==
    h = [s \in SUBSET S |-> IF s = {} THEN 0 ELSE f[FirstOf(s)] + h[RestOf(s)]]

\* What a table of sums holds for one subset.
LEMMA SumsValue ==
    ASSUME NEW f, NEW S, NEW h, Sums(h, f, S), NEW s \in SUBSET S
    PROVE  h[s] = IF s = {} THEN 0 ELSE f[FirstOf(s)] + h[RestOf(s)]
  BY DEF Sums

\* Two tables agree wherever both have an entry.
LEMMA SumsUnique ==
    ASSUME NEW f, NEW S, IsFiniteSet(S), NEW T \in SUBSET S,
           NEW h, NEW k, Sums(h, f, S), Sums(k, f, T)
    PROVE  \A s \in SUBSET T : h[s] = k[s]
<1> DEFINE F == {s \in SUBSET T : h[s] # k[s]}
<1> SUFFICES ASSUME F # {} PROVE FALSE  OBVIOUS
<1>1. F \in SUBSET SUBSET S  OBVIOUS
<1>2. PICK m \in F : \A t \in F : t \subseteq m => t = m
  <2> HIDE DEF F
  <2> QED  BY <1>1, LeastMember
<1>3. m \in SUBSET T /\ m \in SUBSET S  OBVIOUS
<1>4. h[m] = IF m = {} THEN 0 ELSE f[FirstOf(m)] + h[RestOf(m)]  BY <1>3, SumsValue
<1>5. k[m] = IF m = {} THEN 0 ELSE f[FirstOf(m)] + k[RestOf(m)]  BY <1>3, SumsValue
<1>6. m # {}  BY <1>4, <1>5
<1>7. RestOf(m) \in SUBSET T /\ RestOf(m) \subseteq m /\ RestOf(m) # m
  BY <1>3, <1>6, FirstMember
<1>8. h[RestOf(m)] = k[RestOf(m)]  BY <1>2, <1>7
<1>9. QED  BY <1>4, <1>5, <1>6, <1>8

\* Every finite set has its table.
LEMMA SumsExist ==
    ASSUME NEW f, NEW S, IsFiniteSet(S)
    PROVE  \E h : Sums(h, f, S)
<1> DEFINE F == {T \in SUBSET S : ~ \E h : Sums(h, f, T)}
<1> SUFFICES ASSUME F # {} PROVE FALSE  OBVIOUS
<1>1. F \in SUBSET SUBSET S  OBVIOUS
<1>2. PICK T \in F : \A t \in F : t \subseteq T => t = T
  <2> HIDE DEF F
  <2> QED  BY <1>1, LeastMember
<1> DEFINE H(s) == CHOOSE h : Sums(h, f, s)
           g == [s \in SUBSET T |-> IF s = {} THEN 0
                                    ELSE f[FirstOf(s)] + H(RestOf(s))[RestOf(s)]]
<1>3. ASSUME NEW s \in SUBSET T, s # T  PROVE Sums(H(s), f, s)
  <2>1. \E h : Sums(h, f, s)  BY <1>2, <1>3
  <2> QED  BY <2>1
<1>4. ASSUME NEW s \in SUBSET T, s # {}  PROVE g[RestOf(s)] = H(RestOf(s))[RestOf(s)]
  <2> DEFINE r == RestOf(s)
  <2>1. r \in SUBSET T /\ r # T  BY <1>4, FirstMember
  <2>2. Sums(H(r), f, r)  BY <1>3, <2>1
  <2> HIDE DEF r, H
  <2>3. H(r)[r] = IF r = {} THEN 0 ELSE f[FirstOf(r)] + H(r)[RestOf(r)]
    BY <2>2, SumsValue
  <2>4. CASE r = {}  BY <2>1, <2>3, <2>4 DEF r
  <2>5. CASE r # {}
    <3>1. RestOf(r) \in SUBSET r /\ RestOf(r) \in SUBSET T /\ RestOf(r) # T
      BY <2>1, <2>5, FirstMember
    <3>2. Sums(H(RestOf(r)), f, RestOf(r))  BY <1>3, <3>1
    <3>3. IsFiniteSet(r)  BY <2>1, FS_Subset
    <3>4. H(r)[RestOf(r)] = H(RestOf(r))[RestOf(r)]  BY <2>2, <3>1, <3>2, <3>3, SumsUnique
    <3>5. g[r] = f[FirstOf(r)] + H(RestOf(r))[RestOf(r)]  BY <2>1, <2>5
    <3>6. QED  BY <2>3, <2>5, <3>4, <3>5 DEF r
  <2>6. QED  BY <2>4, <2>5
<1>5. Sums(g, f, T)
  <2> HIDE DEF H
  <2>1. ASSUME NEW s \in SUBSET T
        PROVE  (IF s = {} THEN 0 ELSE f[FirstOf(s)] + H(RestOf(s))[RestOf(s)])
                 = (IF s = {} THEN 0 ELSE f[FirstOf(s)] + g[RestOf(s)])
    <3> HIDE DEF g
    <3> QED  BY <1>4
  <2>2. g = [s \in SUBSET T |-> IF s = {} THEN 0 ELSE f[FirstOf(s)] + g[RestOf(s)]]
    BY <2>1
  <2> QED  BY <2>2 DEF Sums
<1>6. QED  BY <1>5

\* The sum of f over S is the entry of S in the table of S.
LEMMA SumIsSums ==
    ASSUME NEW f, NEW S
    PROVE  SumFunctionOnSet(f, S) = (CHOOSE h : Sums(h, f, S))[S]
  BY Zenon DEF SumFunctionOnSet, FoldFunctionOnSet, MapThenFoldSet, Sums, FirstOf, RestOf

-----------------------------------------------------------------------------
(* Sums *)

\* The sum over no member is zero.
LEMMA SumEmpty ==
    ASSUME NEW f
    PROVE  SumFunctionOnSet(f, {}) = 0
<1>1. IsFiniteSet({})  BY FS_EmptySet
<1>2. Sums(CHOOSE h : Sums(h, f, {}), f, {})  BY <1>1, SumsExist
<1>3. QED  BY <1>2, SumsValue, SumIsSums

\* A sum is its first term and the sum of the rest.
LEMMA SumFirst ==
    ASSUME NEW f, NEW S, IsFiniteSet(S), S # {}
    PROVE  SumFunctionOnSet(f, S) = f[FirstOf(S)] + SumFunctionOnSet(f, RestOf(S))
<1> DEFINE H(s) == CHOOSE h : Sums(h, f, s)
<1>1. Sums(H(S), f, S)  BY SumsExist
<1>2. RestOf(S) \in SUBSET S  BY FirstMember
<1>3. Sums(H(RestOf(S)), f, RestOf(S))  BY <1>2, SumsExist, FS_Subset
<1>4. SumFunctionOnSet(f, S) = H(S)[S]  BY SumIsSums
<1>5. SumFunctionOnSet(f, RestOf(S)) = H(RestOf(S))[RestOf(S)]  BY SumIsSums
<1> HIDE DEF H
<1>6. H(S)[S] = f[FirstOf(S)] + H(S)[RestOf(S)]  BY <1>1, SumsValue
<1>7. H(S)[RestOf(S)] = H(RestOf(S))[RestOf(S)]  BY <1>1, <1>2, <1>3, SumsUnique
<1>8. QED  BY <1>4, <1>5, <1>6, <1>7

\* A sum of whole numbers is a whole number.
LEMMA SumInt ==
    ASSUME NEW f, NEW S, IsFiniteSet(S), \A x \in S : f[x] \in Int
    PROVE  SumFunctionOnSet(f, S) \in Int
<1> DEFINE F == {s \in SUBSET S : SumFunctionOnSet(f, s) \notin Int}
<1> SUFFICES ASSUME F # {} PROVE FALSE  OBVIOUS
<1>1. PICK m \in F : \A t \in F : t \subseteq m => t = m
  <2>1. F \in SUBSET SUBSET S  OBVIOUS
  <2> HIDE DEF F
  <2> QED  BY <2>1, LeastMember
<1>2. m # {}  BY SumEmpty
<1>3. FirstOf(m) \in m /\ RestOf(m) \subseteq m /\ RestOf(m) # m  BY <1>2, FirstMember
<1>4. SumFunctionOnSet(f, RestOf(m)) \in Int  BY <1>1, <1>3
<1>5. IsFiniteSet(m)  BY FS_Subset
<1>6. SumFunctionOnSet(f, m) = f[FirstOf(m)] + SumFunctionOnSet(f, RestOf(m))
  BY <1>2, <1>5, SumFirst
<1>7. QED  BY <1>3, <1>4, <1>6

\* The order of a sum does not matter: any member may be taken first.
LEMMA SumRemove ==
    ASSUME NEW f, NEW S, IsFiniteSet(S), \A x \in S : f[x] \in Int
    PROVE  \A e \in S :
              SumFunctionOnSet(f, S) = f[e] + SumFunctionOnSet(f, S \ {e})
<1> DEFINE Good(s) == \A e \in s :
                SumFunctionOnSet(f, s) = f[e] + SumFunctionOnSet(f, s \ {e})
           F == {s \in SUBSET S : ~Good(s)}
<1> SUFFICES ASSUME F # {} PROVE FALSE  OBVIOUS
<1>1. PICK m \in F : \A t \in F : t \subseteq m => t = m
  <2>1. F \in SUBSET SUBSET S  OBVIOUS
  <2> HIDE DEF F
  <2> QED  BY <2>1, LeastMember
<1>2. ASSUME NEW t \in SUBSET S, t \subseteq m, t # m  PROVE Good(t)
  <2> HIDE DEF Good
  <2> QED  BY <1>1, <1>2
<1>3. SUFFICES ASSUME NEW e \in m
               PROVE  SumFunctionOnSet(f, m) = f[e] + SumFunctionOnSet(f, m \ {e})
  OBVIOUS
<1> DEFINE a == FirstOf(m)
           n == m \ {e}
<1>4. m # {} /\ m \subseteq S /\ IsFiniteSet(m)  BY FS_Subset
<1>5. a \in m /\ RestOf(m) = m \ {a}  BY <1>4, FirstMember DEF RestOf
<1>6. SumFunctionOnSet(f, m) = f[a] + SumFunctionOnSet(f, m \ {a})
  BY <1>4, <1>5, SumFirst
<1> HIDE DEF a, F
<1>7. CASE a = e  BY <1>6, <1>7
<1>8. CASE a # e
  <2>1. m \ {a} \in SUBSET S /\ m \ {a} # m /\ e \in m \ {a}  BY <1>4, <1>5, <1>8
  <2>2. n \in SUBSET S /\ n # m /\ a \in n /\ n \subseteq m  BY <1>4, <1>5, <1>8
  <2>3. SumFunctionOnSet(f, m \ {a})
          = f[e] + SumFunctionOnSet(f, (m \ {a}) \ {e})
    BY <1>2, <2>1
  <2>4. SumFunctionOnSet(f, n) = f[a] + SumFunctionOnSet(f, n \ {a})  BY <1>2, <2>2
  <2>5. n \ {a} = (m \ {a}) \ {e}  OBVIOUS
  <2>6. n \ {a} \subseteq S /\ IsFiniteSet(n \ {a})  BY <2>2, <1>4, FS_Subset
  <2>7. SumFunctionOnSet(f, n \ {a}) \in Int  BY <2>6, SumInt
  <2>8. f[a] \in Int /\ f[e] \in Int  BY <1>4, <1>5
  <2> HIDE DEF n
  <2>9. SumFunctionOnSet(f, m) = f[a] + (f[e] + SumFunctionOnSet(f, n \ {a}))
    BY <1>6, <2>3, <2>5
  <2>10. QED  BY <2>4, <2>7, <2>8, <2>9 DEF n
<1>9. QED  BY <1>7, <1>8

\* One more member adds its value.
LEMMA SumInsert ==
    ASSUME NEW f, NEW S, IsFiniteSet(S), NEW e, e \notin S,
           \A x \in S \cup {e} : f[x] \in Int
    PROVE  SumFunctionOnSet(f, S \cup {e}) = f[e] + SumFunctionOnSet(f, S)
<1>1. IsFiniteSet(S \cup {e}) /\ e \in S \cup {e} /\ (S \cup {e}) \ {e} = S
  BY FS_AddElement
<1>2. QED  BY <1>1, SumRemove

\* The sum over one member is its entry.
LEMMA SumSingle ==
    ASSUME NEW f, NEW e, f[e] \in Int
    PROVE  SumFunctionOnSet(f, {e}) = f[e]
<1>1. {} \cup {e} = {e}  OBVIOUS
<1>2. IsFiniteSet({}) /\ e \notin {} /\ \A x \in {} \cup {e} : f[x] \in Int
  BY FS_EmptySet
<1>3. SumFunctionOnSet(f, {} \cup {e}) = f[e] + SumFunctionOnSet(f, {})
  BY <1>2, SumInsert
<1>4. QED  BY <1>1, <1>3, SumEmpty

\* A set of numbers that is not empty has a least one.
LEMMA LeastNatural ==
    ASSUME NEW S \in SUBSET Nat, S # {}
    PROVE  \E m \in S : \A x \in S : m <= x
<1> DEFINE R == OpToRel(<, Nat)
<1>1. IsWellFoundedOn(R, Nat)  BY NatLessThanWellFounded, Zenon
<1>2. \A x \in Nat : \A y \in Nat : x < y => <<x, y>> \in R  BY Zenon DEF OpToRel
<1> HIDE DEF R
<1>3. PICK m \in S : \A x \in S : ~(<<x, m>> \in R)  BY <1>1, WFMin
<1>4. \A x \in S : ~(x < m)  BY <1>2, <1>3
<1>5. QED  BY <1>4

\* A sum depends on the values of its members only.
LEMMA SumSame ==
    ASSUME NEW f, NEW g, NEW S, IsFiniteSet(S), \A x \in S : f[x] = g[x]
    PROVE  SumFunctionOnSet(f, S) = SumFunctionOnSet(g, S)
<1> DEFINE F == {s \in SUBSET S : SumFunctionOnSet(f, s) # SumFunctionOnSet(g, s)}
<1> SUFFICES ASSUME F # {} PROVE FALSE  OBVIOUS
<1>1. PICK m \in F : \A t \in F : t \subseteq m => t = m
  <2>1. F \in SUBSET SUBSET S  OBVIOUS
  <2> HIDE DEF F
  <2> QED  BY <2>1, LeastMember
<1>2. m # {}  BY SumEmpty
<1>3. FirstOf(m) \in m /\ RestOf(m) \subseteq m /\ RestOf(m) # m  BY <1>2, FirstMember
<1>4. SumFunctionOnSet(f, RestOf(m)) = SumFunctionOnSet(g, RestOf(m))  BY <1>1, <1>3
<1>5. IsFiniteSet(m)  BY FS_Subset
<1>6. SumFunctionOnSet(f, m) = f[FirstOf(m)] + SumFunctionOnSet(f, RestOf(m))
  BY <1>2, <1>5, SumFirst
<1>7. SumFunctionOnSet(g, m) = g[FirstOf(m)] + SumFunctionOnSet(g, RestOf(m))
  BY <1>2, <1>5, SumFirst
<1>8. QED  BY <1>3, <1>4, <1>6, <1>7

\* A sum of values that are not negative is not negative.
LEMMA SumNat ==
    ASSUME NEW f, NEW S, IsFiniteSet(S), \A x \in S : f[x] \in Nat
    PROVE  SumFunctionOnSet(f, S) \in Nat
<1> DEFINE F == {s \in SUBSET S : SumFunctionOnSet(f, s) \notin Nat}
<1> SUFFICES ASSUME F # {} PROVE FALSE  OBVIOUS
<1>1. PICK m \in F : \A t \in F : t \subseteq m => t = m
  <2>1. F \in SUBSET SUBSET S  OBVIOUS
  <2> HIDE DEF F
  <2> QED  BY <2>1, LeastMember
<1>2. m # {}  BY SumEmpty
<1>3. FirstOf(m) \in m /\ RestOf(m) \subseteq m /\ RestOf(m) # m  BY <1>2, FirstMember
<1>4. SumFunctionOnSet(f, RestOf(m)) \in Nat  BY <1>1, <1>3
<1>5. IsFiniteSet(m)  BY FS_Subset
<1>6. SumFunctionOnSet(f, m) = f[FirstOf(m)] + SumFunctionOnSet(f, RestOf(m))
  BY <1>2, <1>5, SumFirst
<1>7. QED  BY <1>3, <1>4, <1>6

\* The sums over two sets with nothing in common add up.
LEMMA SumUnion ==
    ASSUME NEW f, NEW S, IsFiniteSet(S), NEW T, IsFiniteSet(T), S \cap T = {},
           \A x \in S \cup T : f[x] \in Int
    PROVE  SumFunctionOnSet(f, S \cup T)
             = SumFunctionOnSet(f, S) + SumFunctionOnSet(f, T)
<1> DEFINE F == {s \in SUBSET T : SumFunctionOnSet(f, S \cup s)
                   # SumFunctionOnSet(f, S) + SumFunctionOnSet(f, s)}
<1> SUFFICES ASSUME F # {} PROVE FALSE  OBVIOUS
<1>1. PICK m \in F : \A t \in F : t \subseteq m => t = m
  <2>1. F \in SUBSET SUBSET T  OBVIOUS
  <2> HIDE DEF F
  <2> QED  BY <2>1, LeastMember
<1>2. SumFunctionOnSet(f, S) \in Int  BY SumInt
<1>3. m # {}
  <2> SUFFICES ASSUME m = {} PROVE FALSE  OBVIOUS
  <2>1. S \cup m = S  OBVIOUS
  <2>2. SumFunctionOnSet(f, m) = 0  BY SumEmpty
  <2>3. QED  BY <1>2, <2>1, <2>2
<1>4. PICK e \in m : TRUE  BY <1>3
<1> DEFINE n == m \ {e}
<1>5. n \in SUBSET T /\ n \subseteq m /\ n # m /\ e \notin S /\ e \in T  BY <1>4
<1>6. SumFunctionOnSet(f, S \cup n)
        = SumFunctionOnSet(f, S) + SumFunctionOnSet(f, n)
  BY <1>1, <1>5
<1>7. IsFiniteSet(m) /\ IsFiniteSet(n) /\ IsFiniteSet(S \cup m)
  BY <1>5, FS_Subset, FS_Union
<1>8. SumFunctionOnSet(f, m) = f[e] + SumFunctionOnSet(f, n)
  BY <1>4, <1>7, SumRemove
<1>9. SumFunctionOnSet(f, S \cup m) = f[e] + SumFunctionOnSet(f, S \cup n)
  <2>1. (S \cup m) \ {e} = S \cup n  BY <1>5
  <2>2. \A x \in S \cup m : f[x] \in Int  OBVIOUS
  <2> HIDE DEF n
  <2>3. QED  BY <1>4, <1>7, <2>1, <2>2, SumRemove
<1>10. SumFunctionOnSet(f, n) \in Int /\ f[e] \in Int  BY <1>5, <1>7, SumInt
<1> HIDE DEF n
<1>11. SumFunctionOnSet(f, S \cup m)
         = SumFunctionOnSet(f, S) + SumFunctionOnSet(f, m)
  BY <1>2, <1>6, <1>8, <1>9, <1>10
<1>12. QED  BY <1>11

\* Where two functions differ at one place only, so do their sums.
LEMMA SumUpdate ==
    ASSUME NEW f, NEW g, NEW S, IsFiniteSet(S), NEW e \in S,
           \A x \in S : f[x] \in Int /\ g[x] \in Int,
           \A x \in S \ {e} : g[x] = f[x]
    PROVE  SumFunctionOnSet(g, S) = SumFunctionOnSet(f, S) + g[e] - f[e]
<1> DEFINE n == S \ {e}
<1>1. IsFiniteSet(n) /\ \A x \in n : f[x] = g[x]  BY FS_Subset
<1>2. SumFunctionOnSet(f, n) = SumFunctionOnSet(g, n)  BY <1>1, SumSame
<1>3. SumFunctionOnSet(f, S) = f[e] + SumFunctionOnSet(f, n)  BY SumRemove
<1>4. SumFunctionOnSet(g, S) = g[e] + SumFunctionOnSet(g, n)  BY SumRemove
<1>5. SumFunctionOnSet(f, n) \in Int  BY <1>1, SumInt
<1> HIDE DEF n
<1>6. QED  BY <1>2, <1>3, <1>4, <1>5

\* The sum of differences is the difference of the sums.
LEMMA SumPlus ==
    ASSUME NEW f, NEW g, NEW h, NEW S, IsFiniteSet(S),
           \A x \in S : f[x] \in Int /\ g[x] \in Int,
           \A x \in S : h[x] = f[x] + g[x]
    PROVE  SumFunctionOnSet(h, S)
             = SumFunctionOnSet(f, S) + SumFunctionOnSet(g, S)
<1> DEFINE F == {s \in SUBSET S : SumFunctionOnSet(h, s)
                   # SumFunctionOnSet(f, s) + SumFunctionOnSet(g, s)}
<1> SUFFICES ASSUME F # {} PROVE FALSE  OBVIOUS
<1>1. PICK m \in F : \A t \in F : t \subseteq m => t = m
  <2>1. F \in SUBSET SUBSET S  OBVIOUS
  <2> HIDE DEF F
  <2> QED  BY <2>1, LeastMember
<1>2. m # {}
  <2>1. SumFunctionOnSet(h, {}) = SumFunctionOnSet(f, {}) + SumFunctionOnSet(g, {})
    BY SumEmpty
  <2>2. QED  BY <2>1
<1>3. FirstOf(m) \in m /\ RestOf(m) \subseteq m /\ RestOf(m) # m  BY <1>2, FirstMember
<1>4. SumFunctionOnSet(h, RestOf(m))
        = SumFunctionOnSet(f, RestOf(m)) + SumFunctionOnSet(g, RestOf(m))
  BY <1>1, <1>3
<1>5. IsFiniteSet(m) /\ IsFiniteSet(RestOf(m))  BY <1>3, FS_Subset
<1>6. /\ SumFunctionOnSet(f, m) = f[FirstOf(m)] + SumFunctionOnSet(f, RestOf(m))
      /\ SumFunctionOnSet(g, m) = g[FirstOf(m)] + SumFunctionOnSet(g, RestOf(m))
      /\ SumFunctionOnSet(h, m) = h[FirstOf(m)] + SumFunctionOnSet(h, RestOf(m))
  BY <1>2, <1>5, SumFirst
<1>7. SumFunctionOnSet(f, RestOf(m)) \in Int /\ SumFunctionOnSet(g, RestOf(m)) \in Int
  BY <1>3, <1>5, SumInt
<1>8. FirstOf(m) \in S  BY <1>3
<1>9. SumFunctionOnSet(h, m) = SumFunctionOnSet(f, m) + SumFunctionOnSet(g, m)
  BY <1>4, <1>6, <1>7, <1>8
<1>10. QED  BY <1>9

\* A sum of nothings is nothing.
LEMMA SumZero ==
    ASSUME NEW f, NEW S, IsFiniteSet(S), \A x \in S : f[x] = 0
    PROVE  SumFunctionOnSet(f, S) = 0
<1>1. \A x \in S : f[x] \in Int /\ f[x] = f[x] + f[x]  OBVIOUS
<1>2. SumFunctionOnSet(f, S) \in Int  BY <1>1, SumInt
<1>3. SumFunctionOnSet(f, S) = SumFunctionOnSet(f, S) + SumFunctionOnSet(f, S)
  BY <1>1, SumPlus
<1>4. QED  BY <1>2, <1>3

\* Members that count for nothing may be left out.
LEMMA SumWithin ==
    ASSUME NEW f, NEW S, IsFiniteSet(S), NEW T \in SUBSET S,
           \A x \in T : f[x] \in Int, \A x \in S \ T : f[x] = 0
    PROVE  SumFunctionOnSet(f, S) = SumFunctionOnSet(f, T)
<1> DEFINE R == S \ T
<1>1. /\ IsFiniteSet(T) /\ IsFiniteSet(R) /\ T \cap R = {} /\ S = T \cup R
      /\ \A x \in T \cup R : f[x] \in Int
  BY FS_Subset
<1>2. SumFunctionOnSet(f, R) = 0  BY <1>1, SumZero
<1>3. SumFunctionOnSet(f, T) \in Int  BY <1>1, SumInt
<1> HIDE DEF R
<1>4. SumFunctionOnSet(f, T \cup R)
        = SumFunctionOnSet(f, T) + SumFunctionOnSet(f, R)
  BY <1>1, SumUnion
<1>5. QED  BY <1>1, <1>2, <1>3, <1>4

\* Fewer members have a smaller sum.
LEMMA SumSubset ==
    ASSUME NEW f, NEW S, IsFiniteSet(S), NEW T \in SUBSET S, \A x \in S : f[x] \in Nat
    PROVE  SumFunctionOnSet(f, T) <= SumFunctionOnSet(f, S)
<1> DEFINE R == S \ T
<1>1. /\ IsFiniteSet(T) /\ IsFiniteSet(R) /\ T \cap R = {} /\ S = T \cup R
      /\ \A x \in T \cup R : f[x] \in Int
      /\ \A x \in T : f[x] \in Nat
      /\ \A x \in R : f[x] \in Nat
  BY FS_Subset
<1>2. SumFunctionOnSet(f, R) \in Nat  BY <1>1, SumNat
<1>3. SumFunctionOnSet(f, T) \in Nat  BY <1>1, SumNat
<1> HIDE DEF R
<1>4. SumFunctionOnSet(f, T \cup R)
        = SumFunctionOnSet(f, T) + SumFunctionOnSet(f, R)
  BY <1>1, SumUnion
<1>5. QED  BY <1>1, <1>2, <1>3, <1>4

\* No member has more than the sum.
LEMMA SumMember ==
    ASSUME NEW f, NEW S, IsFiniteSet(S), \A x \in S : f[x] \in Nat, NEW e \in S
    PROVE  f[e] <= SumFunctionOnSet(f, S)
<1> DEFINE R == S \ {e}
<1>1. IsFiniteSet(R) /\ \A x \in R : f[x] \in Nat  BY FS_Subset
<1>2. SumFunctionOnSet(f, R) \in Nat  BY <1>1, SumNat
<1>3. SumFunctionOnSet(f, S) = f[e] + SumFunctionOnSet(f, R)  BY SumRemove
<1> HIDE DEF R
<1>4. QED  BY <1>2, <1>3

\* Smaller values have a smaller sum.
LEMMA SumLess ==
    ASSUME NEW f, NEW g, NEW S, IsFiniteSet(S),
           \A x \in S : f[x] \in Int /\ g[x] \in Int /\ f[x] <= g[x]
    PROVE  SumFunctionOnSet(f, S) <= SumFunctionOnSet(g, S)
<1> DEFINE d == [x \in S |-> g[x] - f[x]]
<1>1. \A x \in S : d[x] \in Nat /\ g[x] = f[x] + d[x]  OBVIOUS
<1>2. \A x \in S : f[x] \in Int /\ d[x] \in Int  BY <1>1
<1> HIDE DEF d
<1>3. SumFunctionOnSet(d, S) \in Nat  BY <1>1, SumNat
<1>4. SumFunctionOnSet(g, S) = SumFunctionOnSet(f, S) + SumFunctionOnSet(d, S)
  BY <1>1, <1>2, SumPlus
<1>5. SumFunctionOnSet(f, S) \in Int  BY SumInt
<1>6. QED  BY <1>3, <1>4, <1>5

-----------------------------------------------------------------------------
(* The places of a sequence, which a fold takes from the last to the first *)

\* All but the last of a set of places.
But(D) == D \ {Max(D)}

\* The places of a sequence, or some of them.
PlaceSet(S) == \E n \in Nat : S \subseteq 1..n

\* There are finitely many of them, and a last one.
LEMMA SomePlaces ==
    ASSUME NEW S, PlaceSet(S), NEW D \in SUBSET S
    PROVE  PlaceSet(D) /\ IsFiniteSet(D)
<1>1. PICK n \in Nat : S \subseteq 1..n  BY DEF PlaceSet
<1>2. IsFiniteSet(1..n)  BY <1>1, FS_Interval
<1>3. D \subseteq 1..n  BY <1>1
<1>4. IsFiniteSet(D)  BY <1>2, <1>3, FS_Subset
<1>5. QED  BY <1>1, <1>3, <1>4 DEF PlaceSet

\* The last place is taken off a set of places that is not empty.
LEMMA LastPlace ==
    ASSUME NEW D, PlaceSet(D), D # {}
    PROVE  Max(D) \in D /\ But(D) \subseteq D /\ But(D) # D
<1>0. PICK n \in Nat : D \subseteq 1..n  BY DEF PlaceSet
<1> DEFINE U == {k \in Nat : \A y \in D : k >= y}
<1>1. n \in U  BY <1>0
<1>2. PICK m \in U : \A k \in U : m =< k
  <2> HIDE DEF U
  <2>1. U \subseteq Nat  BY DEF U
  <2> QED  BY <1>1, <2>1, LeastNatural
<1>3. m \in D
  <2> SUFFICES ASSUME m \notin D PROVE FALSE  OBVIOUS
  <2>1. m \in Nat /\ \A y \in D : y \in Nat /\ y >= 1 /\ m >= y /\ m # y  BY <1>0, <1>2
  <2>2. PICK y \in D : TRUE  OBVIOUS
  <2>3. m - 1 \in Nat /\ ~(m =< m - 1)  BY <2>1, <2>2
  <2>4. \A x \in D : m - 1 >= x  BY <2>1
  <2>5. m - 1 \in U  BY <2>3, <2>4
  <2>6. QED  BY <1>2, <2>3, <2>5
<1>4. \A y \in D : m >= y  BY <1>2
<1>5. Max(D) \in D  BY <1>3, <1>4 DEF Max
<1>6. QED  BY <1>5 DEF But
=============================================================================
