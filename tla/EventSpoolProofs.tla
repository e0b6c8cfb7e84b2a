--------------------------- MODULE EventSpoolProofs ---------------------------
(***************************************************************************)
(* Proofs about EventSpool.  SumFunction, by which the limit on bytes is   *)
(* stated, is a recursive function over sets: the facts about it are       *)
(* proved first, by induction from the well-foundedness of strict subsets. *)
(***************************************************************************)
EXTENDS EventSpool, FiniteSetTheorems, WellFoundedInduction, TLAPS

-----------------------------------------------------------------------------
(* Least elements, and induction over finite sets, stated with sets instead  *)
(* of operators                                                            *)

LEMMA LeastNumber ==
  ASSUME NEW B \in SUBSET Nat, B # {}
  PROVE  \E n \in B : \A m \in B : n <= m
<1> DEFINE T == {0..n : n \in B}
<1>1. T \subseteq FiniteSubsetsOf(Nat)
  <2>1. ASSUME NEW n \in B PROVE 0..n \in FiniteSubsetsOf(Nat)
    <3>1. IsFiniteSet(0..n)
      BY FS_Interval
    <3> QED BY <3>1 DEF FiniteSubsetsOf
  <2> QED BY <2>1
<1>2. T # {}
  OBVIOUS
<1>3. IsWellFoundedOn(StrictSubsetOrdering(Nat), FiniteSubsetsOf(Nat))
  BY FS_StrictSubsetOrderingWellFounded
<1>4. PICK x \in T : \A y \in T : <<y, x>> \notin StrictSubsetOrdering(Nat)
  <2> HIDE DEF T
  <2> QED BY <1>1, <1>2, <1>3, WFMin
<1>5. PICK n \in B : x = 0..n
  BY <1>4
<1>6. ASSUME NEW m \in B, m < n PROVE FALSE
  <2>1. 0..m \subseteq x /\ n \in x /\ n \notin 0..m
    BY <1>5, <1>6
  <2>2. <<0..m, x>> \in StrictSubsetOrdering(Nat)
    BY <1>5, <2>1 DEF StrictSubsetOrdering
  <2> QED BY <1>4, <2>2
<1>7. \A m \in B : n <= m
  BY <1>6
<1> QED BY <1>7

LEMMA FiniteInduction ==
  ASSUME NEW I, IsFiniteSet(I), NEW G,
         \A s \in SUBSET I : (\A t \in SUBSET s : t # s => t \in G) => s \in G
  PROVE  SUBSET I \subseteq G
<1> DEFINE B == (SUBSET I) \ G
<1>1. SUFFICES ASSUME B # {} PROVE FALSE
  OBVIOUS
<1>2. IsWellFoundedOn(StrictSubsetOrdering(I), SUBSET I)
  BY FS_StrictSubsetOrderingWellFounded, FS_FiniteSubsetsOfFinite
<1>3. PICK s \in B : \A t \in B : <<t, s>> \notin StrictSubsetOrdering(I)
  <2>1. B \subseteq SUBSET I
    OBVIOUS
  <2> HIDE DEF B
  <2> QED BY <1>1, <1>2, <2>1, WFMin
<1>4. ASSUME NEW t \in SUBSET s, t # s PROVE t \in G
  BY <1>3, <1>4 DEF StrictSubsetOrdering
<1>5. s \in SUBSET I /\ s \notin G
  BY <1>3
<1>6. \A t \in SUBSET s : t # s => t \in G
  BY <1>4
<1> QED BY <1>5, <1>6

-----------------------------------------------------------------------------
(* Sums over finite sets *)

Pick(s) == CHOOSE x \in s : TRUE
(* f is the table, for the sets in T, from which SumFunctionOnSet is read *)
Sums(w, T, f) ==
  f = [s \in T |-> IF s = {} THEN 0 ELSE w[Pick(s)] + f[s \ {Pick(s)}]]

LEMMA SumUnfolds ==
  ASSUME NEW w, NEW I
  PROVE  SumFunctionOnSet(w, I) = (CHOOSE f : Sums(w, SUBSET I, f))[I]
BY DEF SumFunctionOnSet, FoldFunctionOnSet, MapThenFoldSet, Sums, Pick

LEMMA PickIn == \A s : s # {} => Pick(s) \in s
BY DEF Pick

(* There is a table for every finite set: level by level of cardinality *)
LEMMA TableExists ==
  ASSUME NEW w, NEW I, IsFiniteSet(I)
  PROVE  \E f : Sums(w, SUBSET I, f)
<1> DEFINE Level(n) == {s \in SUBSET I : Cardinality(s) <= n}
           B == {n \in Nat : ~ \E f : Sums(w, Level(n), f)}
<1>0. \A s \in SUBSET I : IsFiniteSet(s) /\ Cardinality(s) \in Nat
  BY FS_Subset, FS_CardinalityType
<1>1. B = {}
  <2>1. SUFFICES ASSUME B # {} PROVE FALSE
    OBVIOUS
  <2>2. PICK n \in B : \A m \in B : n <= m
    <3> B \in SUBSET Nat
      OBVIOUS
    <3> HIDE DEF B
    <3> QED BY <2>1, LeastNumber
  <2>3. CASE n = 0
    <3>1. \A s \in Level(0) : s = {}
      BY <1>0, FS_EmptySet
    <3>2. Sums(w, Level(0), [s \in Level(0) |-> 0])
      BY <3>1 DEF Sums
    <3> QED BY <2>2, <2>3, <3>2
  <2>4. CASE n # 0
    <3>1. PICK m \in Nat : n = m + 1
      BY <2>2, <2>4
    <3>2. PICK f : Sums(w, Level(m), f)
      <4>1. m \notin B
        <5> HIDE DEF B
        <5>1. ~(n <= m)
          BY <3>1
        <5> QED BY <2>2, <5>1
      <4> HIDE DEF Level
      <4> QED BY <3>1, <4>1
    <3> DEFINE g == [s \in Level(n) |->
                       IF s = {} THEN 0 ELSE w[Pick(s)] + f[s \ {Pick(s)}]]
    <3>3. ASSUME NEW s \in Level(n), s # {} PROVE g[s \ {Pick(s)}] = f[s \ {Pick(s)}]
      <4>1. PICK u : u = s \ {Pick(s)}
        OBVIOUS
      <4>2. u \in Level(m)
        <5>1. Cardinality(u) = Cardinality(s) - 1
          BY <1>0, <3>3, <4>1, PickIn, FS_RemoveElement
        <5>2. Cardinality(s) \in Nat /\ Cardinality(s) <= m + 1 /\ u \in SUBSET I
          BY <1>0, <3>1, <3>3, <4>1
        <5> QED BY <5>1, <5>2
      <4>3. u \in Level(n)
        BY <1>0, <3>1, <4>2
      <4>4. f[u] = IF u = {} THEN 0 ELSE w[Pick(u)] + f[u \ {Pick(u)}]
        BY <3>2, <4>2 DEF Sums
      <4>5. g[u] = IF u = {} THEN 0 ELSE w[Pick(u)] + f[u \ {Pick(u)}]
        BY <4>3
      <4> QED BY <4>1, <4>4, <4>5
    <3>4. Sums(w, Level(n), g)
      BY <3>3 DEF Sums
    <3> QED BY <2>2, <3>4
  <2> QED BY <2>3, <2>4
<1>2. PICK n \in Nat : n = Cardinality(I)
  BY FS_CardinalityType
<1>3. SUBSET I = Level(n)
  BY <1>2, FS_Subset
<1>4. \E f : Sums(w, Level(n), f)
  BY <1>1, <1>2
<1> QED BY <1>3, <1>4

(* A table reads the same whatever larger set it was made for *)
LEMMA TablesAgree ==
  ASSUME NEW w, NEW I, IsFiniteSet(I), NEW J \in SUBSET I, NEW f, NEW g,
         Sums(w, SUBSET I, f), Sums(w, SUBSET J, g)
  PROVE  f[J] = g[J]
<1> DEFINE G == {s \in SUBSET J : f[s] = g[s]}
<1>1. ASSUME NEW s \in SUBSET J, \A t \in SUBSET s : t # s => t \in G
      PROVE  s \in G
  <2>1. s \in SUBSET I
    OBVIOUS
  <2>2. f[s] = IF s = {} THEN 0 ELSE w[Pick(s)] + f[s \ {Pick(s)}]
    BY <2>1 DEF Sums
  <2>3. g[s] = IF s = {} THEN 0 ELSE w[Pick(s)] + g[s \ {Pick(s)}]
    BY DEF Sums
  <2>4. s # {} => f[s \ {Pick(s)}] = g[s \ {Pick(s)}]
    BY <1>1, PickIn
  <2> QED BY <2>2, <2>3, <2>4
<1>2. IsFiniteSet(J)
  BY FS_Subset
<1>3. SUBSET J \subseteq G
  <2> HIDE DEF G
  <2> QED BY <1>1, <1>2, FiniteInduction
<1> QED BY <1>3

LEMMA SumSteps ==
  ASSUME NEW w, NEW I, IsFiniteSet(I)
  PROVE  SumFunctionOnSet(w, I) =
           IF I = {} THEN 0 ELSE w[Pick(I)] + SumFunctionOnSet(w, I \ {Pick(I)})
<1>1. PICK f : f = CHOOSE table : Sums(w, SUBSET I, table)
  OBVIOUS
<1>2. Sums(w, SUBSET I, f)
  BY <1>1, TableExists
<1>3. SumFunctionOnSet(w, I) = f[I]
  BY <1>1, SumUnfolds
<1>4. f[I] = IF I = {} THEN 0 ELSE w[Pick(I)] + f[I \ {Pick(I)}]
  BY <1>2 DEF Sums
<1>5. I # {} => f[I \ {Pick(I)}] = SumFunctionOnSet(w, I \ {Pick(I)})
  <2>1. PICK J \in SUBSET I : J = I \ {Pick(I)}
    OBVIOUS
  <2>2. IsFiniteSet(J)
    BY FS_Subset
  <2>3. PICK g : g = CHOOSE table : Sums(w, SUBSET J, table)
    OBVIOUS
  <2>4. Sums(w, SUBSET J, g)
    BY <2>2, <2>3, TableExists
  <2>5. SumFunctionOnSet(w, J) = g[J]
    BY <2>3, SumUnfolds
  <2>6. f[J] = g[J]
    BY <1>2, <2>4, TablesAgree
  <2> QED BY <2>1, <2>5, <2>6
<1> QED BY <1>3, <1>4, <1>5

(* The order does not matter: any element may be taken first *)
LEMMA SumTakes ==
  ASSUME NEW I, IsFiniteSet(I), NEW w, \A x \in I : w[x] \in Nat
  PROVE  /\ SumFunctionOnSet(w, I) \in Nat
         /\ \A x \in I : SumFunctionOnSet(w, I) = w[x] + SumFunctionOnSet(w, I \ {x})
<1> DEFINE S(s) == SumFunctionOnSet(w, s)
           G == {s \in SUBSET I : S(s) \in Nat /\ \A x \in s : S(s) = w[x] + S(s \ {x})}
<1>1. ASSUME NEW s \in SUBSET I, \A t \in SUBSET s : t # s => t \in G
      PROVE  s \in G
  <2>1. S(s) = IF s = {} THEN 0 ELSE w[Pick(s)] + S(s \ {Pick(s)})
    BY FS_Subset, SumSteps
  <2>2. CASE s = {}
    BY <2>1, <2>2
  <2>3. CASE s # {}
    <3>1. PICK p \in s : p = Pick(s)
      BY <2>3, PickIn
    <3>2. S(s) = w[p] + S(s \ {p})
      BY <2>1, <2>3, <3>1
    <3>3. \A x \in s : s \ {x} \in G /\ w[x] \in Nat /\ S(s \ {x}) \in Nat
      BY <1>1
    <3>4. ASSUME NEW x \in s, x # p PROVE S(s) = w[x] + S(s \ {x})
      <4>1. PICK u : u = (s \ {p}) \ {x} /\ u = (s \ {x}) \ {p}
        OBVIOUS
      <4>2. u \in G
        BY <1>1, <3>4, <4>1
      <4>3. S(s \ {p}) = w[x] + S(u)
        BY <3>3, <3>4, <4>1
      <4>4. S(s \ {x}) = w[p] + S(u)
        BY <3>3, <3>4, <4>1
      <4>5. S(u) \in Nat /\ w[x] \in Nat /\ w[p] \in Nat
        BY <3>3, <4>2
      <4> HIDE DEF S, G
      <4> QED BY <3>2, <4>3, <4>4, <4>5
    <3>5. S(s) \in Nat
      <4>1. w[p] \in Nat /\ S(s \ {p}) \in Nat
        BY <3>3
      <4> HIDE DEF S, G
      <4> QED BY <3>2, <4>1
    <3> QED BY <3>2, <3>4, <3>5
  <2> QED BY <2>2, <2>3
<1>2. SUBSET I \subseteq G
  <2> HIDE DEF G
  <2> QED BY <1>1, FiniteInduction
<1> QED BY <1>2

(* Fewer things, of no more each, do not sum to more *)
LEMMA SumGrows ==
  ASSUME NEW I, IsFiniteSet(I), NEW J \in SUBSET I, NEW w, NEW v,
         \A x \in I : v[x] \in Nat, \A x \in J : w[x] \in Nat /\ w[x] <= v[x]
  PROVE  SumFunctionOnSet(w, J) <= SumFunctionOnSet(v, I)
<1> DEFINE W(s) == SumFunctionOnSet(w, s \cap J)
           V(s) == SumFunctionOnSet(v, s)
           G == {s \in SUBSET I : W(s) <= V(s)}
<1>1. ASSUME NEW s \in SUBSET I, \A t \in SUBSET s : t # s => t \in G
      PROVE  s \in G
  <2>1. CASE s = {}
    <3>1. s \cap J = {} /\ W(s) = 0 /\ V(s) = 0
      BY <2>1, SumSteps, FS_EmptySet
    <3> QED BY <3>1
  <2>2. CASE s # {}
    <3>1. PICK x \in s : TRUE
      BY <2>2
    <3>2. IsFiniteSet(s) /\ IsFiniteSet(s \cap J) /\ IsFiniteSet(s \ {x})
      BY FS_Subset
    <3>3. V(s) = v[x] + V(s \ {x}) /\ V(s \ {x}) \in Nat /\ v[x] \in Nat
      <4>1. \A y \in s : v[y] \in Nat
        OBVIOUS
      <4>2. V(s) = v[x] + V(s \ {x})
        BY <3>2, <4>1, SumTakes
      <4>3. V(s \ {x}) \in Nat
        BY <3>2, <4>1, SumTakes
      <4> QED BY <4>1, <4>2, <4>3
    <3>4. W(s \ {x}) <= V(s \ {x}) /\ W(s \ {x}) \in Nat
      <4>1. s \ {x} \in G
        BY <1>1
      <4>2. IsFiniteSet((s \ {x}) \cap J) /\ \A y \in (s \ {x}) \cap J : w[y] \in Nat
        BY <3>2, FS_Subset
      <4> QED BY <4>1, <4>2, SumTakes
    <3>5. CASE x \in J
      <4>1. (s \cap J) \ {x} = (s \ {x}) \cap J /\ x \in s \cap J
        BY <3>5
      <4>2. W(s) = w[x] + W(s \ {x})
        BY <3>2, <4>1, SumTakes
      <4>3. w[x] \in Nat /\ w[x] <= v[x]
        BY <3>5
      <4>4. W(s) <= V(s)
        <5> HIDE DEF W, V
        <5> QED BY <3>3, <3>4, <4>2, <4>3
      <4> QED BY <4>4
    <3>6. CASE x \notin J
      <4>1. s \cap J = (s \ {x}) \cap J
        BY <3>6
      <4>2. W(s) = W(s \ {x})
        BY <4>1
      <4>3. W(s) <= V(s)
        <5> HIDE DEF W, V
        <5> QED BY <3>3, <3>4, <4>2
      <4> QED BY <4>3
    <3> QED BY <3>5, <3>6
  <2> QED BY <2>1, <2>2
<1>2. SUBSET I \subseteq G
  <2> HIDE DEF G
  <2> QED BY <1>1, FiniteInduction
<1>3. I \cap J = J /\ I \in G
  BY <1>2
<1> QED BY <1>3

-----------------------------------------------------------------------------
(* Types *)

LEMMA LeastIn == \A S \in SUBSET Files : S # {} => Least(S) \in S
<1>1. SUFFICES ASSUME NEW S \in SUBSET Files, S # {} PROVE Least(S) \in S
  OBVIOUS
<1>2. S \in SUBSET Nat
  BY SpoolAssumption DEF SpoolAssumption, Files
<1>3. \E n \in S : \A m \in S : n <= m
  BY <1>1, <1>2, LeastNumber
<1> QED BY <1>3 DEF Least

PersistOK(ps, names) ==
  /\ ps \in [Processes -> [at : {"idle", "create", "list", "limit"},
                           file : names \cup {0}, listed : Listings]]
  /\ \A p \in Processes : /\ ps[p].at = "idle" <=> ps[p].file = 0
                          /\ ps[p].at = "limit" => DOMAIN ps[p].listed # {}
DrainOK(ds, names) ==
  /\ ds \in [Processes -> [at : {"idle", "next", "discard", "deliver", "remove"},
                           listed : SUBSET names]]
  /\ \A p \in Processes : ds[p].at = "idle" <=> ds[p].listed = {}

LEMMA NoFilesListed == NoFiles \in Listings /\ DOMAIN NoFiles = {}
<1>1. NoFiles \in [{} -> Sizes] /\ {} \in SUBSET Files
  BY DEF NoFiles
<1> QED BY <1>1 DEF Listings, NoFiles

LEMMA PersistGoes ==
  ASSUME NEW names, NEW ps, PersistOK(ps, names), NEW more, names \subseteq more,
         NEW p \in Processes, NEW at \in {"idle", "create", "list", "limit"},
         NEW file \in more \cup {0}, NEW listed \in Listings,
         at = "idle" <=> file = 0, at = "limit" => DOMAIN listed # {}
  PROVE  PersistOK([ps EXCEPT ![p] = Persisting(at, file, listed)], more)
<1>1. PICK new : new = Persisting(at, file, listed)
  OBVIOUS
<1>2. /\ new \in [at : {"idle", "create", "list", "limit"}, file : more \cup {0}, listed : Listings]
      /\ new.at = at /\ new.file = file /\ new.listed = listed
  BY <1>1 DEF Persisting
<1>3. ps \in [Processes -> [at : {"idle", "create", "list", "limit"},
                            file : more \cup {0}, listed : Listings]]
  BY DEF PersistOK
<1> QED BY <1>1, <1>2, <1>3 DEF PersistOK

LEMMA DrainGoes ==
  ASSUME NEW names, NEW ds, DrainOK(ds, names), NEW p \in Processes,
         NEW at \in {"idle", "next", "discard", "deliver", "remove"},
         NEW listed \in SUBSET names, at = "idle" <=> listed = {}
  PROVE  DrainOK([ds EXCEPT ![p] = [at |-> at, listed |-> listed]], names)
<1>1. PICK new : new = [at |-> at, listed |-> listed]
  OBVIOUS
<1>2. /\ new \in [at : {"idle", "next", "discard", "deliver", "remove"}, listed : SUBSET names]
      /\ new.at = at /\ new.listed = listed
  BY <1>1
<1> QED BY <1>1, <1>2 DEF DrainOK

LEMMA ListingIs ==
  ASSUME TypeOK, NEW names \in SUBSET DOMAIN dir
  PROVE  /\ files_with_sizes(names) \in Listings
         /\ DOMAIN files_with_sizes(names) = names
         /\ \A f \in names :
              files_with_sizes(names)[f] = IF dir[f] THEN SizeOf[f] ELSE 0
<1>1. names \in SUBSET Files
  BY DEF TypeOK
<1>2. files_with_sizes(names) \in [names -> Sizes]
  BY <1>1 DEF files_with_sizes, Sizes
<1> QED BY <1>1, <1>2 DEF Listings, files_with_sizes

LEMMA WithoutIs ==
  ASSUME NEW listed, NEW f
  PROVE  /\ DOMAIN Without(listed, f) = DOMAIN listed \ {f}
         /\ \A g \in DOMAIN listed \ {f} : Without(listed, f)[g] = listed[g]
         /\ listed \in Listings => Without(listed, f) \in Listings
<1>1. /\ DOMAIN Without(listed, f) = DOMAIN listed \ {f}
      /\ \A g \in DOMAIN listed \ {f} : Without(listed, f)[g] = listed[g]
  BY DEF Without
<1>2. ASSUME listed \in Listings PROVE Without(listed, f) \in Listings
  <2>1. PICK names \in SUBSET Files : listed \in [names -> Sizes]
    BY <1>2 DEF Listings
  <2>2. Without(listed, f) \in [names \ {f} -> Sizes]
    BY <2>1 DEF Without
  <2> QED BY <2>2 DEF Listings
<1> QED BY <1>1, <1>2

LEMMA ListedSizes ==
  ASSUME NEW listed \in Listings
  PROVE  /\ DOMAIN listed \in SUBSET Files /\ IsFiniteSet(DOMAIN listed)
         /\ \A f \in DOMAIN listed : listed[f] \in Nat
<1>1. PICK names \in SUBSET Files : listed \in [names -> Sizes]
  BY DEF Listings
<1>2. Sizes \subseteq Nat
  BY SpoolAssumption DEF SpoolAssumption, Sizes
<1>3. IsFiniteSet(Files)
  BY SpoolAssumption, FS_Interval DEF SpoolAssumption, Files
<1>4. IsFiniteSet(names)
  BY <1>3, FS_Subset
<1> QED BY <1>1, <1>2, <1>4

(* Fewer files, of no more bytes each, are not over a limit the others keep *)
LEMMA OverGrows ==
  ASSUME NEW small \in Listings, NEW large \in Listings, DOMAIN small \subseteq DOMAIN large,
         \A f \in DOMAIN small : small[f] <= large[f], Over(small)
  PROVE  Over(large)
<1>1. /\ IsFiniteSet(DOMAIN large) /\ IsFiniteSet(DOMAIN small)
      /\ \A f \in DOMAIN large : large[f] \in Nat
      /\ \A f \in DOMAIN small : small[f] \in Nat
  BY ListedSizes
<1>2. Cardinality(DOMAIN small) <= Cardinality(DOMAIN large)
  BY <1>1, FS_Subset
<1>3. SumFunction(small) <= SumFunction(large)
  BY <1>1, SumGrows DEF SumFunction
<1>4. /\ Cardinality(DOMAIN small) \in Nat /\ Cardinality(DOMAIN large) \in Nat
      /\ SumFunction(small) \in Nat /\ SumFunction(large) \in Nat
  BY <1>1, FS_CardinalityType, SumTakes DEF SumFunction
<1> QED BY <1>2, <1>3, <1>4, SpoolAssumption DEF Over, SpoolAssumption

LEMMA NoneNotOver ==
  ASSUME NEW listed \in Listings, Over(listed)
  PROVE  DOMAIN listed # {}
<1>1. SUFFICES ASSUME DOMAIN listed = {} PROVE FALSE
  OBVIOUS
<1>2. Cardinality(DOMAIN listed) = 0 /\ SumFunction(listed) = 0
  BY <1>1, FS_EmptySet, SumSteps DEF SumFunction
<1> QED BY <1>2, SpoolAssumption DEF Over, SpoolAssumption

DirOK == made \subseteq Files /\ DOMAIN dir \subseteq made /\ dir \in [DOMAIN dir -> BOOLEAN]
RestOK ==
  /\ starts \in 0..MaxStarts /\ faults \in 0..MaxFaults
  /\ promised \cup ended \cup stray \cup exposed \subseteq made
  /\ acked \in [Files -> Nat]

LEMMA TypeParts ==
  TypeOK <=> DirOK /\ PersistOK(persist, made) /\ DrainOK(drain, made) /\ RestOK
BY DEF TypeOK, DirOK, PersistOK, DrainOK, RestOK

LEMMA TypePartsNext ==
  TypeOK' <=> DirOK' /\ PersistOK(persist', made') /\ DrainOK(drain', made') /\ RestOK'
BY DEF TypeOK, DirOK, PersistOK, DrainOK, RestOK

LEMMA FaultCounts ==
  ASSUME TypeOK, Fault \/ UNCHANGED faults
  PROVE  faults' \in 0..MaxFaults
BY SpoolAssumption DEF TypeOK, Fault, SpoolAssumption

(* A file is removed, or stays as it is *)
LEMMA RemoveIs ==
  ASSUME TypeOK, NEW f, Remove(f)
  PROVE  /\ DOMAIN dir \ {f} \subseteq DOMAIN dir' /\ DOMAIN dir' \subseteq DOMAIN dir
         /\ \A g \in DOMAIN dir' : dir'[g] = dir[g]
         /\ dir' \in [DOMAIN dir' -> BOOLEAN]
         /\ faults' \in 0..MaxFaults
<1>1. dir' = Without(dir, f) \/ dir' = dir
  BY DEF Remove
<1>2. faults' \in 0..MaxFaults
  BY FaultCounts DEF Remove
<1>3. CASE dir' = Without(dir, f)
  BY <1>2, <1>3 DEF Without, TypeOK
<1>4. CASE dir' = dir
  BY <1>2, <1>4 DEF TypeOK
<1> QED BY <1>1, <1>3, <1>4

LEMMA DirRemove == ASSUME TypeOK, NEW f, Remove(f), made' = made PROVE DirOK'
BY RemoveIs DEF TypeOK, DirOK

LEMMA ReturnKeepsType ==
  ASSUME TypeOK, NEW p \in Processes, persist[p].at \in {"list", "limit"},
         NEW listed \in Listings, ReturnOrEvict(p, listed)
  PROVE  /\ PersistOK(persist', made) /\ persist[p].file \in made
         /\ promised' \subseteq promised \cup {persist[p].file}
<1>1. PersistOK(persist, made)
  BY TypeParts
<1>2. persist[p].file \in made
  BY DEF TypeOK
<1>3. CASE Over(listed)
  <2>1. persist' = [persist EXCEPT ![p] = Persisting("limit", persist[p].file, listed)]
    BY <1>3 DEF ReturnOrEvict
  <2>2. persist[p].file # 0
    BY DEF TypeOK
  <2>3. PersistOK(persist', made)
    BY <1>1, <1>2, <1>3, <2>1, <2>2, NoneNotOver, PersistGoes
  <2> QED BY <1>2, <1>3, <2>3 DEF ReturnOrEvict
<1>4. CASE ~Over(listed)
  <2>1. persist' = [persist EXCEPT ![p] = Persisting("idle", 0, NoFiles)]
    BY <1>4 DEF ReturnOrEvict, NoPersist
  <2>2. PersistOK(persist', made)
    BY <1>1, <2>1, NoFilesListed, PersistGoes
  <2> QED BY <1>2, <1>4, <2>2 DEF ReturnOrEvict
<1> QED BY <1>3, <1>4

LEMMA CurrentListed ==
  ASSUME TypeOK, NEW p \in Processes, drain[p].at # "idle"
  PROVE  Current(p) \in drain[p].listed /\ Current(p) \in made /\ Current(p) \in Files
<1>1. drain[p].listed \in SUBSET Files /\ drain[p].listed # {} /\ drain[p].listed \subseteq made
  BY DEF TypeOK
<1> QED BY <1>1, LeastIn DEF Current

LEMMA GotoKeepsType ==
  ASSUME TypeOK, NEW p \in Processes, drain[p].at # "idle",
         NEW at \in {"next", "discard", "deliver", "remove"}, Goto(p, at)
  PROVE  DrainOK(drain', made)
<1>1. drain' = [drain EXCEPT ![p] = [at |-> at, listed |-> drain[p].listed]]
  BY DEF Goto
<1>2. drain[p].listed \in SUBSET made /\ drain[p].listed # {} /\ DrainOK(drain, made)
  BY TypeParts DEF TypeOK
<1> QED BY <1>1, <1>2, DrainGoes

LEMMA ReplayKeepsType ==
  ASSUME TypeOK, NEW p \in Processes, NEW listed \in SUBSET made, Replay(p, listed)
  PROVE  DrainOK(drain', made)
<1>1. DrainOK(drain, made)
  BY TypeParts
<1>2. CASE listed = {}
  <2>1. drain' = [drain EXCEPT ![p] = [at |-> "idle", listed |-> {}]]
    BY <1>2 DEF Replay, NoDrain
  <2> QED BY <1>1, <2>1, DrainGoes
<1>3. CASE listed # {}
  <2>1. drain' = [drain EXCEPT ![p] = [at |-> "next", listed |-> listed]]
    BY <1>3 DEF Replay
  <2> QED BY <1>1, <1>3, <2>1, DrainGoes
<1> QED BY <1>2, <1>3

LEMMA PersistStepsKeepType ==
  ASSUME TypeOK, NEW p \in Processes,
         Create(p) \/ Write(p) \/ WriteFails(p) \/ List(p) \/ Evict(p)
  PROVE  TypeOK'
<1>1. PersistOK(persist, made) /\ DrainOK(drain, made) /\ DirOK /\ RestOK
  BY TypeParts
<1>2. CASE Create(p)
  <2>1. PICK f \in Files \ made :
          /\ made' = made \cup {f}
          /\ dir' = [g \in DOMAIN dir \cup {f} |-> IF g = f THEN FALSE ELSE dir[g]]
          /\ persist' = [persist EXCEPT ![p] = Persisting("create", f, NoFiles)]
          /\ UNCHANGED <<drain, starts, faults, history>>
    BY <1>2 DEF Create
  <2>2. f # 0
    BY DEF Files
  <2>3. PersistOK(persist', made')
    BY <1>1, <2>1, <2>2, NoFilesListed, PersistGoes
  <2>4. DirOK' /\ RestOK'
    BY <1>1, <2>1 DEF DirOK, RestOK, history
  <2>5. DrainOK(drain', made')
    BY <1>1, <2>1 DEF DrainOK
  <2> QED BY <2>3, <2>4, <2>5, TypePartsNext
<1>3. CASE Write(p)
  <2>1. persist[p].file \in made \cup {0} /\ persist[p].file # 0
    BY <1>3 DEF Write, TypeOK
  <2>2. PersistOK(persist', made)
    BY <1>1, <1>3, <2>1, NoFilesListed, PersistGoes DEF Write
  <2>3. DirOK' /\ RestOK'
    BY <1>1, <1>3 DEF Write, DirOK, RestOK, history
  <2> QED BY <1>1, <1>3, <2>2, <2>3, TypePartsNext DEF Write
<1>4. CASE WriteFails(p)
  <2>1. persist[p].file \in made
    BY <1>4 DEF WriteFails, TypeOK
  <2>2. PersistOK(persist', made)
    BY <1>1, <1>4, NoFilesListed, PersistGoes DEF WriteFails, NoPersist
  <2>3. DirOK' /\ RestOK'
    BY <1>1, <1>4, <2>1, FaultCounts DEF WriteFails, DirOK, RestOK
  <2> QED BY <1>1, <1>4, <2>2, <2>3, TypePartsNext DEF WriteFails
<1>5. CASE List(p)
  <2>1. files_with_sizes(DOMAIN dir) \in Listings
    BY ListingIs
  <2>2. PersistOK(persist', made) /\ promised' \subseteq promised \cup made
    BY <1>5, <2>1, ReturnKeepsType DEF List
  <2>3. DirOK' /\ RestOK'
    BY <1>1, <1>5, <2>2 DEF List, DirOK, RestOK
  <2> QED BY <1>1, <1>5, <2>2, <2>3, TypePartsNext DEF List
<1>6. CASE Evict(p)
  <2>1. PICK f : f = Least(DOMAIN persist[p].listed)
    OBVIOUS
  <2>2. Without(persist[p].listed, f) \in Listings
    BY WithoutIs DEF TypeOK
  <2>3. PersistOK(persist', made) /\ promised' \subseteq promised \cup made
    BY <1>6, <2>1, <2>2, ReturnKeepsType DEF Evict
  <2>4. DirOK'
    BY <1>6, <2>1, DirRemove DEF Evict
  <2>5. RestOK'
    <3>1. DOMAIN dir' \subseteq DOMAIN dir /\ faults' \in 0..MaxFaults
      BY <1>6, <2>1, RemoveIs DEF Evict
    <3> QED BY <1>1, <1>6, <2>1, <2>3, <3>1 DEF Evict, DirOK, RestOK
  <2> QED BY <1>1, <1>6, <2>3, <2>4, <2>5, TypePartsNext DEF Evict
<1> QED BY <1>2, <1>3, <1>4, <1>5, <1>6

LEMMA DrainStepsKeepType ==
  ASSUME TypeOK, NEW p \in Processes,
         \/ DrainStart(p) \/ Read(p) \/ ReadFails(p) \/ Discard(p)
         \/ Accepted(p) \/ Refused(p) \/ Retryable(p) \/ RemoveReplayed(p)
  PROVE  TypeOK'
<1>1. PersistOK(persist, made) /\ DrainOK(drain, made) /\ DirOK /\ RestOK
  BY TypeParts
<1>2. CASE DrainStart(p)
  <2>1. DrainOK(drain', made)
    BY <1>1, <1>2, ReplayKeepsType DEF DrainStart, DirOK
  <2>2. DirOK' /\ RestOK'
    BY <1>1, <1>2, SpoolAssumption DEF DrainStart, DirOK, RestOK, history, SpoolAssumption
  <2> QED BY <1>1, <1>2, <2>1, <2>2, TypePartsNext DEF DrainStart
<1>3. CASE Read(p)
  <2>1. DrainOK(drain', made) /\ Current(p) \in made
    BY <1>3, GotoKeepsType, CurrentListed DEF Read
  <2>2. DirOK' /\ RestOK'
    BY <1>1, <1>3, <2>1 DEF Read, DirOK, RestOK
  <2> QED BY <1>1, <1>3, <2>1, <2>2, TypePartsNext DEF Read
<1>9. CASE ReadFails(p)
  <2>1. DrainOK(drain', made) /\ Current(p) \in made
    BY <1>9, GotoKeepsType, CurrentListed DEF ReadFails
  <2>2. faults' \in 0..MaxFaults
    BY <1>9, FaultCounts DEF ReadFails
  <2>3. DirOK' /\ RestOK'
    BY <1>1, <1>9, <2>1, <2>2 DEF ReadFails, DirOK, RestOK
  <2> QED BY <1>1, <1>9, <2>1, <2>3, TypePartsNext DEF ReadFails
<1>4. CASE Discard(p)
  <2>1. Rest(p) \in SUBSET made
    BY DEF Rest, TypeOK
  <2>2. DrainOK(drain', made)
    BY <1>4, <2>1, ReplayKeepsType DEF Discard
  <2>3. DirOK' /\ faults' \in 0..MaxFaults
    BY <1>4, DirRemove, RemoveIs DEF Discard
  <2>4. RestOK'
    BY <1>1, <1>4, <2>3 DEF Discard, RestOK, history
  <2> QED BY <1>1, <1>4, <2>2, <2>3, <2>4, TypePartsNext DEF Discard
<1>5. CASE Accepted(p)
  <2>1. DrainOK(drain', made) /\ Current(p) \in Files
    BY <1>5, GotoKeepsType, CurrentListed DEF Accepted
  <2>2. DirOK' /\ RestOK'
    BY <1>1, <1>5, <2>1 DEF Accepted, DirOK, RestOK
  <2> QED BY <1>1, <1>5, <2>1, <2>2, TypePartsNext DEF Accepted
<1>6. CASE Refused(p)
  <2>1. DrainOK(drain', made) /\ Current(p) \in made
    BY <1>6, GotoKeepsType, CurrentListed DEF Refused
  <2>2. DirOK' /\ RestOK'
    BY <1>1, <1>6, <2>1 DEF Refused, DirOK, RestOK
  <2> QED BY <1>1, <1>6, <2>1, <2>2, TypePartsNext DEF Refused
<1>7. CASE Retryable(p)
  <2>1. DrainOK(drain', made)
    BY <1>1, <1>7, DrainGoes DEF Retryable, NoDrain
  <2>2. DirOK' /\ RestOK'
    BY <1>1, <1>7 DEF Retryable, DirOK, RestOK, history
  <2> QED BY <1>1, <1>7, <2>1, <2>2, TypePartsNext DEF Retryable
<1>8. CASE RemoveReplayed(p)
  <2>1. Rest(p) \in SUBSET made
    BY DEF Rest, TypeOK
  <2>2. DrainOK(drain', made)
    BY <1>8, <2>1, ReplayKeepsType DEF RemoveReplayed
  <2>3. /\ DirOK' /\ faults' \in 0..MaxFaults
        /\ DOMAIN dir' \subseteq DOMAIN dir
    BY <1>8, DirRemove, RemoveIs DEF RemoveReplayed
  <2>4. RestOK'
    BY <1>1, <1>8, <2>3 DEF RemoveReplayed, DirOK, RestOK
  <2> QED BY <1>1, <1>8, <2>2, <2>3, <2>4, TypePartsNext DEF RemoveReplayed
<1> QED BY <1>2, <1>3, <1>4, <1>5, <1>6, <1>7, <1>8, <1>9

LEMMA CrashKeepsType ==
  ASSUME TypeOK, NEW p \in Processes, Crash(p)
  PROVE  TypeOK'
<1>1. PersistOK(persist, made) /\ DrainOK(drain, made) /\ DirOK /\ RestOK
  BY TypeParts
<1>2. PersistOK(persist', made)
  BY <1>1, NoFilesListed, PersistGoes DEF Crash, NoPersist
<1>3. DrainOK(drain', made)
  BY <1>1, DrainGoes DEF Crash, NoDrain
<1>4. exposed' \subseteq made /\ faults' \in 0..MaxFaults
  BY <1>1, CurrentListed, FaultCounts DEF Crash, RestOK
<1>5. DirOK' /\ RestOK'
  BY <1>1, <1>4 DEF Crash, DirOK, RestOK
<1> QED BY <1>2, <1>3, <1>5, TypePartsNext DEF Crash

LEMMA TypeInit == Init => TypeOK
BY NoFilesListed, SpoolAssumption
   DEF Init, TypeOK, NoPersist, NoDrain, Persisting, NoFiles, SpoolAssumption

LEMMA TypeStep == TypeOK /\ [Next]_vars => TypeOK'
<1>1. ASSUME TypeOK, Next PROVE TypeOK'
  BY <1>1, PersistStepsKeepType, DrainStepsKeepType, CrashKeepsType DEF Next
<1>2. ASSUME TypeOK, UNCHANGED vars PROVE TypeOK'
  BY <1>2 DEF vars, history, TypeOK
<1> QED BY <1>1, <1>2

(* Every variable keeps its type; a replay under way has a file to go on     *)
(* with, and a persist call that enforces the limits one to remove.        *)
THEOREM TypeCorrect == Spec => []TypeOK
BY TypeInit, TypeStep, PTL DEF Spec

-----------------------------------------------------------------------------
(* PromiseKept *)

(* A file has one persist call, which has not ended *)
Owned ==
  /\ \A p, q \in Processes :
       p # q /\ persist[p].file # 0 => persist[p].file # persist[q].file
  /\ \A p \in Processes : persist[p].file \notin promised

(* An empty file is being written, or its persist call never got further *)
Written ==
  \A f \in DOMAIN dir :
    \/ dir[f] \/ f \in stray
    \/ \E p \in Processes : persist[p].at = "create" /\ persist[p].file = f

(* Nor was it promised, or will be by the call that made it *)
Torn ==
  \A f \in DOMAIN dir : ~dir[f] =>
    /\ f \notin promised
    /\ \A p \in Processes : persist[p].at \in {"list", "limit"} => persist[p].file # f

(* Files that are gone went by the limits, not loaded, or answered for *)
Traced == \A f \in made : f \in DOMAIN dir \cup ended \/ acked[f] > 0

(* A replay removes what the server answered for, or what did not load *)
Answered ==
  \A p \in Processes :
    /\ drain[p].at = "remove" => Current(p) \in ended \/ acked[Current(p)] > 0
    /\ drain[p].at = "discard" => Current(p) \in ended \/ Current(p) \notin DOMAIN dir

KeptInv == TypeOK /\ Owned /\ Written /\ Torn /\ Traced /\ Answered

PersistSteps(p) == Create(p) \/ Write(p) \/ WriteFails(p) \/ List(p) \/ Evict(p)
DrainSteps(p) ==
  \/ DrainStart(p) \/ Read(p) \/ ReadFails(p) \/ Discard(p)
  \/ Accepted(p) \/ Refused(p) \/ Retryable(p) \/ RemoveReplayed(p)

LEMMA NextSteps == Next => \E p \in Processes : PersistSteps(p) \/ DrainSteps(p) \/ Crash(p)
BY DEF Next, PersistSteps, DrainSteps

LEMMA NoPersistIs == NoPersist.at = "idle" /\ NoPersist.file = 0 /\ NoPersist.listed = NoFiles
BY DEF NoPersist, Persisting

LEMMA ReturnMoves ==
  ASSUME TypeOK, NEW p \in Processes, NEW listed, ReturnOrEvict(p, listed)
  PROVE  /\ \A q \in Processes \ {p} : persist'[q] = persist[q]
         /\ \/ /\ persist'[p].file = persist[p].file /\ promised' = promised
               /\ persist'[p].at = "limit" /\ persist'[p].listed = listed /\ Over(listed)
            \/ /\ persist'[p] = NoPersist /\ promised' = promised \cup {persist[p].file}
               /\ ~Over(listed)
<1>1. CASE Over(listed)
  <2>1. persist' = [persist EXCEPT ![p] = Persisting("limit", persist[p].file, listed)]
    BY <1>1 DEF ReturnOrEvict
  <2>2. persist'[p] = Persisting("limit", persist[p].file, listed)
    BY <2>1 DEF TypeOK
  <2>3. /\ persist'[p].at = "limit" /\ persist'[p].file = persist[p].file
        /\ persist'[p].listed = listed
    BY <2>2 DEF Persisting
  <2> QED BY <1>1, <2>1, <2>3 DEF ReturnOrEvict, TypeOK
<1>2. CASE ~Over(listed)
  BY <1>2 DEF ReturnOrEvict, TypeOK
<1> QED BY <1>1, <1>2

(* What a step does to the persist call of p *)
LEMMA PersistMoves ==
  ASSUME TypeOK, NEW p \in Processes, PersistSteps(p) \/ Crash(p)
  PROVE  /\ \A q \in Processes \ {p} : persist'[q] = persist[q]
         /\ stray \subseteq stray'
         /\ \/ /\ persist'[p].file \in Files \ made /\ persist'[p].at = "create"
               /\ promised' = promised
            \/ /\ persist'[p].file = persist[p].file /\ persist'[p].at \in {"list", "limit"}
               /\ promised' = promised
            \/ /\ persist'[p] = NoPersist /\ persist[p].at \in {"list", "limit"}
               /\ promised' = promised \cup {persist[p].file}
            \/ persist'[p] = NoPersist /\ promised' = promised
<1>1. CASE Create(p)
  BY <1>1 DEF Create, TypeOK, Persisting, history
<1>2. CASE Write(p)
  BY <1>2 DEF Write, TypeOK, Persisting, history
<1>3. CASE WriteFails(p)
  BY <1>3 DEF WriteFails, TypeOK
<1>4. CASE List(p)
  BY <1>4, ReturnMoves DEF List
<1>5. CASE Evict(p)
  BY <1>5, ReturnMoves DEF Evict
<1>6. CASE Crash(p)
  BY <1>6 DEF Crash, TypeOK
<1> QED BY <1>1, <1>2, <1>3, <1>4, <1>5, <1>6 DEF PersistSteps

LEMMA OwnedStep ==
  ASSUME TypeOK, Owned, NEW p \in Processes, PersistSteps(p) \/ DrainSteps(p) \/ Crash(p)
  PROVE  Owned'
<1>1. \A q \in Processes : persist[q].file \in made \cup {0}
  BY DEF TypeOK
<1>2. promised \subseteq made /\ made \subseteq Files /\ 0 \notin Files
  BY DEF TypeOK, Files
<1>3. CASE PersistSteps(p) \/ Crash(p)
  <2>1. \A q \in Processes \ {p} : persist'[q].file = persist[q].file
    BY <1>3, PersistMoves
  <2>2. CASE persist'[p].file \in Files \ made /\ promised' = promised
    BY <1>1, <1>2, <2>1, <2>2 DEF Owned
  <2>3. CASE persist'[p].file = persist[p].file /\ promised' = promised
    BY <1>1, <1>2, <2>1, <2>3 DEF Owned
  <2>4. CASE /\ persist'[p].file = 0 /\ persist[p].file # 0
             /\ promised' = promised \cup {persist[p].file}
    BY <1>1, <1>2, <2>1, <2>4 DEF Owned
  <2>5. CASE persist'[p].file = 0 /\ promised' = promised
    BY <1>1, <1>2, <2>1, <2>5 DEF Owned
  <2>6. persist[p].at # "idle" => persist[p].file # 0
    BY DEF TypeOK
  <2> QED BY <1>3, <2>2, <2>3, <2>4, <2>5, <2>6, PersistMoves, NoPersistIs
<1>4. CASE DrainSteps(p)
  BY <1>4 DEF DrainSteps, DrainStart, Read, ReadFails, Discard, Accepted, Refused, Retryable,
              RemoveReplayed, history, Owned
<1> QED BY <1>3, <1>4

(* A replay writes nothing: what is left of the directory is as it was *)
LEMMA DrainDir ==
  ASSUME TypeOK, NEW p \in Processes, DrainSteps(p)
  PROVE  /\ DOMAIN dir' \subseteq DOMAIN dir /\ \A g \in DOMAIN dir' : dir'[g] = dir[g]
         /\ UNCHANGED <<stray, persist, promised, made>>
<1>1. CASE Discard(p) \/ RemoveReplayed(p)
  <2>1. Remove(Current(p)) /\ UNCHANGED <<stray, persist, promised, made>>
    BY <1>1 DEF Discard, RemoveReplayed, history
  <2> QED BY <2>1, RemoveIs
<1>2. CASE ~Discard(p) /\ ~RemoveReplayed(p)
  BY <1>2 DEF DrainSteps, DrainStart, Read, ReadFails, Accepted, Refused, Retryable, history
<1> QED BY <1>1, <1>2

LEMMA WrittenStep ==
  ASSUME TypeOK, Written, NEW p \in Processes,
         PersistSteps(p) \/ DrainSteps(p) \/ Crash(p)
  PROVE  Written'
<1>0. \A q \in Processes : persist[q].file \in made \cup {0}
  BY DEF TypeOK
<1>1. CASE Create(p)
  <2>1. /\ persist'[p].at = "create" /\ DOMAIN dir' = DOMAIN dir \cup {persist'[p].file}
        /\ \A g \in DOMAIN dir : dir'[g] = dir[g]
    <3>1. PICK f \in Files \ made :
            /\ dir' = [g \in DOMAIN dir \cup {f} |-> IF g = f THEN FALSE ELSE dir[g]]
            /\ persist' = [persist EXCEPT ![p] = Persisting("create", f, NoFiles)]
      BY <1>1 DEF Create
    <3>2. persist'[p].at = "create" /\ persist'[p].file = f
      BY <3>1 DEF TypeOK, Persisting
    <3>3. (\A g \in DOMAIN dir : dir'[g] = dir[g]) /\ DOMAIN dir' = DOMAIN dir \cup {f}
      BY <3>1 DEF TypeOK
    <3> QED BY <3>2, <3>3
  <2>2. (\A q \in Processes \ {p} : persist'[q] = persist[q]) /\ stray' = stray /\ persist[p].at = "idle"
    BY <1>1, PersistMoves DEF PersistSteps, Create, history
  <2> QED BY <2>1, <2>2 DEF Written
<1>2. CASE Write(p)
  <2>1. /\ DOMAIN dir' = DOMAIN dir /\ stray' = stray
        /\ \A g \in DOMAIN dir : dir'[g] = (g = persist[p].file \/ dir[g])
    BY <1>2 DEF Write, history
  <2>2. \A q \in Processes \ {p} : persist'[q] = persist[q]
    BY <1>2, PersistMoves DEF PersistSteps
  <2> QED BY <2>1, <2>2 DEF Written
<1>3. CASE WriteFails(p) \/ Crash(p)
  <2>1. /\ dir' = dir /\ DOMAIN dir \subseteq made
        /\ stray \cup (made \cap {persist[p].file}) \subseteq stray'
    BY <1>3 DEF WriteFails, Crash, TypeOK
  <2>2. \A q \in Processes \ {p} : persist'[q] = persist[q]
    BY <1>3, PersistMoves DEF PersistSteps
  <2> QED BY <2>1, <2>2 DEF Written
<1>4. CASE List(p) \/ Evict(p)
  <2>1. /\ DOMAIN dir' \subseteq DOMAIN dir /\ \A g \in DOMAIN dir' : dir'[g] = dir[g]
        /\ stray \subseteq stray' /\ persist[p].at # "create"
    BY <1>4, RemoveIs DEF List, Evict
  <2>2. \A q \in Processes \ {p} : persist'[q] = persist[q]
    BY <1>4, PersistMoves DEF PersistSteps
  <2> QED BY <2>1, <2>2 DEF Written
<1>5. CASE DrainSteps(p)
  <2> QED BY <1>5, DrainDir DEF Written
<1> QED BY <1>1, <1>2, <1>3, <1>4, <1>5 DEF PersistSteps

LEMMA TornStep ==
  ASSUME TypeOK, Owned, Torn, NEW p \in Processes,
         PersistSteps(p) \/ DrainSteps(p) \/ Crash(p)
  PROVE  Torn'
<1>0. /\ \A q \in Processes : persist[q].file \in made \cup {0}
      /\ promised \subseteq made /\ DOMAIN dir \subseteq made
  BY DEF TypeOK
<1>1. CASE Create(p)
  <2>1. PICK f \in Files \ made :
          /\ dir' = [g \in DOMAIN dir \cup {f} |-> IF g = f THEN FALSE ELSE dir[g]]
          /\ persist' = [persist EXCEPT ![p] = Persisting("create", f, NoFiles)]
    BY <1>1 DEF Create
  <2>2. persist'[p].at = "create" /\ promised' = promised /\ f # 0
    BY <1>1, <2>1 DEF TypeOK, Persisting, Create, history, Files
  <2>3. (\A g \in DOMAIN dir : dir'[g] = dir[g]) /\ DOMAIN dir' = DOMAIN dir \cup {f}
    BY <1>0, <2>1
  <2>4. \A q \in Processes \ {p} : persist'[q] = persist[q]
    BY <2>1
  <2> QED BY <1>0, <2>1, <2>2, <2>3, <2>4 DEF Torn
<1>2. CASE Write(p)
  <2>1. /\ DOMAIN dir' = DOMAIN dir /\ promised' = promised
        /\ \A g \in DOMAIN dir : dir'[g] = (g = persist[p].file \/ dir[g])
    BY <1>2 DEF Write, history
  <2>2. persist'[p].file = persist[p].file /\ \A q \in Processes \ {p} : persist'[q] = persist[q]
    BY <1>2 DEF Write, TypeOK, Persisting
  <2> QED BY <2>1, <2>2 DEF Torn
<1>3. CASE WriteFails(p) \/ Crash(p)
  <2>1. dir' = dir /\ promised' = promised /\ persist'[p].at = "idle"
    BY <1>3, NoPersistIs DEF WriteFails, Crash, TypeOK
  <2>2. \A q \in Processes \ {p} : persist'[q] = persist[q]
    BY <1>3, PersistMoves DEF PersistSteps
  <2> QED BY <2>1, <2>2 DEF Torn
<1>4. CASE List(p) \/ Evict(p)
  <2>1. /\ DOMAIN dir' \subseteq DOMAIN dir /\ \A g \in DOMAIN dir' : dir'[g] = dir[g]
        /\ persist[p].at \in {"list", "limit"}
    BY <1>4, RemoveIs DEF List, Evict
  <2>2. \A q \in Processes \ {p} : persist'[q] = persist[q]
    BY <1>4, PersistMoves DEF PersistSteps
  <2>3. /\ promised' \subseteq promised \cup {persist[p].file}
        /\ persist'[p].at \in {"list", "limit"} => persist'[p].file = persist[p].file
    BY <1>4, ReturnMoves, NoPersistIs DEF List, Evict
  <2> QED BY <2>1, <2>2, <2>3 DEF Torn
<1>5. CASE DrainSteps(p)
  BY <1>5, DrainDir DEF Torn
<1> QED BY <1>1, <1>2, <1>3, <1>4, <1>5 DEF PersistSteps

LEMMA TracedStep ==
  ASSUME TypeOK, Traced, Answered, NEW p \in Processes,
         PersistSteps(p) \/ DrainSteps(p) \/ Crash(p)
  PROVE  Traced'
<1>0. DOMAIN dir \subseteq made /\ made \subseteq Files /\ \A f \in Files : acked[f] \in Nat
  BY DEF TypeOK
<1>1. CASE Create(p)
  BY <1>0, <1>1 DEF Create, history, Traced
<1>2. CASE Write(p) \/ WriteFails(p) \/ List(p) \/ Crash(p)
  BY <1>2 DEF Write, WriteFails, List, Crash, history, Traced
<1>3. CASE Evict(p)
  <2>1. PICK f : f = Least(DOMAIN persist[p].listed)
    OBVIOUS
  <2>2. /\ Remove(f) /\ UNCHANGED <<made, acked>>
        /\ ended' = ended \cup ({f} \cap (DOMAIN dir \ DOMAIN dir'))
    BY <1>3, <2>1 DEF Evict
  <2>3. DOMAIN dir \ {f} \subseteq DOMAIN dir'
    BY <2>2, RemoveIs
  <2> QED BY <2>2, <2>3 DEF Traced
<1>4. CASE Discard(p)
  <2>1. DOMAIN dir \ {Current(p)} \subseteq DOMAIN dir'
    BY <1>4, RemoveIs DEF Discard
  <2> QED BY <1>4, <2>1 DEF Discard, history, Traced, Answered
<1>5. CASE RemoveReplayed(p)
  <2>1. DOMAIN dir \ {Current(p)} \subseteq DOMAIN dir'
    BY <1>5, RemoveIs DEF RemoveReplayed
  <2> QED BY <1>5, <2>1 DEF RemoveReplayed, Traced, Answered
<1>6. CASE Accepted(p)
  <2>1. \A f \in Files : acked'[f] >= acked[f]
    BY <1>0, <1>6 DEF Accepted, TypeOK
  <2>2. \A f \in Files : acked[f] > 0 => acked'[f] > 0
    BY <1>0, <1>6, <2>1 DEF Accepted, TypeOK
  <2> QED BY <1>0, <1>6, <2>2 DEF Accepted, Traced
<1>7. CASE DrainStart(p) \/ Read(p) \/ ReadFails(p) \/ Refused(p) \/ Retryable(p)
  BY <1>7 DEF DrainStart, Read, ReadFails, Refused, Retryable, history, Traced
<1> QED BY <1>1, <1>2, <1>3, <1>4, <1>5, <1>6, <1>7 DEF PersistSteps, DrainSteps

(* What a step does to the replay of p *)
LEMMA DrainMoves ==
  ASSUME TypeOK, NEW p \in Processes, DrainSteps(p) \/ Crash(p)
  PROVE  /\ \A q \in Processes \ {p} : drain'[q] = drain[q]
         /\ \/ /\ DrainStart(p) \/ Discard(p) \/ RemoveReplayed(p) \/ Retryable(p) \/ Crash(p)
               /\ drain'[p].at \in {"idle", "next"}
            \/ /\ Read(p) /\ drain'[p].at = "deliver"
               /\ drain'[p].listed = drain[p].listed
            \/ /\ ReadFails(p) /\ drain'[p].at = "discard"
               /\ drain'[p].listed = drain[p].listed
            \/ /\ Accepted(p) \/ Refused(p)
               /\ drain'[p].at = "remove" /\ drain'[p].listed = drain[p].listed
<1>1. CASE DrainStart(p) \/ Discard(p) \/ RemoveReplayed(p) \/ Retryable(p) \/ Crash(p)
  BY <1>1 DEF DrainStart, Discard, RemoveReplayed, Retryable, Crash, Replay, NoDrain, TypeOK
<1>2. CASE Read(p) \/ ReadFails(p)
  BY <1>2 DEF Read, ReadFails, Goto, TypeOK
<1>3. CASE Accepted(p) \/ Refused(p)
  BY <1>3 DEF Accepted, Refused, Goto, TypeOK
<1> QED BY <1>1, <1>2, <1>3 DEF DrainSteps

LEMMA AnsweredStep ==
  ASSUME TypeOK, Answered, NEW p \in Processes,
         PersistSteps(p) \/ DrainSteps(p) \/ Crash(p)
  PROVE  Answered'
<1>1. \A q \in Processes : drain[q].at # "idle" => Current(q) \in Files
  BY CurrentListed
<1>0. \A q \in Processes : drain[q].at # "idle" => Current(q) \in made
  BY CurrentListed
<1>9. DOMAIN dir' \cap made \subseteq DOMAIN dir /\ ended \subseteq ended'
  <2>1. CASE DrainSteps(p)
    BY <2>1, DrainDir DEF DrainSteps, DrainStart, Read, ReadFails, Discard, Accepted, Refused,
                          Retryable, RemoveReplayed, history
  <2>2. CASE Evict(p)
    BY <2>2, RemoveIs DEF Evict
  <2>3. CASE Create(p) \/ Write(p) \/ WriteFails(p) \/ List(p) \/ Crash(p)
    BY <2>3 DEF Create, Write, WriteFails, List, Crash, history
  <2> QED BY <2>1, <2>2, <2>3 DEF PersistSteps
<1>2. CASE PersistSteps(p)
  <2>1. drain' = drain /\ acked' = acked
    BY <1>2 DEF PersistSteps, Create, Write, WriteFails, List, Evict, history
  <2> QED BY <1>0, <1>9, <2>1 DEF Answered, Current
<1>3. CASE Accepted(p) \/ Refused(p)
  <2>1. /\ \A q \in Processes \ {p} : drain'[q] = drain[q]
        /\ drain'[p].listed = drain[p].listed
    BY <1>3, DrainMoves DEF DrainSteps, Accepted, Refused, Goto, TypeOK
  <2>2. \A q \in Processes : Current(q)' = Current(q)
    BY <2>1 DEF Current
  <2>3. PICK f : f = Current(p)
    OBVIOUS
  <2>4. f \in Files /\ acked \in [Files -> Nat]
    BY <1>1, <1>3, <2>3 DEF Accepted, Refused, TypeOK
  <2>5. /\ \A g \in Files : acked[g] > 0 => acked'[g] > 0
        /\ ended \subseteq ended' /\ (f \in ended' \/ acked'[f] > 0)
    BY <1>3, <2>3, <2>4 DEF Accepted, Refused
  <2>6. drain'[p].at = "remove"
    BY <1>3, DrainMoves DEF DrainSteps, Accepted, Refused, Goto, TypeOK
  <2> QED BY <1>0, <1>1, <1>9, <2>1, <2>2, <2>3, <2>5, <2>6 DEF Answered
<1>4. CASE ~PersistSteps(p) /\ ~Accepted(p) /\ ~Refused(p)
  <2>1. /\ \A q \in Processes \ {p} : drain'[q] = drain[q]
        /\ drain'[p].at # "remove"
        /\ drain'[p].at = "discard" => ReadFails(p) /\ drain'[p].listed = drain[p].listed
    BY <1>4, DrainMoves
  <2>2. \A q \in Processes \ {p} : Current(q)' = Current(q)
    BY <2>1 DEF Current
  <2>4. drain'[p].at = "discard" => Current(p)' \in ended' \/ Current(p)' \notin DOMAIN dir'
    BY <2>1 DEF ReadFails, Current
  <2>3. acked' = acked
    BY <1>4 DEF DrainSteps, DrainStart, Read, ReadFails, Discard, Retryable, RemoveReplayed, Crash, history
  <2> QED BY <1>0, <1>9, <2>1, <2>2, <2>3, <2>4 DEF Answered
<1> QED BY <1>2, <1>3, <1>4

THEOREM KeptInvariance == Spec => []KeptInv
<1>1. Init => KeptInv
  BY TypeInit, NoFilesListed, NoPersistIs
     DEF Init, KeptInv, Owned, Written, Torn, Traced, Answered, NoDrain
<1>2. KeptInv /\ [Next]_vars => KeptInv'
  <2>1. ASSUME KeptInv, Next PROVE KeptInv'
    BY <2>1, NextSteps, TypeStep, OwnedStep, WrittenStep, TornStep, TracedStep, AnsweredStep
       DEF KeptInv
  <2>2. ASSUME KeptInv, UNCHANGED vars PROVE KeptInv'
    BY <2>2, TypeStep
       DEF vars, history, KeptInv, Owned, Written, Torn, Traced, Answered, Current
  <2> QED BY <2>1, <2>2
<1> QED BY <1>1, <1>2, PTL DEF Spec

(* Whatever listings the processes work from and whatever operation fails, a *)
(* file of which persist said true is there until the server answers for it, *)
(* the limits remove it or a replay fails to load it.                       *)
THEOREM PromisesKept == Spec => []PromiseKept
<1>1. KeptInv => PromiseKept
  <2>1. SUFFICES ASSUME KeptInv, NEW f \in promised
                 PROVE  f \in Whole \cup ended \/ (f \in Files /\ acked[f] > 0)
    BY DEF PromiseKept
  <2>2. f \in made /\ made \subseteq Files
    BY <2>1 DEF KeptInv, TypeOK
  <2>3. f \in DOMAIN dir => dir[f]
    BY <2>1 DEF KeptInv, Torn
  <2> QED BY <2>1, <2>2, <2>3 DEF KeptInv, Traced, Whole
<1> QED BY <1>1, KeptInvariance, PTL

-----------------------------------------------------------------------------
(* ResentOnlyIfExposed *)

(* While a file is not exposed one replay has it at a time, and when it was  *)
(* acknowledged it is gone, or that replay removes it next.                *)
Once ==
  \A f \in Files \ exposed :
    /\ \A p, q \in Processes : p \in Replaying(f) /\ q \in Replaying(f) => p = q
    /\ acked[f] > 0 =>
         /\ acked[f] = 1 /\ f \in made
         /\ \A p \in Processes : drain[p].at = "deliver" => Current(p) # f
         /\ f \in DOMAIN dir =>
              \E p \in Processes : drain[p].at = "remove" /\ Current(p) = f

LEMMA ReplayingIs ==
  \A f : \A p \in Processes :
    p \in Replaying(f) <=> drain[p].at \in {"deliver", "remove"} /\ Current(p) = f
BY DEF Replaying

LEMMA ReplayingNext ==
  \A f : \A p \in Processes :
    p \in Replaying(f)' <=> drain'[p].at \in {"deliver", "remove"} /\ Current(p)' = f
BY DEF Replaying

LEMMA OnceStep ==
  ASSUME TypeOK, Once, NEW p \in Processes,
         PersistSteps(p) \/ DrainSteps(p) \/ Crash(p)
  PROVE  Once'
<1>0. acked \in [Files -> Nat] /\ DOMAIN dir \subseteq made /\ made \subseteq Files
  BY DEF TypeOK
<1>1. CASE PersistSteps(p)
  <2>1. /\ drain' = drain /\ acked' = acked /\ exposed' = exposed /\ made \subseteq made'
        /\ DOMAIN dir' \cap made \subseteq DOMAIN dir
    BY <1>1, RemoveIs DEF PersistSteps, Create, Write, WriteFails, List, Evict, history
  <2>2. /\ \A q \in Processes : Current(q)' = Current(q)
        /\ \A f : Replaying(f)' = Replaying(f)
    BY <2>1 DEF Current, Replaying
  <2>3. SUFFICES ASSUME NEW f \in Files \ exposed
                 PROVE  /\ \A q, r \in Processes : q \in Replaying(f) /\ r \in Replaying(f) => q = r
                        /\ acked[f] > 0 =>
                             /\ acked[f] = 1 /\ f \in made'
                             /\ \A q \in Processes : drain[q].at = "deliver" => Current(q) # f
                             /\ f \in DOMAIN dir' =>
                                  \E q \in Processes : drain[q].at = "remove" /\ Current(q) = f
    BY <2>1, <2>2 DEF Once
  <2> QED BY <2>1 DEF Once
<1>2. ASSUME NEW f \in Files \ exposed',
             \A q \in Processes \ {p} : drain'[q] = drain[q] /\ Current(q)' = Current(q),
             exposed \subseteq exposed', acked'[f] = acked[f], made' = made,
             DOMAIN dir' \subseteq DOMAIN dir,
             drain'[p].at = "deliver" => Current(p)' # f,
             drain'[p].at = "remove" => drain[p].at = "deliver" /\ Current(p)' = Current(p),
             drain[p].at = "remove" => Current(p) # f \/ f \notin DOMAIN dir'
      PROVE  /\ \A q, r \in Processes : q \in Replaying(f)' /\ r \in Replaying(f)' => q = r
             /\ acked'[f] > 0 =>
                  /\ acked'[f] = 1 /\ f \in made'
                  /\ \A q \in Processes : drain'[q].at = "deliver" => Current(q)' # f
                  /\ f \in DOMAIN dir' =>
                       \E q \in Processes : drain'[q].at = "remove" /\ Current(q)' = f
  <2>1. \A q \in Processes : q \in Replaying(f)' => q \in Replaying(f)
    BY <1>2, ReplayingIs, ReplayingNext
  <2> QED BY <1>2, <2>1 DEF Once
<1>3. CASE \/ DrainStart(p) \/ ReadFails(p) \/ Discard(p) \/ RemoveReplayed(p)
           \/ Retryable(p) \/ Crash(p)
  <2>1. /\ \A q \in Processes \ {p} : drain'[q] = drain[q]
        /\ drain'[p].at \in {"idle", "next", "discard"}
    BY <1>3 DEF DrainStart, ReadFails, Discard, RemoveReplayed, Retryable, Crash, Replay,
                Goto, NoDrain, TypeOK
  <2>2. \A q \in Processes \ {p} : Current(q)' = Current(q)
    BY <2>1 DEF Current
  <2>3. /\ exposed \subseteq exposed' /\ acked' = acked /\ made' = made
        /\ DOMAIN dir' \subseteq DOMAIN dir
    BY <1>3, RemoveIs
       DEF DrainStart, ReadFails, Discard, RemoveReplayed, Retryable, Crash, history
  <2>4. drain[p].at = "remove" => Current(p) \notin DOMAIN dir' \/ Current(p) \in exposed'
    BY <1>3 DEF DrainStart, ReadFails, Discard, RemoveReplayed, Retryable, Crash
  <2> QED BY <1>2, <2>1, <2>2, <2>3, <2>4 DEF Once
<1>4. CASE Read(p)
  <2>1. PICK c : c = Current(p)
    OBVIOUS
  <2>2. /\ \A q \in Processes \ {p} : drain'[q] = drain[q]
        /\ drain'[p].at = "deliver" /\ drain[p].at = "next"
        /\ drain'[p].listed = drain[p].listed
        /\ c \in DOMAIN dir /\ (Replaying(c) # {} => c \in exposed')
        /\ exposed \subseteq exposed' /\ acked' = acked /\ made' = made /\ dir' = dir
    BY <1>4, <2>1 DEF Read, Goto, TypeOK
  <2>3. \A q \in Processes : Current(q)' = Current(q)
    BY <2>2 DEF Current
  <2>5. Once'
    <3>1. SUFFICES ASSUME NEW f \in Files \ exposed'
                   PROVE  /\ \A q, r \in Processes :
                               q \in Replaying(f)' /\ r \in Replaying(f)' => q = r
                          /\ acked'[f] > 0 =>
                               /\ acked'[f] = 1 /\ f \in made'
                               /\ \A q \in Processes : drain'[q].at = "deliver" => Current(q)' # f
                               /\ f \in DOMAIN dir' =>
                                    \E q \in Processes : drain'[q].at = "remove" /\ Current(q)' = f
      BY DEF Once
    <3>2. CASE f # c
      BY <1>2, <2>1, <2>2, <2>3, <3>1, <3>2
    <3>3. CASE f = c
      <4>1. \A q \in Processes : q \notin Replaying(f)
        BY <2>2, <3>1, <3>3
      <4>2. \A q \in Processes : q \in Replaying(f)' => q = p
        BY <2>2, <2>3, <4>1, ReplayingIs, ReplayingNext
      <4>3. ~(acked[f] > 0)
        BY <2>2, <3>1, <3>3, <4>1, ReplayingIs DEF Once
      <4> QED BY <2>2, <4>2, <4>3
    <3> QED BY <3>2, <3>3
  <2> QED BY <2>5
<1>5. CASE Accepted(p) \/ Refused(p)
  <2>1. PICK c \in Files : c = Current(p) /\ c \in made
    BY <1>5, CurrentListed DEF Accepted, Refused
  <2>2. /\ \A q \in Processes \ {p} : drain'[q] = drain[q]
        /\ drain'[p].at = "remove" /\ drain[p].at = "deliver"
        /\ drain'[p].listed = drain[p].listed
        /\ exposed' = exposed /\ made' = made /\ dir' = dir
        /\ acked' \in {acked, [acked EXCEPT ![c] = @ + 1]}
    BY <1>5, <2>1 DEF Accepted, Refused, Goto, TypeOK
  <2>3. \A q \in Processes : Current(q)' = Current(q)
    BY <2>2 DEF Current
  <2>4. SUFFICES ASSUME NEW f \in Files \ exposed'
                 PROVE  /\ \A q, r \in Processes :
                             q \in Replaying(f)' /\ r \in Replaying(f)' => q = r
                        /\ acked'[f] > 0 =>
                             /\ acked'[f] = 1 /\ f \in made'
                             /\ \A q \in Processes : drain'[q].at = "deliver" => Current(q)' # f
                             /\ f \in DOMAIN dir' =>
                                  \E q \in Processes : drain'[q].at = "remove" /\ Current(q)' = f
    BY DEF Once
  <2>5. CASE f # c
    <3>1. acked'[f] = acked[f]
      BY <1>0, <2>2, <2>5
    <3> QED BY <1>2, <2>1, <2>2, <2>3, <2>4, <2>5, <3>1
  <2>6. CASE f = c
    <3>1. p \in Replaying(f)
      BY <2>1, <2>2, <2>6, ReplayingIs
    <3>2. acked[f] = 0 /\ acked'[f] \in {0, 1}
      <4>1. ~(acked[f] > 0)
        BY <2>1, <2>2, <2>4, <2>6 DEF Once
      <4> QED BY <1>0, <2>2, <2>6, <4>1
    <3>3. \A q \in Processes : q \in Replaying(f) => q = p
      BY <2>2, <2>4, <3>1 DEF Once
    <3>4. \A q \in Processes : q \in Replaying(f)' => q = p
      BY <2>2, <2>3, <3>3, ReplayingIs, ReplayingNext
    <3>5. \A q \in Processes : drain'[q].at = "deliver" => Current(q)' # f
      BY <2>2, <3>4, ReplayingNext
    <3>6. drain'[p].at = "remove" /\ Current(p)' = f
      BY <2>1, <2>2, <2>3, <2>6
    <3> QED BY <2>1, <2>2, <2>6, <3>2, <3>4, <3>5, <3>6
  <2> QED BY <2>5, <2>6
<1> QED BY <1>1, <1>3, <1>4, <1>5 DEF DrainSteps

(* An envelope the server has acknowledged is not sent again, whatever else  *)
(* is written, evicted and replayed meanwhile, but when two replays had its  *)
(* file at once or the file outlived its answer.                            *)
THEOREM OnlyExposedResent == Spec => []ResentOnlyIfExposed
<1>1. Init => Once
  BY DEF Init, Once, Replaying, NoDrain
<1>2. TypeOK /\ Once /\ [Next]_vars => Once'
  <2>1. ASSUME TypeOK, Once, Next PROVE Once'
    BY <2>1, NextSteps, OnceStep
  <2>2. ASSUME Once, UNCHANGED vars PROVE Once'
    BY <2>2 DEF vars, history, Once, Replaying, Current
  <2> QED BY <2>1, <2>2
<1>3. TypeOK /\ Once => ResentOnlyIfExposed
  BY DEF TypeOK, Once, ResentOnlyIfExposed
<1> QED BY <1>1, <1>2, <1>3, TypeCorrect, PTL DEF Spec

-----------------------------------------------------------------------------
(* LimitHolds *)

(* Listings of one directory at different times are comparable: of what is   *)
(* still there, the later one has what the earlier one has.  Some listing   *)
(* within the limits, the latest of a call that ended, has every settled    *)
(* file.                                                                   *)
Seen(listed, f) == f \in DOMAIN listed /\ listed[f] = SizeOf[f]
Covers(names, late, early) == \A f \in names : Seen(early, f) => Seen(late, f)
Comparable(names, one, other) == Covers(names, one, other) \/ Covers(names, other, one)

(* A listing has no file that was not made, nor bytes that were not written *)
Honest(files, names, listed) ==
  /\ DOMAIN listed \subseteq names
  /\ \A f \in DOMAIN files \cap DOMAIN listed :
       listed[f] = 0 \/ (files[f] /\ listed[f] = SizeOf[f])

Claims(files, names, ps) ==
  /\ \A p \in Processes : ps[p].at = "limit" =>
       /\ Honest(files, names, ps[p].listed)
       /\ ps[p].file \in DOMAIN files => Seen(ps[p].listed, ps[p].file)
  /\ \A p, q \in Processes : ps[p].at = "limit" /\ ps[q].at = "limit" =>
       Comparable(DOMAIN files, ps[p].listed, ps[q].listed)

CoveredBy(files, names, ps, settled, cover) ==
  /\ ~Over(cover) /\ Honest(files, names, cover)
  /\ \A f \in settled : Seen(cover, f)
  /\ \A p \in Processes : ps[p].at = "limit" =>
       Comparable(DOMAIN files, cover, ps[p].listed)

(* The files a call may answer for, and of these the calls that ended *)
Live == [f \in DOMAIN dir \ stray |-> dir[f]]
Settled == DOMAIN Live \ UnderWay

LimitInv ==
  /\ Claims(Live, made, persist)
  /\ \E cover \in Listings : CoveredBy(Live, made, persist, Settled, cover)

(* The files after a step: some go, are written, or are new *)
Follows(files, names, later, names2) ==
  /\ names \subseteq names2
  /\ \A f \in DOMAIN later \cap names : f \in DOMAIN files /\ (files[f] => later[f])

LEMMA HonestFollows ==
  ASSUME NEW files, NEW names, NEW later, NEW names2, Follows(files, names, later, names2),
         NEW listed, Honest(files, names, listed)
  PROVE  Honest(later, names2, listed)
BY DEF Follows, Honest

LEMMA ComparableFollows ==
  ASSUME NEW files, NEW names, NEW later, NEW names2, Follows(files, names, later, names2),
         NEW one, NEW other, Honest(files, names, one), Honest(files, names, other),
         Comparable(DOMAIN files, one, other)
  PROVE  Comparable(DOMAIN later, one, other)
<1>1. CASE Covers(DOMAIN files, one, other)
  BY <1>1 DEF Follows, Honest, Comparable, Covers, Seen
<1>2. CASE Covers(DOMAIN files, other, one)
  BY <1>2 DEF Follows, Honest, Comparable, Covers, Seen
<1> QED BY <1>1, <1>2 DEF Comparable

(* A step that lists nothing and ends no call within the limits *)
LEMMA LimitFrame ==
  ASSUME NEW files, NEW names, NEW later, NEW names2, Follows(files, names, later, names2),
         NEW ps, Claims(files, names, ps), NEW ps2,
         \A p \in Processes : ps2[p].at = "limit" => ps2[p] = ps[p],
         \A p \in Processes : ps[p].at = "limit" => ps[p].file \in names,
         NEW settled, NEW settled2, settled2 \subseteq settled
  PROVE  /\ Claims(later, names2, ps2)
         /\ \A cover : CoveredBy(files, names, ps, settled, cover)
                       => CoveredBy(later, names2, ps2, settled2, cover)
<1>1. ASSUME NEW p \in Processes, ps2[p].at = "limit"
      PROVE  /\ ps2[p] = ps[p] /\ ps[p].at = "limit"
             /\ Honest(files, names, ps[p].listed) /\ Honest(later, names2, ps[p].listed)
             /\ ps[p].file \in DOMAIN later => Seen(ps[p].listed, ps[p].file)
  <2>1. ps2[p] = ps[p] /\ ps[p].at = "limit"
    BY <1>1
  <2>2. Honest(files, names, ps[p].listed)
    BY <2>1 DEF Claims
  <2>3. PICK listed : listed = ps[p].listed
    OBVIOUS
  <2>4. Honest(later, names2, listed)
    BY <2>2, <2>3, HonestFollows
  <2>5. ps[p].file \in DOMAIN later => Seen(ps[p].listed, ps[p].file)
    BY <2>1 DEF Claims, Follows
  <2> QED BY <2>1, <2>2, <2>3, <2>4, <2>5
<1>2. ASSUME NEW p \in Processes, NEW q \in Processes, ps2[p].at = "limit", ps2[q].at = "limit"
      PROVE  Comparable(DOMAIN later, ps2[p].listed, ps2[q].listed)
  <2>1. Comparable(DOMAIN files, ps[p].listed, ps[q].listed)
    BY <1>1, <1>2 DEF Claims
  <2>2. PICK one, other : one = ps[p].listed /\ other = ps[q].listed
    OBVIOUS
  <2>3. Honest(files, names, one) /\ Honest(files, names, other)
    BY <1>1, <1>2, <2>2
  <2>4. Comparable(DOMAIN later, one, other)
    BY <2>1, <2>2, <2>3, ComparableFollows
  <2> QED BY <1>1, <1>2, <2>2, <2>4
<1>3. ASSUME NEW cover, CoveredBy(files, names, ps, settled, cover)
      PROVE  CoveredBy(later, names2, ps2, settled2, cover)
  <2>1. Honest(files, names, cover) /\ ~Over(cover) /\ \A f \in settled2 : Seen(cover, f)
    BY <1>3 DEF CoveredBy
  <2>2. Honest(later, names2, cover)
    BY <2>1, HonestFollows
  <2>3. ASSUME NEW p \in Processes, ps2[p].at = "limit"
        PROVE  Comparable(DOMAIN later, cover, ps2[p].listed)
    <3>1. Comparable(DOMAIN files, cover, ps[p].listed)
      BY <1>1, <1>3, <2>3 DEF CoveredBy
    <3>2. PICK other : other = ps[p].listed
      OBVIOUS
    <3>3. Comparable(DOMAIN later, cover, other)
      BY <1>1, <2>1, <2>3, <3>1, <3>2, ComparableFollows
    <3> QED BY <1>1, <2>3, <3>2, <3>3
  <2> QED BY <2>1, <2>2, <2>3 DEF CoveredBy
<1> QED BY <1>1, <1>2, <1>3 DEF Claims

(* A call that goes on with a listing, or ends with it *)
LEMMA LimitReturn ==
  ASSUME TypeOK, NEW p \in Processes, NEW listed \in Listings, ReturnOrEvict(p, listed),
         NEW files, NEW names, Claims(files, names, persist),
         Honest(files, names, listed),
         persist[p].file \in DOMAIN files => Seen(listed, persist[p].file),
         \A q \in Processes \ {p} : persist[q].at = "limit" =>
           Comparable(DOMAIN files, listed, persist[q].listed),
         NEW settled, settled \subseteq DOMAIN files, NEW settled2, settled2 \subseteq DOMAIN files,
         settled2 \subseteq settled \cup {persist[p].file},
         persist'[p].at = "limit" => settled2 \subseteq settled,
         NEW cover \in Listings, CoveredBy(files, names, persist, settled, cover),
         Comparable(DOMAIN files, cover, listed)
  PROVE  /\ Claims(files, names, persist')
         /\ \E cover2 \in Listings : CoveredBy(files, names, persist', settled2, cover2)
<1>1. \A q \in Processes \ {p} : persist'[q] = persist[q]
  BY ReturnMoves
<1>2. PICK ps : ps = persist'
  OBVIOUS
<1>3. CASE Over(listed)
  <2>1. ps[p].at = "limit" /\ ps[p].listed = listed /\ ps[p].file = persist[p].file
    BY <1>2, <1>3, ReturnMoves
  <2>2. ASSUME NEW q \in Processes, NEW r \in Processes, ps[q].at = "limit", ps[r].at = "limit"
        PROVE  Comparable(DOMAIN files, ps[q].listed, ps[r].listed)
    <3>1. CASE q # p /\ r # p
      BY <1>1, <1>2, <2>2, <3>1 DEF Claims
    <3>2. CASE q = p /\ r # p
      BY <1>1, <1>2, <2>1, <2>2, <3>2
    <3>3. CASE q # p /\ r = p
      BY <1>1, <1>2, <2>1, <2>2, <3>3 DEF Comparable
    <3>4. CASE q = p /\ r = p
      BY <3>4 DEF Comparable, Covers
    <3> QED BY <3>1, <3>2, <3>3, <3>4
  <2>3. Claims(files, names, ps)
    BY <1>1, <1>2, <2>1, <2>2 DEF Claims
  <2>4. CoveredBy(files, names, ps, settled2, cover)
    BY <1>1, <1>2, <2>1 DEF CoveredBy
  <2> QED BY <1>2, <2>3, <2>4
<1>4. CASE ~Over(listed)
  <2>1. ps[p].at = "idle"
    BY <1>2, <1>4, ReturnMoves, NoPersistIs
  <2>2. Claims(files, names, ps)
    BY <1>1, <1>2, <2>1 DEF Claims
  <2>3. CASE Covers(DOMAIN files, cover, listed)
    <3>1. \A f \in settled2 : Seen(cover, f)
      BY <2>3 DEF CoveredBy, Covers
    <3>2. CoveredBy(files, names, ps, settled2, cover)
      BY <1>1, <1>2, <2>1, <3>1 DEF CoveredBy
    <3> QED BY <1>2, <2>2, <3>2
  <2>4. CASE Covers(DOMAIN files, listed, cover)
    <3>1. \A f \in settled2 : Seen(listed, f)
      BY <2>4 DEF CoveredBy, Covers
    <3>2. CoveredBy(files, names, ps, settled2, listed)
      BY <1>1, <1>2, <1>4, <2>1, <3>1 DEF CoveredBy
    <3> QED BY <1>2, <2>2, <3>2
  <2> QED BY <2>3, <2>4 DEF Comparable
<1> QED BY <1>3, <1>4

LEMMA LiveIs ==
  /\ DOMAIN Live = DOMAIN dir \ stray /\ \A f \in DOMAIN Live : Live[f] = dir[f]
  /\ DOMAIN Live' = DOMAIN dir' \ stray' /\ \A f \in DOMAIN Live' : Live'[f] = dir'[f]
  /\ Settled = DOMAIN dir \ (stray \cup UnderWay)
  /\ Settled' = DOMAIN dir' \ (stray' \cup UnderWay')
BY DEF Live, Settled

LEMMA LiveFollows ==
  ASSUME TypeOK, NEW p \in Processes, PersistSteps(p) \/ DrainSteps(p) \/ Crash(p)
  PROVE  Follows(Live, made, Live', made') /\ stray \subseteq stray'
<1>1. SUFFICES /\ made \subseteq made' /\ stray \subseteq stray'
               /\ \A f \in DOMAIN dir' \cap made : f \in DOMAIN dir /\ (dir[f] => dir'[f])
  BY LiveIs DEF Follows
<1>2. CASE Create(p)
  <2>1. PICK f \in Files \ made :
          /\ made' = made \cup {f} /\ stray' = stray
          /\ dir' = [g \in DOMAIN dir \cup {f} |-> IF g = f THEN FALSE ELSE dir[g]]
    BY <1>2 DEF Create, history
  <2> QED BY <2>1
<1>3. CASE Write(p)
  BY <1>3 DEF Write, history
<1>4. CASE WriteFails(p) \/ List(p) \/ Crash(p)
  BY <1>4 DEF WriteFails, List, Crash
<1>5. CASE Evict(p)
  BY <1>5, RemoveIs DEF Evict
<1>6. CASE DrainSteps(p)
  BY <1>6, DrainDir
<1> QED BY <1>2, <1>3, <1>4, <1>5, <1>6 DEF PersistSteps

(* What is settled was written *)
LEMMA SettledWritten ==
  ASSUME KeptInv
  PROVE  /\ \A f \in Settled : f \in DOMAIN dir /\ dir[f]
         /\ \A p \in Processes : persist[p].at \in {"list", "limit"} /\ persist[p].file \in DOMAIN dir
              => dir[persist[p].file]
BY LiveIs DEF KeptInv, Written, Torn, UnderWay

(* A new listing has all of the directory *)
LEMMA NewListing ==
  ASSUME KeptInv
  PROVE  LET listed == files_with_sizes(DOMAIN dir)
         IN  /\ listed \in Listings /\ Honest(Live, made, listed)
             /\ \A f \in DOMAIN dir : dir[f] => Seen(listed, f)
             /\ \A early : Honest(Live, made, early) => Covers(DOMAIN Live, listed, early)
<1> DEFINE listed == files_with_sizes(DOMAIN dir)
<1>1. /\ listed \in Listings /\ DOMAIN listed = DOMAIN dir
      /\ \A f \in DOMAIN dir : listed[f] = IF dir[f] THEN SizeOf[f] ELSE 0
  BY ListingIs DEF KeptInv
<1>2. DOMAIN dir \subseteq made
  BY DEF KeptInv, TypeOK
<1> HIDE DEF listed
<1>3. Honest(Live, made, listed) /\ \A f \in DOMAIN dir : dir[f] => Seen(listed, f)
  BY <1>1, <1>2, LiveIs DEF Honest, Seen
<1>4. ASSUME NEW early, Honest(Live, made, early) PROVE Covers(DOMAIN Live, listed, early)
  BY <1>1, <1>4, LiveIs DEF Honest, Covers, Seen
<1> QED BY <1>1, <1>3, <1>4 DEF listed

LEMMA LimitStep ==
  ASSUME KeptInv, LimitInv, NEW p \in Processes,
         PersistSteps(p) \/ DrainSteps(p) \/ Crash(p)
  PROVE  LimitInv'
<1>0. TypeOK /\ Claims(Live, made, persist)
  BY DEF KeptInv, LimitInv
<1>1. PICK cover \in Listings : CoveredBy(Live, made, persist, Settled, cover)
  BY DEF LimitInv
<1>2. Follows(Live, made, Live', made') /\ stray \subseteq stray'
  BY <1>0, LiveFollows
<1>3. \A q \in Processes : persist[q].at = "limit" => persist[q].file \in made
  BY <1>0 DEF TypeOK
<1>4. CASE ~List(p) /\ ~Evict(p)
  <2>1. \A q \in Processes : persist'[q].at = "limit" => persist'[q] = persist[q]
    <3>1. CASE Create(p)
      BY <1>0, <3>1 DEF Create, TypeOK, Persisting
    <3>2. CASE Write(p)
      BY <1>0, <3>2 DEF Write, TypeOK, Persisting
    <3>3. CASE WriteFails(p) \/ Crash(p)
      BY <1>0, <3>3, NoPersistIs DEF WriteFails, Crash, TypeOK
    <3>4. CASE DrainSteps(p)
      BY <3>4 DEF DrainSteps, DrainStart, Read, ReadFails, Discard, Accepted, Refused, Retryable,
                  RemoveReplayed
    <3> QED BY <1>4, <3>1, <3>2, <3>3, <3>4 DEF PersistSteps
  <2>2. Settled' \subseteq Settled
    <3>1. \A q \in Processes : persist[q].file \in made \cup {0}
      BY <1>0 DEF TypeOK
    <3>2. DOMAIN dir \subseteq made /\ made \subseteq Files /\ 0 \notin Files
      BY <1>0 DEF TypeOK, Files
    <3>3. CASE Create(p)
      <4>1. PICK f \in Files \ made :
              /\ dir' = [g \in DOMAIN dir \cup {f} |-> IF g = f THEN FALSE ELSE dir[g]]
              /\ persist' = [persist EXCEPT ![p] = Persisting("create", f, NoFiles)]
              /\ UNCHANGED stray
        BY <3>3 DEF Create, history
      <4>2. persist'[p].file = f /\ \A q \in Processes \ {p} : persist'[q] = persist[q]
        BY <1>0, <4>1 DEF TypeOK, Persisting
      <4>3. persist[p].file = 0
        BY <1>0, <3>3 DEF Create, TypeOK
      <4>4. UnderWay' = {persist'[q].file : q \in Processes}
        BY DEF UnderWay
      <4>5. f \in UnderWay' /\ UnderWay \ {0} \subseteq UnderWay'
        BY <4>2, <4>3, <4>4 DEF UnderWay
      <4> QED BY <3>2, <4>1, <4>5, LiveIs
    <3>4. CASE Write(p)
      <4>1. dir' = [g \in DOMAIN dir |-> g = persist[p].file \/ dir[g]] /\ stray' = stray
        BY <3>4 DEF Write, history
      <4>2. \A q \in Processes : persist'[q].file = persist[q].file
        BY <1>0, <3>4 DEF Write, TypeOK, Persisting
      <4> QED BY <4>1, <4>2, LiveIs DEF UnderWay
    <3>5. CASE WriteFails(p) \/ Crash(p)
      <4>1. dir' = dir /\ stray \cup (made \cap {persist[p].file}) \subseteq stray'
        BY <1>0, <3>5 DEF WriteFails, Crash, TypeOK
      <4>2. \A q \in Processes \ {p} : persist'[q] = persist[q]
        BY <1>0, <3>5 DEF WriteFails, Crash, TypeOK
      <4> QED BY <3>2, <4>1, <4>2, LiveIs DEF UnderWay
    <3>6. CASE DrainSteps(p)
      <4> QED BY <3>6, DrainDir, <1>0, LiveIs DEF UnderWay
    <3> QED BY <1>4, <3>3, <3>4, <3>5, <3>6 DEF PersistSteps
  <2>3. PICK ps2, settled2, later : ps2 = persist' /\ settled2 = Settled' /\ later = Live'
    OBVIOUS
  <2>4. /\ Claims(later, made', ps2)
        /\ CoveredBy(later, made', ps2, settled2, cover)
    BY <1>0, <1>1, <1>2, <1>3, <2>1, <2>2, <2>3, LimitFrame
  <2> QED BY <2>3, <2>4 DEF LimitInv
<1>5. \A q \in Processes \ {p} : PersistSteps(p) => persist'[q] = persist[q]
  BY <1>0, PersistMoves
<1>6. DOMAIN dir \subseteq made /\ made \subseteq Files /\ 0 \notin Files
  BY <1>0 DEF TypeOK, Files
<1>7. CASE List(p)
  <2>1. PICK listed : listed = files_with_sizes(DOMAIN dir)
    OBVIOUS
  <2>2. /\ listed \in Listings /\ Honest(Live, made, listed)
        /\ \A f \in DOMAIN dir : dir[f] => Seen(listed, f)
        /\ \A early : Honest(Live, made, early) => Covers(DOMAIN Live, listed, early)
    BY <2>1, NewListing
  <2>3. /\ ReturnOrEvict(p, listed) /\ persist[p].at = "list"
        /\ dir' = dir /\ made' = made /\ stray' = stray /\ Live' = Live
    BY <1>7, <2>1 DEF List, Live
  <2>4. persist[p].file \in DOMAIN Live => Seen(listed, persist[p].file)
    BY <2>2, <2>3, SettledWritten, LiveIs
  <2>5. \A q \in Processes : persist[q].at = "limit" =>
          Comparable(DOMAIN Live, listed, persist[q].listed)
    BY <1>0, <2>2 DEF Claims, Comparable
  <2>6. Comparable(DOMAIN Live, cover, listed)
    BY <1>1, <2>2 DEF CoveredBy, Comparable
  <2>7. PICK settled, settled2 : settled = Settled /\ settled2 = Settled'
    OBVIOUS
  <2>8. settled2 \subseteq settled \cup {persist[p].file} /\ settled2 \subseteq DOMAIN Live
    BY <1>5, <1>7, <2>3, <2>7, LiveIs DEF UnderWay, PersistSteps
  <2>9. persist'[p].at = "limit" => settled2 \subseteq settled
    <3>1. persist'[p].at = "limit" => persist'[p].file = persist[p].file
      BY <1>0, <2>3, ReturnMoves, NoPersistIs
    <3> QED BY <1>5, <1>7, <2>3, <2>7, <3>1, LiveIs DEF UnderWay, PersistSteps
  <2>10. CoveredBy(Live, made, persist, settled, cover) /\ settled \subseteq DOMAIN Live
    BY <1>1, <2>7 DEF Settled
  <2>11. /\ Claims(Live, made, persist')
         /\ \E cover2 \in Listings : CoveredBy(Live, made, persist', settled2, cover2)
    BY <1>0, <2>2, <2>3, <2>4, <2>5, <2>6, <2>8, <2>9, <2>10, LimitReturn
  <2> QED BY <2>3, <2>7, <2>11 DEF LimitInv
<1>8. CASE Evict(p)
  <2>1. PICK f, old : f = Least(DOMAIN persist[p].listed) /\ old = persist[p].listed
    OBVIOUS
  <2>2. PICK listed : listed = Without(old, f)
    OBVIOUS
  <2>3. /\ ReturnOrEvict(p, listed) /\ persist[p].at = "limit"
        /\ Remove(f) /\ made' = made /\ stray' = stray \cup ({f} \cap DOMAIN dir')
    BY <1>8, <2>1, <2>2 DEF Evict
  <2>4. PICK files : files = Live'
    OBVIOUS
  <2>5. DOMAIN files = DOMAIN Live \ {f}
    BY <1>0, <2>3, <2>4, LiveIs, RemoveIs
  <2>6. /\ listed \in Listings /\ DOMAIN listed = DOMAIN old \ {f}
        /\ \A g \in DOMAIN old \ {f} : listed[g] = old[g]
    <3>1. old \in Listings
      BY <1>0, <2>1 DEF TypeOK
    <3> QED BY <2>2, <3>1, WithoutIs
  <2>7. \A g \in DOMAIN files : Seen(listed, g) <=> Seen(old, g)
    BY <2>5, <2>6 DEF Seen
  <2>8. PICK settled, settled2 : settled = Settled \ {f} /\ settled2 = Settled'
    OBVIOUS
  <2>9. /\ Claims(files, made, persist)
        /\ CoveredBy(files, made, persist, settled, cover)
    <3>1. Follows(Live, made, files, made)
      BY <1>2, <2>3, <2>4
    <3>2. PICK all : all = Settled
      OBVIOUS
    <3>3. CoveredBy(Live, made, persist, all, cover) /\ settled \subseteq all
      BY <1>1, <2>8, <3>2
    <3> QED BY <1>0, <1>3, <3>1, <3>3, LimitFrame
  <2>10. Honest(files, made, listed)
    <3>1. Honest(files, made, old)
      BY <2>1, <2>3, <2>9 DEF Claims
    <3> QED BY <2>6, <3>1 DEF Honest
  <2>11. persist[p].file \in DOMAIN files => Seen(listed, persist[p].file)
    BY <2>1, <2>3, <2>7, <2>9 DEF Claims
  <2>12. \A q \in Processes \ {p} : persist[q].at = "limit" =>
           Comparable(DOMAIN files, listed, persist[q].listed)
    <3>1. \A q \in Processes \ {p} : persist[q].at = "limit" =>
            Comparable(DOMAIN files, old, persist[q].listed)
      BY <2>1, <2>3, <2>9 DEF Claims
    <3> QED BY <2>7, <3>1 DEF Comparable, Covers
  <2>13. Comparable(DOMAIN files, cover, listed)
    <3>1. Comparable(DOMAIN files, cover, old)
      BY <2>1, <2>3, <2>9 DEF CoveredBy
    <3> QED BY <2>7, <3>1 DEF Comparable, Covers
  <2>14. /\ settled2 \subseteq settled \cup {persist[p].file} /\ settled2 \subseteq DOMAIN files
         /\ settled \subseteq DOMAIN files
    <3>1. settled2 = DOMAIN files \ UnderWay' /\ settled = DOMAIN files \ UnderWay
      BY <2>4, <2>5, <2>8 DEF Settled
    <3> QED BY <1>5, <1>8, <3>1 DEF UnderWay, PersistSteps
  <2>15. persist'[p].at = "limit" => settled2 \subseteq settled
    <3>1. persist'[p].at = "limit" => persist'[p].file = persist[p].file
      BY <1>0, <2>3, ReturnMoves, NoPersistIs
    <3>2. settled2 = DOMAIN files \ UnderWay' /\ settled = DOMAIN files \ UnderWay
      BY <2>4, <2>5, <2>8 DEF Settled
    <3> QED BY <1>5, <1>8, <3>1, <3>2 DEF UnderWay, PersistSteps
  <2>16. /\ Claims(files, made, persist')
         /\ \E cover2 \in Listings : CoveredBy(files, made, persist', settled2, cover2)
    BY <1>0, <2>3, <2>6, <2>9, <2>10, <2>11, <2>12, <2>13, <2>14, <2>15, LimitReturn
  <2> QED BY <2>3, <2>4, <2>8, <2>16 DEF LimitInv
<1> QED BY <1>4, <1>7, <1>8

(* Processes that enforce the limits at once, each from a listing the others *)
(* make stale, keep the files of ended calls within both limits, but for    *)
(* what could not be removed.                                              *)
THEOREM LimitsHold == Spec => []LimitHolds
<1>1. Init => LimitInv
  <2>1. SUFFICES ASSUME Init PROVE LimitInv
    OBVIOUS
  <2>2. \A p \in Processes : persist[p].at # "limit"
    BY <2>1, NoPersistIs DEF Init
  <2>3. DOMAIN Live = {} /\ NoFiles \in Listings /\ ~Over(NoFiles)
    BY <2>1, NoFilesListed, NoneNotOver, LiveIs DEF Init
  <2>4. Claims(Live, made, persist) /\ Settled = {}
    BY <2>2, <2>3 DEF Claims, Settled
  <2>5. CoveredBy(Live, made, persist, Settled, NoFiles)
    BY <2>2, <2>3, <2>4, NoFilesListed DEF CoveredBy, Honest
  <2> QED BY <2>3, <2>4, <2>5 DEF LimitInv
<1>2. KeptInv /\ LimitInv /\ [Next]_vars => LimitInv'
  <2>1. ASSUME KeptInv, LimitInv, Next PROVE LimitInv'
    BY <2>1, NextSteps, LimitStep
  <2>2. ASSUME LimitInv, UNCHANGED vars PROVE LimitInv'
    BY <2>2 DEF vars, history, LimitInv, Settled, Live, UnderWay
  <2> QED BY <2>1, <2>2
<1>3. KeptInv /\ LimitInv => LimitHolds
  <2>1. SUFFICES ASSUME KeptInv, LimitInv, Over(files_with_sizes(Settled)) PROVE FALSE
    BY LiveIs DEF LimitHolds
  <2>2. PICK cover \in Listings : CoveredBy(Live, made, persist, Settled, cover)
    BY <2>1 DEF LimitInv
  <2>3. PICK small : small = files_with_sizes(Settled)
    OBVIOUS
  <2>4. /\ small \in Listings /\ DOMAIN small = Settled
        /\ \A f \in Settled : small[f] = IF dir[f] THEN SizeOf[f] ELSE 0
    <3>1. Settled \in SUBSET DOMAIN dir /\ TypeOK
      BY <2>1, LiveIs DEF KeptInv
    <3> QED BY <2>3, <3>1, ListingIs
  <2>5. /\ DOMAIN small \subseteq DOMAIN cover
        /\ \A f \in DOMAIN small : small[f] <= cover[f]
    <3>1. \A f \in Settled : f \in DOMAIN cover /\ cover[f] = SizeOf[f] /\ dir[f]
      BY <2>1, <2>2, SettledWritten DEF CoveredBy, Seen
    <3>2. \A f \in Settled : small[f] = cover[f] /\ small[f] \in Nat
      BY <2>4, <3>1, ListedSizes
    <3> QED BY <2>4, <3>1, <3>2
  <2>6. Over(cover)
    BY <2>1, <2>3, <2>4, <2>5, OverGrows
  <2> QED BY <2>2, <2>6 DEF CoveredBy
<1> QED BY <1>1, <1>2, <1>3, KeptInvariance, PTL DEF Spec
=============================================================================
