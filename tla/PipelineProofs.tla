--------------------------- MODULE PipelineProofs ---------------------------
(***************************************************************************)
(* Proofs about Pipeline for every number of threads, captures and         *)
(* breadcrumbs, every sample rate, ring size and payload.                  *)
(***************************************************************************)
EXTENDS Pipeline, FiniteSetTheorems, SequenceTheorems, NaturalsInduction, TLAPS

-----------------------------------------------------------------------------
(* The scrubber *)

LEMMA LeastOfSome ==
  ASSUME NEW S \in SUBSET Nat, S # {} PROVE Min(S) \in S
<1> DEFINE Less == OpToRel(<, Nat)
<1>1. PICK x \in S : \A y \in S : ~(<<y, x>> \in Less)
  <2>1. IsWellFoundedOn(Less, Nat)
    BY NatLessThanWellFounded
  <2> HIDE DEF Less
  <2> QED BY <2>1, WFMin
<1>2. ASSUME NEW y \in S PROVE x <= y
  <2>1. y < x => <<y, x>> \in Less
    BY DEF OpToRel
  <2> HIDE DEF Less
  <2>2. ~(y < x)
    BY <1>1, <2>1
  <2> QED BY <2>2
<1> QED BY <1>2 DEF Min

(* Whatever a leaf says, nothing of what scrub_value makes of it is exposed *)
LEMMA ScrubHides ==
  ASSUME NEW leaf \in Leaves
  PROVE  ScrubLeaf(leaf) \in Leaves /\ ~Exposed(ScrubLeaf(leaf))
<1> DEFINE I == {i \in 1..Len(leaf.path) : leaf.path[i] # "plain"}
           first == SelectInSeq(leaf.path, LAMBDA key : key # "plain")
<1>1. leaf = [path |-> leaf.path, text |-> leaf.text]
      /\ leaf.path \in Seq(KeyClasses) /\ leaf.text \in Texts
      /\ DOMAIN leaf.path = 1..Len(leaf.path) /\ Len(leaf.path) \in Nat
  BY DEF Leaves
<1>2. first = IF I # {} THEN Min(I) ELSE 0
  BY DEF SelectInSeq
<1>3. I # {} => first \in I
  <2>1. I \in SUBSET Nat
    BY <1>1
  <2> QED BY <1>2, <2>1, LeastOfSome
<1> HIDE DEF first
<1>4. CASE first # 0 /\ leaf.path[first] = "sensitive"
  <2>1. ScrubLeaf(leaf) = [path |-> SubSeq(leaf.path, 1, first), text |-> "redacted"]
    BY <1>4 DEF ScrubLeaf, first
  <2>2. SubSeq(leaf.path, 1, first) \in Seq(KeyClasses)
    <3>1. first \in 1..Len(leaf.path)
      BY <1>2, <1>3, <1>4
    <3>2. \A i \in 1..first : leaf.path[i] \in KeyClasses
      BY <1>1, <3>1
    <3> QED BY <3>1, <3>2, SubSeqProperties
  <2> QED BY <2>1, <2>2 DEF Leaves, Texts, Exposed
<1>5. CASE ~(first # 0 /\ leaf.path[first] = "sensitive")
  <2> DEFINE text == IF first = 0 /\ leaf.text = "secret" THEN "redacted" ELSE leaf.text
  <2>1. ScrubLeaf(leaf) = [leaf EXCEPT !.text = text]
    BY <1>5 DEF ScrubLeaf, first
  <2>2. ScrubLeaf(leaf) = [path |-> leaf.path, text |-> text]
    BY <1>1, <2>1
  <2>3. CASE first = 0
    <3>1. \A i \in DOMAIN leaf.path : leaf.path[i] = "plain"
      BY <1>1, <1>3, <2>3
    <3> QED BY <1>1, <2>2, <2>3, <3>1 DEF Leaves, Texts, Exposed
  <2>4. CASE first # 0
    <3>1. first \in DOMAIN leaf.path /\ leaf.path[first] = "identity"
      BY <1>1, <1>2, <1>3, <1>5, <2>4 DEF KeyClasses
    <3> QED BY <1>1, <2>2, <2>4, <3>1 DEF Leaves, Texts, Exposed
  <2> QED BY <2>3, <2>4
<1> QED BY <1>4, <1>5

LEMMA ScrubbedHides ==
  ASSUME NEW body \in SUBSET Leaves
  PROVE  /\ scrub_value(body) \in SUBSET Leaves
         /\ \A leaf \in scrub_value(body) : ~Exposed(leaf)
BY ScrubHides DEF scrub_value

-----------------------------------------------------------------------------
(* The ring of breadcrumbs *)

(* The last n of a sequence, or all of it if it is not that long *)
LEMMA LastFewIs ==
  ASSUME NEW S, NEW s \in Seq(S), NEW n \in Nat
  PROVE  LET last == LastFew(s, n)
         IN  /\ last \in Seq(S)
             /\ \/ Len(last) = n /\ Len(s) >= n
                \/ Len(last) = Len(s) /\ Len(s) < n
             /\ \A i \in 1..Len(last) : last[i] = s[Len(s) - Len(last) + i]
<1>1. Len(s) \in Nat /\ \A i \in 1..Len(s) : s[i] \in S
  BY LenProperties
<1>2. CASE Len(s) > n
  <2>1. LastFew(s, n) = SubSeq(s, Len(s) - n + 1, Len(s))
    BY <1>2 DEF LastFew
  <2>2. \A i \in (Len(s) - n + 1)..Len(s) : s[i] \in S
    BY <1>1, <1>2
  <2>3. /\ LastFew(s, n) \in Seq(S) /\ Len(LastFew(s, n)) = n
        /\ \A i \in 1..n : LastFew(s, n)[i] = s[Len(s) - n + i]
    BY <1>1, <1>2, <2>1, <2>2, SubSeqProperties
  <2> QED BY <1>1, <1>2, <2>3
<1>3. CASE ~(Len(s) > n)
  <2>1. LastFew(s, n) = SubSeq(s, 1, Len(s))
    BY <1>1, <1>3 DEF LastFew
  <2>2. LastFew(s, n) = s
    BY <2>1, SubSeqFull
  <2>3. \A i \in 1..Len(s) : s[i] = s[Len(s) - Len(s) + i]
    BY <1>1
  <2> QED BY <1>1, <1>3, <2>2, <2>3
<1> QED BY <1>1, <1>2, <1>3

(* Pushing on a trimmed ring and trimming again keeps the newest *)
LEMMA RingKeepsLatest ==
  ASSUME NEW S, NEW s \in Seq(S), NEW x \in S, NEW n \in Nat \ {0}
  PROVE  LET ring == Append(LastFew(s, n), x)
         IN  LastFew(Append(s, x), n) = IF Len(ring) > n THEN Tail(ring) ELSE ring
<1> DEFINE last == LastFew(s, n)
           ring == Append(last, x)
           all == Append(s, x)
           lastAll == LastFew(all, n)
<1> DEFINE k == Len(last)
<1>1. /\ last \in Seq(S) /\ k \in Nat
      /\ \/ k = n /\ Len(s) >= n
         \/ k = Len(s) /\ Len(s) < n
      /\ \A i \in 1..k : last[i] = s[Len(s) - k + i]
  BY n \in Nat, LastFewIs, LenProperties
<1> HIDE DEF last
<1>2. /\ ring \in Seq(S) /\ Len(ring) = k + 1
      /\ \A i \in 1..k : ring[i] = last[i]
      /\ ring[k + 1] = x
  BY <1>1, AppendProperties
<1>3. /\ Len(s) \in Nat /\ all \in Seq(S) /\ Len(all) = Len(s) + 1
      /\ \A i \in 1..Len(s) : all[i] = s[i]
      /\ all[Len(s) + 1] = x
  BY AppendProperties, LenProperties
<1> HIDE DEF ring, all
<1> DEFINE m == Len(lastAll)
<1>4. /\ lastAll \in Seq(S) /\ m \in Nat
      /\ \/ m = n /\ Len(all) >= n
         \/ m = Len(all) /\ Len(all) < n
      /\ \A i \in 1..m : lastAll[i] = all[Len(all) - m + i]
  BY n \in Nat, <1>3, LastFewIs, LenProperties
<1> HIDE DEF lastAll
<1>5. CASE k = n
  <2>1. m = n /\ Len(s) >= n
    BY <1>1, <1>3, <1>4, <1>5
  <2>2. ring # <<>>
    BY <1>1, <1>2
  <2>3. /\ Tail(ring) \in Seq(S) /\ Len(Tail(ring)) = n
        /\ \A i \in 1..n : Tail(ring)[i] = ring[i + 1]
    BY <1>2, <1>5, <2>2, HeadTailProperties
  <2>4. ASSUME NEW i \in 1..n PROVE lastAll[i] = Tail(ring)[i]
    <3>1. lastAll[i] = all[Len(s) + 1 - n + i] /\ Tail(ring)[i] = ring[i + 1]
      BY <1>3, <1>4, <2>1, <2>3
    <3>2. CASE i = n
      <4>1. Len(s) + 1 - n + i = Len(s) + 1
        BY <1>3, <3>2
      <4> QED BY <1>2, <1>3, <1>5, <3>1, <3>2, <4>1
    <3>3. CASE i # n
      <4>1. i + 1 \in 1..k /\ Len(s) + 1 - n + i \in 1..Len(s)
            /\ Len(s) - k + (i + 1) = Len(s) + 1 - n + i
        BY <1>3, <1>5, <2>1, <3>3
      <4>2. ring[i + 1] = s[Len(s) + 1 - n + i]
        BY <1>1, <1>2, <4>1
      <4> QED BY <1>3, <3>1, <4>1, <4>2
    <3> QED BY <3>2, <3>3
  <2>5. lastAll = Tail(ring)
    BY <1>4, <2>1, <2>3, <2>4, SeqEqual
  <2>6. Len(ring) > n
    BY <1>2, <1>5
  <2> QED BY <2>5, <2>6 DEF ring, lastAll, all, last
<1>6. CASE k # n
  <2>1. k = Len(s) /\ k < n /\ m = k + 1 /\ Len(all) = m
    BY <1>1, <1>3, <1>4, <1>6
  <2>2. ASSUME NEW i \in 1..m PROVE lastAll[i] = ring[i]
    <3>1. lastAll[i] = all[i]
      <4>1. Len(all) - m + i = i
        BY <1>3, <2>1
      <4> QED BY <1>4, <4>1
    <3>2. CASE i = m
      BY <1>2, <1>3, <2>1, <3>1, <3>2
    <3>3. CASE i # m
      <4>1. i \in 1..k /\ Len(s) - k + i = i
        BY <1>3, <2>1, <3>3
      <4>2. ring[i] = s[i]
        BY <1>1, <1>2, <4>1
      <4> QED BY <1>3, <2>1, <3>1, <4>1, <4>2
    <3> QED BY <3>2, <3>3
  <2>3. lastAll = ring
    BY <1>2, <1>4, <2>1, <2>2, SeqEqual
  <2>4. ~(Len(ring) > n)
    BY <1>2, <2>1
  <2> QED BY <2>3, <2>4 DEF ring, lastAll, all, last
<1> QED BY <1>5, <1>6

-----------------------------------------------------------------------------
(* The sampler's arithmetic *)

LEMMA DivMod ==
  ASSUME NEW n \in Nat, NEW b \in Nat \ {0}
  PROVE  n \div b \in Nat /\ n % b \in 0..(b - 1) /\ n = b * (n \div b) + (n % b)
OBVIOUS

LEMMA DivModUnique ==
  ASSUME NEW q \in Nat, NEW b \in Nat \ {0}, NEW p \in 0..(b - 1), NEW n \in Nat, n = b * q + p
  PROVE  n \div b = q /\ n % b = p
OBVIOUS

LEMMA NextRemainder ==
  ASSUME NEW n \in Nat, NEW b \in Nat \ {0}
  PROVE  \/ /\ n % b = b - 1
            /\ (n + 1) \div b = (n \div b) + 1 /\ (n + 1) % b = 0
         \/ /\ n % b < b - 1
            /\ (n + 1) \div b = n \div b /\ (n + 1) % b = (n % b) + 1
<1>1. PICK q \in Nat, p \in 0..(b - 1) : n \div b = q /\ n % b = p /\ n = b * q + p
  BY DivMod
<1>2. CASE p = b - 1
  <2>1. PICK m \in Nat, k \in Nat, z \in 0..(b - 1) : m = n + 1 /\ k = q + 1 /\ z = 0
    OBVIOUS
  <2>2. m = b * k + z
    BY <1>1, <1>2, <2>1
  <2>3. m \div b = k /\ m % b = z
    BY <2>2, DivModUnique
  <2> QED BY <1>1, <1>2, <2>1, <2>3
<1>3. CASE p # b - 1
  <2>1. n + 1 = b * q + (p + 1) /\ p + 1 \in 0..(b - 1)
    BY <1>1, <1>3
  <2>2. (n + 1) \div b = q /\ (n + 1) % b = p + 1
    BY n + 1 \in Nat, <2>1, DivModUnique
  <2>3. p < b - 1
    BY <1>3
  <2> QED BY <1>1, <2>2, <2>3
<1> QED BY <1>2, <1>3

(* A sum with a multiple is monotone in it *)
LEMMA TimesUp ==
  ASSUME NEW f \in Nat \ {0}, NEW a \in Nat, NEW b \in Nat, a < b
  PROVE  a * f + f <= b * f
<1>1. PICK d \in Nat : b = a + 1 + d
  <2>1. b - a - 1 \in Nat /\ b = a + 1 + (b - a - 1)
    OBVIOUS
  <2> QED BY <2>1
<1>2. b * f = a * f + f + d * f
  BY <1>1
<1>3. d * f \in Nat /\ a * f \in Nat
  OBVIOUS
<1> QED BY <1>2, <1>3

(* The buckets below a rate are the first ones, as many as the rate is in    *)
(* buckets, rounded up.                                                     *)
LEMMA RateRoundsUp ==
  ASSUME NEW f \in Nat \ {0}, NEW rate \in Nat, NEW p \in Nat
  PROVE  p * f < rate <=> p < (rate + f - 1) \div f
<1>1. rate + f - 1 \in Nat
  OBVIOUS
<1>2. PICK q \in Nat, z \in 0..(f - 1) :
        (rate + f - 1) \div f = q /\ rate + f - 1 = f * q + z
  BY <1>1, DivMod
<1>3. PICK u \in Nat, w \in Nat : u = p * f /\ w = q * f
  OBVIOUS
<1>4. rate + f - 1 = w + z
  BY <1>2, <1>3
<1>5. CASE p < q
  <2>1. u + f <= w
    BY <1>3, <1>5, TimesUp
  <2>2. u < rate
    BY <1>4, <2>1
  <2> QED BY <1>2, <1>3, <1>5, <2>2
<1>6. CASE q < p
  <2>1. w + f <= u
    BY <1>3, <1>6, TimesUp
  <2>2. ~(u < rate)
    BY <1>4, <2>1
  <2> QED BY <1>2, <1>3, <1>6, <2>2
<1>7. CASE q = p
  <2>1. ~(u < rate)
    BY <1>3, <1>4, <1>7
  <2> QED BY <1>2, <1>3, <1>7, <2>1
<1> QED BY <1>5, <1>6, <1>7

(* ... at least one, and at most all of them, away from the edges *)
LEMMA FirstIs ==
  ASSUME NEW b \in Nat \ {0}, NEW f \in Nat \ {0}, NEW rate \in 1..(b * f)
  PROVE  (rate + f - 1) \div f \in 1..b
<1> DEFINE first == (rate + f - 1) \div f
<1>1. first \in Nat /\ rate \in Nat /\ b * f \in Nat
  BY rate + f - 1 \in Nat, DivMod
<1>2. 0 < first
  BY <1>1, 0 * f < rate, RateRoundsUp
<1>3. ~(b * f < rate)
  BY <1>1
<1>4. ~(b < first)
  BY <1>1, <1>3, RateRoundsUp
<1> HIDE DEF first
<1>5. first \in 1..b
  BY <1>1, <1>2, <1>4
<1> QED BY <1>5 DEF first

(* What the sampler keeps of n events when it keeps the first r of b *)
KeptOf(n, b, r) == (n \div b) * r + IF n % b < r THEN n % b ELSE r

LEMMA SamplerCounts ==
  ASSUME NEW n \in Nat, NEW b \in Nat \ {0}, NEW r \in 1..b
  PROVE  KeptOf(n + 1, b, r) = KeptOf(n, b, r) + IF n % b < r THEN 1 ELSE 0
<1>1. PICK q \in Nat, p \in 0..(b - 1) : n \div b = q /\ n % b = p
  BY DivMod
<1>2. CASE p = b - 1
  <2>1. (n + 1) \div b = q + 1 /\ (n + 1) % b = 0
    <3>1. n % b = b - 1 /\ ~(n % b < b - 1)
      BY <1>1, <1>2
    <3>2. (n + 1) \div b = (n \div b) + 1 /\ (n + 1) % b = 0
      BY <3>1, NextRemainder
    <3> QED BY <1>1, <3>2
  <2>2. (q + 1) * r + 0 = q * r + r
    OBVIOUS
  <2> QED BY <1>1, <1>2, <2>1, <2>2 DEF KeptOf
<1>3. CASE p # b - 1
  <2>1. (n + 1) \div b = q /\ (n + 1) % b = p + 1
    BY <1>1, <1>3, NextRemainder
  <2>2. q * r \in Nat
    OBVIOUS
  <2> QED BY <1>1, <2>1, <2>2 DEF KeptOf
<1> QED BY <1>2, <1>3

-----------------------------------------------------------------------------
(* The steps, and how they move threads *)

USE PipelineAssumption

(* What an event of the application, or of the tracing layer, brings *)
Own == Brought \cup {Nothing}

Steps(t) ==
  \/ \E own \in Own, body \in Bodies : capture_event(t, own, body)
  \/ \E body \in Bodies : Ingest(t, body)
  \/ process_event(t) \/ sanitized_event_for_hook(t) \/ before_send(t) \/ sample(t)
  \/ deliver(t, "deliver") \/ deliver(t, "ingest")
  \/ configure_scope(t) \/ add_breadcrumb(t) \/ Push(t)

LEMMA OwnEvents ==
  ASSUME NEW own \in Own, NEW body \in Bodies
  PROVE  own \in Scopes /\ EventOf(own, body) \in ErrorEvents /\ body \in SUBSET Leaves
<1>1. Nothing \in Scopes
  BY <<>> \in Seq(Crumbs) DEF Nothing, Scopes, Names
<1>2. own \in Scopes /\ body \in SUBSET Leaves
  BY <1>1 DEF Own
<1>3. own.user \in Names /\ own.tags \in Names /\ own.crumbs \in Seq(Crumbs)
  BY <1>2 DEF Scopes
<1> QED BY <1>2, <1>3 DEF EventOf, ErrorEvents

LEMMA NextIsSteps == Next => \E t \in Threads : Steps(t)
<1>1. ASSUME NEW t \in Threads, NEW filter \in Filters, NEW body \in Bodies,
             OnEvent(t, filter, body)
      PROVE  Steps(t)
  BY <1>1 DEF OnEvent, Own, Steps
<1>2. ASSUME NEW t \in Threads, NEW own \in Brought, NEW body \in Bodies,
             capture_event(t, own, body)
      PROVE  Steps(t)
  BY <1>2 DEF Own, Steps
<1> QED BY <1>1, <1>2 DEF Next, Steps

InState(positions) == {t \in Threads : pc[t] \in positions}

LEMMA InStateFinite ==
  ASSUME NEW positions
  PROVE  IsFiniteSet(InState(positions)) /\ Cardinality(InState(positions)) \in Nat
BY FS_Subset, FS_CardinalityType DEF InState

(* One thread's step changes by one how many are somewhere *)
LEMMA StepCounts ==
  ASSUME TypeOK, NEW t \in Threads, NEW from, NEW to, Step(t, from, to), NEW positions
  PROVE  Cardinality(InState(positions)')
           = Cardinality(InState(positions)) + (IF to \in positions THEN 1 ELSE 0)
               - (IF from \in positions THEN 1 ELSE 0)
<1> DEFINE S == InState(positions)
           T == InState(positions)'
<1>1. /\ pc[t] = from /\ pc'[t] = to
      /\ \A u \in Threads \ {t} : pc'[u] = pc[u]
  BY DEF TypeOK, Step
<1>2. IsFiniteSet(S) /\ Cardinality(S) \in Nat
  BY InStateFinite
<1>3. CASE to \in positions /\ from \notin positions
  <2>1. T = S \cup {t} /\ t \notin S
    BY <1>1, <1>3 DEF InState
  <2>2. Cardinality(S \cup {t}) = Cardinality(S) + 1
    BY <1>2, <2>1, FS_AddElement
  <2> QED BY <1>2, <1>3, <2>1, <2>2
<1>4. CASE to \notin positions /\ from \in positions
  <2>1. T = S \ {t} /\ t \in S
    BY <1>1, <1>4 DEF InState
  <2>2. Cardinality(S \ {t}) = Cardinality(S) - 1
    BY <1>2, <2>1, FS_RemoveElement
  <2> QED BY <1>2, <1>4, <2>1, <2>2
<1>5. CASE to \in positions <=> from \in positions
  <2>1. T = S
    BY <1>1, <1>5 DEF InState
  <2> QED BY <1>2, <1>5, <2>1
<1> QED BY <1>3, <1>4, <1>5

-----------------------------------------------------------------------------
(* The inductive invariant: no more breadcrumbs are under way than may be  *)
(* added, and the scope's ring holds the latest of those that got on it.   *)

AddsBounded == Adds <= MaxAdds
RingIsLatest == scope.crumbs = LastFew(pushed, MaxBreadcrumbs)
IInv == TypeOK /\ AddsBounded /\ RingIsLatest

LEMMA AddsIs == Adds = Len(pushed) + refused + Cardinality(InState({"push"}))
<1>1. {t \in Threads : pc[t] = "push"} = InState({"push"})
  BY DEF InState
<1> QED BY <1>1 DEF Adds

(* A breadcrumb about to be pushed is counted already, so its number is one *)
LEMMA PushHasRoom ==
  ASSUME TypeOK, AddsBounded, NEW t \in Threads, pc[t] = "push"
  PROVE  [by |-> t, n |-> Len(pushed) + 1] \in Crumbs
<1> DEFINE S == InState({"push"})
<1>1. IsFiniteSet(S) /\ Cardinality(S) \in Nat /\ t \in S
  BY InStateFinite DEF InState
<1> HIDE DEF S
<1>2. Cardinality(S) # 0
  BY <1>1, FS_EmptySet
<1>3. Len(pushed) + refused + Cardinality(S) <= MaxAdds
  BY AddsIs DEF AddsBounded, S
<1>4. Len(pushed) \in Nat /\ refused \in Nat
  BY DEF TypeOK
<1>5. Len(pushed) + 1 \in 1..MaxAdds
  BY <1>1, <1>2, <1>3, <1>4
<1> QED BY <1>5 DEF Crumbs, Names

(* What the scope lays over an event is an event *)
LEMMA ApplyIsEvent ==
  ASSUME TypeOK, NEW own \in Scopes, NEW body \in SUBSET Leaves,
         NEW e, e = apply_to_event(EventOf(own, body))
  PROVE  /\ e \in ErrorEvents
         /\ e.user = IF own.user = None THEN scope.user ELSE own.user
         /\ e.tags = IF scope.tags = None THEN own.tags ELSE scope.tags
         /\ e.crumbs = scope.crumbs \o own.crumbs
<1> DEFINE user == IF own.user = None THEN scope.user ELSE own.user
           tags == IF scope.tags = None THEN own.tags ELSE scope.tags
           crumbs == scope.crumbs \o own.crumbs
           given == EventOf(own, body)
<1>1. /\ given = [user |-> own.user, tags |-> own.tags, crumbs |-> own.crumbs, body |-> body]
      /\ own.user \in Names /\ own.tags \in Names /\ own.crumbs \in Seq(Crumbs)
      /\ scope.user \in Names /\ scope.tags \in Names /\ scope.crumbs \in Seq(Crumbs)
  BY DEF TypeOK, Scopes, EventOf
<1> HIDE DEF given
<1>2. crumbs \in Seq(Crumbs)
  BY <1>1, ConcatProperties
<1>3. apply_to_event(given) = [user |-> user, tags |-> tags, crumbs |-> crumbs, body |-> body]
  <2>1. apply_to_event(given)
          = [given EXCEPT !.user = IF given.user = None THEN scope.user ELSE given.user,
                      !.tags = IF scope.tags = None THEN given.tags ELSE scope.tags,
                      !.crumbs = scope.crumbs \o given.crumbs]
    BY DEF apply_to_event
  <2>2. given.user = own.user /\ given.tags = own.tags /\ given.crumbs = own.crumbs
    BY <1>1
  <2>3. apply_to_event(given) = [given EXCEPT !.user = user, !.tags = tags, !.crumbs = crumbs]
    BY <2>1, <2>2
  <2> HIDE DEF user, tags, crumbs
  <2> QED BY <1>1, <2>3
<1>4. user \in Names /\ tags \in Names
  BY <1>1
<1> HIDE DEF user, tags, crumbs
<1>5. /\ apply_to_event(given) \in ErrorEvents /\ apply_to_event(given).user = user
      /\ apply_to_event(given).tags = tags /\ apply_to_event(given).crumbs = crumbs
  BY <1>2, <1>3, <1>4 DEF ErrorEvents
<1> QED BY <1>5 DEF given, user, tags, crumbs

LEMMA NoEventIsEvent == NoEvent \in ErrorEvents
BY <<>> \in Seq(Crumbs) DEF NoEvent, Nothing, EventOf, ErrorEvents, Names

-----------------------------------------------------------------------------
(* The type *)

LEMMA BodyReplaced ==
  ASSUME NEW e \in ErrorEvents, NEW body \in SUBSET Leaves
  PROVE  /\ [e EXCEPT !.body = body] \in ErrorEvents
         /\ [e EXCEPT !.body = body].body = body
BY DEF ErrorEvents

LEMMA PassOnKeepsType ==
  ASSUME TypeOK, NEW t \in Threads, NEW from, NEW to \in Positions,
         NEW e \in ErrorEvents, PassOn(t, from, to, e),
         brought' \in [Threads -> Scopes \cup {None}]
  PROVE  TypeOK'
<1>1. event' \in [Threads -> ErrorEvents]
  BY DEF TypeOK, PassOn
<1>2. pc' \in [Threads -> Positions]
  BY DEF TypeOK, PassOn, Step
<1> QED BY <1>1, <1>2 DEF TypeOK, PassOn, NothingHanded

LEMMA FinishKeepsType ==
  ASSUME TypeOK, NEW t \in Threads, NEW from, Step(t, from, "idle"), Finish(t)
  PROVE  /\ event' \in [Threads -> ErrorEvents] /\ pc' \in [Threads -> Positions]
         /\ brought' \in [Threads -> Scopes \cup {None}]
BY NoEventIsEvent DEF TypeOK, Finish, Step, Positions

LEMMA DroppedKeepsType ==
  ASSUME TypeOK, NEW t \in Threads, NEW from, Dropped(t, from),
         sample_counter' \in Nat, kept' \in Nat, missed' \in Nat
  PROVE  TypeOK'
<1>1. /\ event' \in [Threads -> ErrorEvents] /\ pc' \in [Threads -> Positions]
      /\ brought' \in [Threads -> Scopes \cup {None}]
  BY FinishKeepsType DEF Dropped
<1>2. events_captured' \in Nat /\ events_dropped' \in Nat
  BY DEF TypeOK, Dropped, Count
<1> QED BY <1>1, <1>2 DEF TypeOK, Dropped, NothingHanded

LEMMA PanicsKeepsType ==
  ASSUME TypeOK, NEW t \in Threads, NEW from, Panics(t, from)
  PROVE  TypeOK'
<1>1. /\ event' \in [Threads -> ErrorEvents] /\ pc' \in [Threads -> Positions]
      /\ brought' \in [Threads -> Scopes \cup {None}]
  BY FinishKeepsType DEF Panics
<1>2. events_captured' \in Nat /\ events_dropped' \in Nat /\ panicked' \in Nat
  BY DEF TypeOK, Panics, Count
<1> QED BY <1>1, <1>2 DEF TypeOK, Panics, NothingHanded

LEMMA HookKeepsType ==
  ASSUME TypeOK, NEW t \in Threads, NEW from, NEW to \in Positions, Hook(t, from, to)
  PROVE  TypeOK'
<1>1. event[t] \in ErrorEvents /\ event[t].body \in SUBSET Leaves
      /\ brought \in [Threads -> Scopes \cup {None}]
  BY DEF TypeOK, ErrorEvents
<1>2. ASSUME NEW added \in {{}} \cup {{leaf} : leaf \in Additions},
             PassOn(t, from, to, [event[t] EXCEPT !.body = @ \cup added]), UNCHANGED brought
      PROVE  TypeOK'
  <2>1. event[t].body \cup added \in SUBSET Leaves
    BY <1>1
  <2>2. [event[t] EXCEPT !.body = event[t].body \cup added] \in ErrorEvents
    BY <1>1, <2>1, BodyReplaced
  <2> QED BY <1>1, <1>2, <2>2, PassOnKeepsType
<1>3. ASSUME NEW own \in Brought, NEW body \in Bodies,
             PassOn(t, from, to, EventOf(own, body)), brought' = [brought EXCEPT ![t] = None]
      PROVE  TypeOK'
  <2>1. EventOf(own, body) \in ErrorEvents
    BY OwnEvents DEF Own
  <2> QED BY <1>1, <1>3, <2>1, PassOnKeepsType
<1>4. CASE Dropped(t, from) /\ UNCHANGED <<sample_counter, kept, missed>>
  BY <1>4, DroppedKeepsType DEF TypeOK
<1>5. CASE Panics(t, from)
  BY <1>5, PanicsKeepsType
<1> QED BY <1>2, <1>3, <1>4, <1>5 DEF Hook

LEMMA TypeStep ==
  ASSUME IInv, NEW t \in Threads, Steps(t)
  PROVE  TypeOK'
<1> USE DEF IInv
<1>1. ASSUME NEW own \in Own, NEW body \in Bodies, capture_event(t, own, body) PROVE TypeOK'
  <2>1. own \in Scopes /\ body \in SUBSET Leaves
    BY OwnEvents
  <2>2. event' \in [Threads -> ErrorEvents]
    BY <1>1, <2>1, ApplyIsEvent DEF TypeOK, capture_event
  <2>3. pc' \in [Threads -> Positions] /\ brought' \in [Threads -> Scopes \cup {None}]
    BY <1>1, <2>1 DEF TypeOK, capture_event, Step, Positions, UnderReadLock
  <2> QED BY <1>1, <2>2, <2>3 DEF TypeOK, capture_event, Count, NothingHanded
<1>2. ASSUME NEW body \in Bodies, Ingest(t, body) PROVE TypeOK'
  <2>1. EventOf(Nothing, body) \in ErrorEvents
    BY OwnEvents DEF Own
  <2>2. event' \in [Threads -> ErrorEvents]
    BY <1>2, <2>1 DEF TypeOK, Ingest
  <2>3. pc' \in [Threads -> Positions]
    BY <1>2 DEF TypeOK, Ingest, Step, Positions
  <2> QED BY <1>2, <2>2, <2>3 DEF TypeOK, Ingest, Count, NothingHanded
<1>3. CASE process_event(t)
  BY <1>3, HookKeepsType DEF process_event, Positions, UnderReadLock
<1>4. CASE sanitized_event_for_hook(t)
  <2> DEFINE body == IF options.send_default_pii THEN event[t].body
                     ELSE scrub_value(event[t].body)
  <2>1. event[t] \in ErrorEvents /\ body \in SUBSET Leaves
    BY ScrubbedHides DEF TypeOK, ErrorEvents
  <2>2. [event[t] EXCEPT !.body = body] \in ErrorEvents
    BY <2>1, BodyReplaced
  <2>3. "before_send" \in Positions
    BY DEF Positions, UnderReadLock
  <2>4. PassOn(t, "sanitize", "before_send", [event[t] EXCEPT !.body = body]) /\ UNCHANGED brought
    BY <1>4 DEF sanitized_event_for_hook
  <2>5. brought' \in [Threads -> Scopes \cup {None}]
    BY <2>4 DEF TypeOK
  <2> QED BY <2>2, <2>3, <2>4, <2>5, PassOnKeepsType
<1>5. CASE before_send(t)
  BY <1>5, HookKeepsType DEF before_send, Positions, UnderReadLock
<1>6. CASE sample(t)
  <2>1. sample_counter' \in Nat
    BY <1>6 DEF TypeOK, sample
  <2>2. CASE SampledOut(t)
    <3>1. kept' \in Nat /\ missed' \in Nat
      BY <2>2 DEF TypeOK, SampledOut
    <3>2. Dropped(t, "sample")
      BY <2>2 DEF SampledOut
    <3> QED BY <2>1, <3>1, <3>2, DroppedKeepsType
  <2>3. CASE SampledIn(t)
    <3>1. pc' \in [Threads -> Positions]
      BY <2>3 DEF TypeOK, SampledIn, Step, Positions, UnderReadLock
    <3> QED BY <2>1, <2>3, <3>1 DEF TypeOK, SampledIn, NothingHanded
  <2> QED BY <1>6, <2>2, <2>3 DEF sample
<1>7. ASSUME NEW from, deliver(t, from) PROVE TypeOK'
  <2>1. /\ event' \in [Threads -> ErrorEvents] /\ pc' \in [Threads -> Positions]
        /\ brought' \in [Threads -> Scopes \cup {None}]
    BY <1>7, FinishKeepsType DEF deliver
  <2>2. envelope' \in ErrorEvents \cup {None} /\ handed' \in Nat
    <3>1. event[t] \in ErrorEvents /\ event[t].body \in SUBSET Leaves
      BY DEF TypeOK, ErrorEvents
    <3>2. scrub_value(event[t].body) \in SUBSET Leaves
      BY <3>1, ScrubbedHides
    <3> DEFINE body == IF options.send_default_pii THEN event[t].body
                       ELSE scrub_value(event[t].body)
    <3>3. [event[t] EXCEPT !.body = body] \in ErrorEvents
      BY <3>1, <3>2, BodyReplaced
    <3>4. \/ envelope' = [event[t] EXCEPT !.body = body] /\ handed' = handed + 1
          \/ NothingHanded
      BY <1>7 DEF deliver
    <3> HIDE DEF body
    <3>5. handed \in Nat
      BY DEF TypeOK
    <3>6. CASE NothingHanded
      BY <3>5, <3>6 DEF NothingHanded
    <3>7. CASE envelope' = [event[t] EXCEPT !.body = body] /\ handed' = handed + 1
      <4>1. envelope' \in ErrorEvents
        BY <3>3, <3>7
      <4> QED BY <3>5, <3>7, <4>1
    <3> QED BY <3>4, <3>6, <3>7
  <2>3. events_captured' \in Nat /\ events_dropped' \in Nat
    BY <1>7 DEF TypeOK, deliver, Count
  <2> QED BY <1>7, <2>1, <2>2, <2>3 DEF TypeOK, deliver
<1>8. CASE configure_scope(t)
  <2>1. scope' \in Scopes /\ scope'.crumbs = scope.crumbs
    BY <1>8 DEF TypeOK, configure_scope, Scopes, Names
  <2> QED BY <1>8, <2>1 DEF TypeOK, configure_scope, NothingHanded
<1>9. CASE add_breadcrumb(t)
  <2>1. pc' \in [Threads -> Positions]
    BY <1>9 DEF TypeOK, add_breadcrumb, Step, Positions
  <2> QED BY <1>9, <2>1 DEF TypeOK, add_breadcrumb, Count, NothingHanded
<1>10. CASE Push(t)
  <2> DEFINE crumb == [by |-> t, n |-> Len(pushed) + 1]
             crumbs == Append(scope.crumbs, crumb)
             ring == IF Len(crumbs) > MaxBreadcrumbs THEN Tail(crumbs) ELSE crumbs
  <2>1. crumb \in Crumbs
    BY <1>10, PushHasRoom DEF Push, Step
  <2> HIDE DEF crumb
  <2>2. /\ scope.crumbs \in Seq(Crumbs) /\ pushed \in Seq(Crumbs)
        /\ Len(scope.crumbs) \in Nat /\ Len(scope.crumbs) <= MaxBreadcrumbs
    BY DEF TypeOK, Scopes
  <2>3. /\ crumbs \in Seq(Crumbs) /\ crumbs # <<>>
        /\ Len(crumbs) = Len(scope.crumbs) + 1
    BY <2>1, <2>2, AppendProperties
  <2>4. ring \in Seq(Crumbs) /\ Len(ring) <= MaxBreadcrumbs
    BY <2>2, <2>3, HeadTailProperties
  <2>5. scope' = [scope EXCEPT !.crumbs = ring] /\ pushed' = Append(pushed, crumb)
    BY <1>10 DEF Push, crumb
  <2> HIDE DEF ring
  <2>6. scope' \in Scopes /\ scope'.crumbs = ring
    BY <2>4, <2>5 DEF TypeOK, Scopes
  <2>7. pushed' \in Seq(Crumbs)
    BY <2>1, <2>2, <2>5, AppendProperties
  <2>8. pc' \in [Threads -> Positions]
    BY <1>10 DEF TypeOK, Push, Step, Positions
  <2> QED BY <1>10, <2>4, <2>6, <2>7, <2>8 DEF TypeOK, Push, NothingHanded
<1> QED BY <1>1, <1>2, <1>3, <1>4, <1>5, <1>6, <1>7, <1>8, <1>9, <1>10 DEF Steps

-----------------------------------------------------------------------------
(* What a step leaves alone *)

LEMMA OthersKeep ==
  ASSUME TypeOK, NEW t \in Threads, Steps(t), NEW u \in Threads \ {t}
  PROVE  pc'[u] = pc[u] /\ event'[u] = event[u] /\ brought'[u] = brought[u]
BY DEF TypeOK, Steps, capture_event, Ingest, process_event, sanitized_event_for_hook,
       before_send, sample, SampledIn, SampledOut, deliver, configure_scope, add_breadcrumb,
       Push, Hook, PassOn, Dropped, Panics, Finish, Step

LEMMA OptionsStay == ASSUME NEW t, Steps(t) PROVE options' = options
BY DEF Steps, capture_event, Ingest, process_event, sanitized_event_for_hook,
       before_send, sample, SampledIn, SampledOut, deliver, configure_scope, add_breadcrumb,
       Push, Hook, PassOn, Dropped, Panics

(* A step in the pipeline changes neither scope nor breadcrumbs, and no     *)
(* thread goes to or comes from pushing one.                               *)
LEMMA PipelineSteps ==
  ASSUME NEW t \in Threads, Steps(t)
  PROVE  \/ /\ UNCHANGED <<scope, pushed, refused>>
            /\ \E from \in Positions \ {"push"}, to \in Positions \ {"push"} :
                 Step(t, from, to)
         \/ configure_scope(t) \/ add_breadcrumb(t) \/ Push(t)
<1> DEFINE Others == Positions \ {"push"}
           Moves == /\ UNCHANGED <<scope, pushed, refused>>
                    /\ \E from \in Others, to \in Others : Step(t, from, to)
<1>1. {"idle", "integrations", "sanitize", "before_send", "sample", "deliver", "ingest"}
        = Others
  BY DEF Positions, UnderReadLock
<1> HIDE DEF Others
<1>2. ASSUME NEW from \in Others, NEW to \in Others, Hook(t, from, to) PROVE Moves
  BY <1>1, <1>2 DEF Hook, PassOn, Dropped, Panics
<1>3. ASSUME NEW own, NEW body, capture_event(t, own, body) PROVE Moves
  BY <1>1, <1>3 DEF capture_event
<1>4. ASSUME NEW body, Ingest(t, body) PROVE Moves
  BY <1>1, <1>4 DEF Ingest
<1>5. process_event(t) => Moves
  BY <1>1, <1>2 DEF process_event
<1>6. sanitized_event_for_hook(t) => Moves
  BY <1>1 DEF sanitized_event_for_hook, PassOn
<1>7. before_send(t) => Moves
  BY <1>1, <1>2 DEF before_send
<1>8. sample(t) => Moves
  BY <1>1 DEF sample, SampledIn, SampledOut, Dropped
<1>9. ASSUME NEW from \in Others, deliver(t, from) PROVE Moves
  BY <1>1, <1>9 DEF deliver
<1> QED BY <1>1, <1>3, <1>4, <1>5, <1>6, <1>7, <1>8, <1>9 DEF Steps, Others

LEMMA AddsStep ==
  ASSUME IInv, NEW t \in Threads, Steps(t)
  PROVE  AddsBounded'
<1> DEFINE C == Cardinality(InState({"push"}))
<1>1. /\ TypeOK /\ Len(pushed) + refused + C <= MaxAdds
      /\ Len(pushed) \in Nat /\ refused \in Nat /\ C \in Nat
      /\ pushed \in Seq(Crumbs)
  BY AddsIs, InStateFinite DEF IInv, TypeOK, AddsBounded
<1>2. AddsBounded' <=> Len(pushed') + refused' + C' <= MaxAdds
  <2>1. {u \in Threads : pc'[u] = "push"} = InState({"push"})'
    BY DEF InState
  <2> QED BY <2>1 DEF AddsBounded, Adds
<1>3. ASSUME NEW from, NEW to, Step(t, from, to)
      PROVE  C' = C + (IF to = "push" THEN 1 ELSE 0) - (IF from = "push" THEN 1 ELSE 0)
  BY <1>1, <1>3, StepCounts
<1>4. pc' = pc => C' = C
  BY DEF InState
<1> HIDE DEF C
<1>5. ASSUME UNCHANGED <<scope, pushed, refused>>,
             NEW from \in Positions \ {"push"}, NEW to \in Positions \ {"push"},
             Step(t, from, to)
      PROVE  AddsBounded'
  BY <1>1, <1>2, <1>3, <1>5
<1>6. CASE configure_scope(t)
  BY <1>1, <1>2, <1>4, <1>6 DEF configure_scope
<1>7. CASE add_breadcrumb(t)
  <2>1. Len(pushed) + refused + C < MaxAdds
    BY <1>7, AddsIs DEF add_breadcrumb, C
  <2>2. pushed' = pushed
    BY <1>7 DEF add_breadcrumb
  <2>3. CASE Step(t, "idle", "push") /\ UNCHANGED refused
    BY <1>1, <1>2, <1>3, <2>1, <2>2, <2>3
  <2>4. CASE UNCHANGED pc /\ refused' = refused + 1
    BY <1>1, <1>2, <1>4, <2>1, <2>2, <2>4
  <2> QED BY <1>7, <2>3, <2>4 DEF add_breadcrumb
<1>8. CASE Push(t)
  <2>1. Len(pushed') = Len(pushed) + 1 /\ refused' = refused
    BY <1>1, <1>8, PushHasRoom DEF Push, Step, IInv
  <2>2. Step(t, "push", "idle")
    BY <1>8 DEF Push
  <2> QED BY <1>1, <1>2, <1>3, <2>1, <2>2
<1> QED BY <1>5, <1>6, <1>7, <1>8, PipelineSteps

LEMMA RingStep ==
  ASSUME IInv, NEW t \in Threads, Steps(t)
  PROVE  RingIsLatest'
<1>1. CASE UNCHANGED <<scope, pushed>>
  BY <1>1 DEF IInv, RingIsLatest, LastFew
<1>2. CASE configure_scope(t)
  <2>1. scope'.crumbs = scope.crumbs /\ pushed' = pushed
    BY <1>2 DEF configure_scope, IInv, TypeOK, Scopes
  <2> QED BY <2>1 DEF IInv, RingIsLatest, LastFew
<1>3. CASE Push(t)
  <2> DEFINE crumb == [by |-> t, n |-> Len(pushed) + 1]
             crumbs == Append(LastFew(pushed, MaxBreadcrumbs), crumb)
             ring == IF Len(crumbs) > MaxBreadcrumbs THEN Tail(crumbs) ELSE crumbs
  <2>1. crumb \in Crumbs /\ pushed \in Seq(Crumbs)
    BY <1>3, PushHasRoom DEF Push, Step, IInv, TypeOK
  <2>2. scope'.crumbs = ring /\ pushed' = Append(pushed, crumb)
    BY <1>3 DEF Push, IInv, RingIsLatest, TypeOK, Scopes
  <2> HIDE DEF crumb
  <2>3. LastFew(Append(pushed, crumb), MaxBreadcrumbs) = ring
    BY <2>1, RingKeepsLatest
  <2> QED BY <2>2, <2>3 DEF RingIsLatest, LastFew
<1> QED BY <1>1, <1>2, <1>3, PipelineSteps DEF add_breadcrumb

(* The invariant, of which the type is a part: it needs the bound on        *)
(* breadcrumbs, by which they are numbered.                                *)
THEOREM Invariance == Spec => []IInv
<1>1. Init => IInv
  <2> SUFFICES ASSUME Init PROVE IInv
    OBVIOUS
  <2>1. TypeOK
    BY NoEventIsEvent, <<>> \in Seq(Crumbs)
       DEF Init, TypeOK, Positions, Scopes, Names, Nothing
  <2>2. AddsBounded
    <3>1. InState({"push"}) = {}
      BY DEF Init, InState
    <3>2. Cardinality(InState({"push"})) = 0
      BY <3>1, FS_EmptySet
    <3> QED BY <3>2, AddsIs DEF Init, AddsBounded
  <2>3. RingIsLatest
    BY DEF Init, RingIsLatest, LastFew, Nothing
  <2> QED BY <2>1, <2>2, <2>3 DEF IInv
<1>2. IInv /\ [Next]_vars => IInv'
  <2> SUFFICES ASSUME IInv, [Next]_vars PROVE IInv'
    OBVIOUS
  <2>1. CASE Next
    BY <2>1, NextIsSteps, TypeStep, AddsStep, RingStep DEF IInv
  <2>2. CASE UNCHANGED vars
    BY <2>2 DEF vars, IInv, TypeOK, AddsBounded, Adds, RingIsLatest, LastFew
  <2> QED BY <2>1, <2>2
<1> QED BY <1>1, <1>2, PTL DEF Spec

(* Every variable keeps its type, and the scope no more breadcrumbs than    *)
(* its ring has places.                                                    *)
THEOREM TypeCorrect == Spec => []TypeOK
BY Invariance, PTL DEF IInv

-----------------------------------------------------------------------------
(* The properties *)

(* Everything that reached the pipeline or an ingest call and left it was   *)
(* handed over, counted as dropped, or lost to a hook's panic: on every     *)
(* path of capture_event and of the calls that bypass it, whatever the      *)
(* hooks decide.  So the client's count is never below the transport's.     *)
THEOREM EveryCaptureCounted == Spec => []CapturesCounted
<1> DEFINE P == UnderReadLock \cup {"ingest"}
           C == Cardinality(InState(P))
           Sum == events_captured + refused = handed + events_dropped + panicked + C
           Books == Sum /\ refused <= events_dropped
<1>1. TypeOK /\ Books => CapturesCounted
  <2> SUFFICES ASSUME TypeOK, Books PROVE CapturesCounted
    OBVIOUS
  <2>1. {t \in Threads : pc[t] \in P} = InState(P)
    BY DEF InState
  <2>2. C \in Nat
    BY InStateFinite
  <2> HIDE DEF C
  <2>3. ~(handed > events_captured)
    BY <2>2 DEF TypeOK
  <2>4. Reported = events_captured
    BY <2>3 DEF Reported
  <2> QED BY <2>1, <2>4 DEF CapturesCounted, C
<1>3. Init => Books
  <2> SUFFICES ASSUME Init PROVE Books
    OBVIOUS
  <2>1. InState(P) = {}
    BY DEF Init, InState, UnderReadLock
  <2>2. C = 0
    BY <2>1, FS_EmptySet
  <2> HIDE DEF C
  <2> QED BY <2>2 DEF Init
<1>4. TypeOK /\ Books /\ [Next]_vars => Books'
  <2> SUFFICES ASSUME TypeOK, Books, [Next]_vars PROVE Books'
    OBVIOUS
  <2>1. /\ events_captured \in Nat /\ refused \in Nat /\ handed \in Nat
        /\ events_dropped \in Nat /\ panicked \in Nat /\ C \in Nat
    BY InStateFinite DEF TypeOK
  <2>2. ASSUME NEW t \in Threads, NEW from, NEW to, Step(t, from, to)
        PROVE  C' = C + (IF to \in P THEN 1 ELSE 0) - (IF from \in P THEN 1 ELSE 0)
    BY <2>2, StepCounts
  <2>3. pc' = pc => C' = C
    BY DEF InState
  <2>4. {"integrations", "sanitize", "before_send", "sample", "deliver", "ingest"} = P
    BY DEF UnderReadLock
  <2> HIDE DEF C, P
  <2>5. ASSUME NEW t \in Threads, NEW from \in P, Dropped(t, from)
        PROVE  Books'
    BY <2>1, <2>2, <2>4, <2>5 DEF Dropped, Count, NothingHanded
  <2>6. ASSUME NEW t \in Threads, NEW from \in P, NEW to \in P, NEW e,
               PassOn(t, from, to, e)
        PROVE  Books'
    BY <2>1, <2>2, <2>4, <2>6 DEF PassOn, NothingHanded
  <2>7. ASSUME NEW t \in Threads, NEW from \in P, NEW to \in P, Hook(t, from, to)
        PROVE  Books'
    <3>1. CASE Panics(t, from)
      BY <2>1, <2>2, <2>4, <3>1 DEF Panics, Count, NothingHanded
    <3> QED BY <2>5, <2>6, <2>7, <3>1 DEF Hook
  <2>8. ASSUME NEW t \in Threads, Steps(t) PROVE Books'
    <3>1. ASSUME NEW own, NEW body, capture_event(t, own, body) PROVE Books'
      BY <2>1, <2>2, <2>4, <3>1 DEF capture_event, Count, NothingHanded
    <3>2. ASSUME NEW body, Ingest(t, body) PROVE Books'
      BY <2>1, <2>2, <2>4, <3>2 DEF Ingest, Count, NothingHanded
    <3>3. CASE process_event(t)
      BY <2>4, <2>7, <3>3 DEF process_event
    <3>4. CASE sanitized_event_for_hook(t)
      BY <2>4, <2>6, <3>4 DEF sanitized_event_for_hook
    <3>5. CASE before_send(t)
      BY <2>4, <2>7, <3>5 DEF before_send
    <3>6. CASE sample(t)
      <4>1. CASE SampledIn(t)
        BY <2>1, <2>2, <2>4, <4>1 DEF SampledIn, NothingHanded
      <4>2. CASE SampledOut(t)
        BY <2>4, <2>5, <4>2 DEF SampledOut
      <4> QED BY <3>6, <4>1, <4>2 DEF sample
    <3>7. ASSUME NEW from \in P, deliver(t, from) PROVE Books'
      <4>1. /\ Step(t, from, "idle") /\ "idle" \notin P
            /\ refused' = refused /\ panicked' = panicked
        BY <2>4, <3>7 DEF deliver
      <4>2. C' = C - 1
        BY <2>1, <2>2, <3>7, <4>1
      <4>3. /\ events_captured' = events_captured
            /\ \/ handed' = handed + 1 /\ events_dropped' = events_dropped
               \/ handed' = handed /\ events_dropped' = events_dropped + 1
        BY <2>1, <3>7 DEF deliver, Count, NothingHanded
      <4> QED BY <2>1, <4>1, <4>2, <4>3
    <3>8. CASE configure_scope(t)
      BY <2>1, <2>3, <3>8 DEF configure_scope, NothingHanded
    <3>9. CASE add_breadcrumb(t)
      BY <2>1, <2>2, <2>3, <2>4, <3>9 DEF add_breadcrumb, Count, NothingHanded
    <3>10. CASE Push(t)
      <4>1. /\ Step(t, "push", "idle") /\ "push" \notin P /\ "idle" \notin P
            /\ UNCHANGED <<events_captured, refused, handed, events_dropped, panicked>>
        BY <2>4, <3>10 DEF Push, NothingHanded
      <4>2. C' = C
        BY <2>1, <2>2, <4>1
      <4> QED BY <4>1, <4>2
    <3> QED BY <2>4, <2>8, <3>1, <3>2, <3>3, <3>4, <3>5, <3>6, <3>7, <3>8, <3>9, <3>10
            DEF Steps
  <2>9. CASE UNCHANGED vars
    BY <2>3, <2>9 DEF vars
  <2> QED BY <2>8, <2>9, NextIsSteps
<1> QED BY <1>1, <1>3, <1>4, TypeCorrect, PTL DEF Spec

(* Threads that share the counter and race from one fetch to the next keep  *)
(* exactly the first of every Buckets events, as many as the rate is above,  *)
(* none at a rate of none and all at a rate of all.                         *)
THEOREM RateKept == Spec => []SamplerKeepsRate
<1> DEFINE First == (options.rate + Fine - 1) \div Fine
           Kept == /\ options.rate = 0 => kept = 0
                   /\ options.rate = Full => missed = 0
                   /\ options.rate \notin {0, Full} =>
                        /\ kept + missed = sample_counter
                        /\ kept = KeptOf(sample_counter, Buckets, First)
<1>1. SamplerKeepsRate <=> Kept
  BY DEF SamplerKeepsRate, KeptOf
<1>2. SamplerKeepsRate' <=> Kept'
  BY DEF SamplerKeepsRate, KeptOf
<1>3. Init => Kept
  <2> SUFFICES ASSUME Init PROVE Kept
    OBVIOUS
  <2>1. CASE options.rate \notin {0, Full}
    <3>1. options.rate \in 1..(Buckets * Fine)
      <4>1. options.rate \in 0..Full /\ Full = Buckets * Fine /\ Full \in Nat
        BY DEF Init, ClientOptions, Full
      <4> QED BY <2>1, <4>1
    <3>2. First \in 1..Buckets
      BY <3>1, FirstIs
    <3>3. 0 \div Buckets = 0 /\ 0 % Buckets = 0
      OBVIOUS
    <3> HIDE DEF First
    <3> QED BY <2>1, <3>2, <3>3 DEF Init, KeptOf
  <2>2. CASE options.rate \in {0, Full}
    BY <2>2 DEF Init
  <2> QED BY <2>1, <2>2
<1>4. TypeOK /\ Kept /\ [Next]_vars => Kept'
  <2> SUFFICES ASSUME TypeOK, Kept, [Next]_vars PROVE Kept'
    OBVIOUS
  <2>1. ASSUME UNCHANGED <<options, sample_counter, kept, missed>> PROVE Kept'
    BY <2>1
  <2>2. ASSUME NEW t \in Threads, sample(t) PROVE Kept'
    <3> DEFINE bucket == sample_counter % Buckets
    <3>1. /\ options' = options /\ options.rate \in 0..Full
          /\ Full \in Nat /\ Full = Buckets * Fine
          /\ sample_counter \in Nat /\ kept \in Nat /\ missed \in Nat
      BY <2>2 DEF sample, SampledIn, SampledOut, Dropped, TypeOK, ClientOptions, Full
    <3>2. bucket \in 0..(Buckets - 1)
      BY <3>1, DivMod
    <3>3. /\ sample_counter' = sample_counter + IF options.rate \in {0, Full} THEN 0 ELSE 1
          /\ \/ bucket * Fine < options.rate /\ kept' = kept + 1 /\ missed' = missed
             \/ ~(bucket * Fine < options.rate) /\ kept' = kept /\ missed' = missed + 1
      BY <2>2 DEF sample, SampledIn, SampledOut
    <3> HIDE DEF bucket
    <3>4. CASE options.rate = 0
      <4>1. ~(bucket * Fine < 0)
        <5>1. bucket * Fine \in Nat
          BY <3>2
        <5> QED BY <5>1
      <4>2. Full # 0
        BY <3>1
      <4> QED BY <3>1, <3>3, <3>4, <4>1, <4>2
    <3>5. CASE options.rate = Full
      <4>1. bucket * Fine < Full
        <5>1. bucket * Fine + Fine <= Buckets * Fine
          BY <3>2, TimesUp
        <5>2. bucket * Fine \in Nat
          BY <3>2
        <5> QED BY <3>1, <5>1, <5>2
      <4>2. Full # 0
        BY <3>1
      <4> QED BY <3>1, <3>3, <3>5, <4>1, <4>2
    <3>6. CASE options.rate \notin {0, Full}
      <4>1. options.rate \in 1..(Buckets * Fine)
        BY <3>1, <3>6
      <4>2. First \in 1..Buckets
        BY <4>1, FirstIs
      <4>3. bucket * Fine < options.rate <=> bucket < First
        <5>1. options.rate \in Nat /\ bucket \in Nat
          BY <3>1, <3>2
        <5> QED BY <5>1, RateRoundsUp
      <4>4. First' = First
        BY <3>1
      <4> HIDE DEF First
      <4>5. KeptOf(sample_counter + 1, Buckets, First)
              = KeptOf(sample_counter, Buckets, First) + IF bucket < First THEN 1 ELSE 0
        BY <3>1, <4>2, SamplerCounts DEF bucket
      <4>6. /\ kept + missed = sample_counter /\ kept = KeptOf(sample_counter, Buckets, First)
            /\ sample_counter' = sample_counter + 1
        BY <3>3, <3>6
      <4>7. kept' + missed' = sample_counter'
        BY <3>1, <3>3, <4>6
      <4>8. kept' = KeptOf(sample_counter + 1, Buckets, First)
        BY <3>1, <3>3, <4>3, <4>5, <4>6
      <4>9. kept' = KeptOf(sample_counter', Buckets, First')
        BY <4>4, <4>6, <4>8
      <4> QED BY <3>1, <3>6, <4>7, <4>9
    <3> QED BY <3>4, <3>5, <3>6
  <2>3. ASSUME NEW t \in Threads, Steps(t) PROVE Kept'
    <3> HIDE DEF Kept
    <3> QED BY <2>1, <2>2, <2>3
       DEF Steps, capture_event, Ingest, process_event, sanitized_event_for_hook,
           before_send, deliver, configure_scope, add_breadcrumb, Push, Hook, PassOn, Dropped,
           Panics
  <2>4. CASE UNCHANGED vars
    BY <2>1, <2>4 DEF vars
  <2> QED BY <2>3, <2>4, NextIsSteps
<1> QED BY <1>1, <1>2, <1>3, <1>4, TypeCorrect, PTL DEF Spec

(* Delivery scrubs whatever integrations and before_send put on an event    *)
(* after the sanitizer saw it, and what the bypassing calls bring.         *)
THEOREM NothingExposedEver == Spec => []NothingExposed
<1>1. Init => NothingExposed
  BY DEF Init, NothingExposed
<1>2. TypeOK /\ NothingExposed /\ [Next]_vars => NothingExposed'
  <2> SUFFICES ASSUME TypeOK, NothingExposed, [Next]_vars PROVE NothingExposed'
    OBVIOUS
  <2>1. envelope' = None => NothingExposed'
    BY DEF NothingExposed
  <2>2. ASSUME NEW t \in Threads, NEW from, deliver(t, from) PROVE NothingExposed'
    <3>1. event[t] \in ErrorEvents /\ event[t].body \in SUBSET Leaves
      BY DEF TypeOK, ErrorEvents
    <3>2. scrub_value(event[t].body) \in SUBSET Leaves
          /\ \A leaf \in scrub_value(event[t].body) : ~Exposed(leaf)
      BY <3>1, ScrubbedHides
    <3>3. CASE options.transport /\ ~options.send_default_pii
      <4>1. envelope' = [event[t] EXCEPT !.body = scrub_value(event[t].body)]
        BY <2>2, <3>3 DEF deliver
      <4>2. envelope'.body = scrub_value(event[t].body)
        BY <3>1, <3>2, <4>1, BodyReplaced
      <4> QED BY <3>2, <4>2 DEF NothingExposed, Exposed
    <3>4. CASE options.transport /\ options.send_default_pii
      BY <2>2, <3>4 DEF deliver, NothingExposed
    <3>5. CASE ~options.transport
      BY <2>1, <2>2, <3>5 DEF deliver, NothingHanded
    <3> QED BY <3>3, <3>4, <3>5
  <2>3. ASSUME NEW t \in Threads, Steps(t) PROVE NothingExposed'
    BY <2>1, <2>2, <2>3
       DEF Steps, capture_event, Ingest, process_event, sanitized_event_for_hook,
           before_send, sample, SampledIn, SampledOut, configure_scope, add_breadcrumb, Push,
           Hook, PassOn, Dropped, Panics, NothingHanded
  <2>4. CASE UNCHANGED vars
    BY <2>4 DEF vars, NothingExposed
  <2> QED BY <2>3, <2>4, NextIsSteps
<1> QED BY <1>1, <1>2, TypeCorrect, PTL DEF Spec

(* The sanitizer is the only way to before_send, whatever other threads do. *)
THEOREM HookShownNothingExposed == Spec => []HookSeesNothingExposed
<1>1. Init => HookSeesNothingExposed
  BY DEF Init, HookSeesNothingExposed
<1>2. TypeOK /\ HookSeesNothingExposed /\ [Next]_vars => HookSeesNothingExposed'
  <2> SUFFICES ASSUME TypeOK, HookSeesNothingExposed, [Next]_vars
               PROVE  HookSeesNothingExposed'
    OBVIOUS
  <2>1. ASSUME NEW t \in Threads, Steps(t), pc'[t] = "before_send",
               ~options.send_default_pii, NEW leaf \in event'[t].body
        PROVE  ~Exposed(leaf)
    <3>1. CASE sanitized_event_for_hook(t)
      <4>1. event[t] \in ErrorEvents /\ event[t].body \in SUBSET Leaves
        BY DEF TypeOK, ErrorEvents
      <4>2. scrub_value(event[t].body) \in SUBSET Leaves
        BY <4>1, ScrubbedHides
      <4>3. event'[t] = [event[t] EXCEPT !.body = scrub_value(event[t].body)]
        BY <2>1, <3>1 DEF sanitized_event_for_hook, PassOn, TypeOK
      <4>4. event'[t].body = scrub_value(event[t].body)
        BY <4>1, <4>2, <4>3, BodyReplaced
      <4> QED BY <2>1, <4>1, <4>4, ScrubbedHides
    <3>2. CASE configure_scope(t) \/ add_breadcrumb(t)
      BY <2>1, <3>2 DEF configure_scope, add_breadcrumb, Step, HookSeesNothingExposed, TypeOK
    <3>3. CASE ~sanitized_event_for_hook(t) /\ ~configure_scope(t) /\ ~add_breadcrumb(t)
      <4>1. pc'[t] # "before_send"
        BY <2>1, <3>3 DEF Steps, capture_event, Ingest, process_event, before_send, sample,
                          SampledIn, SampledOut, deliver, Push, Hook, PassOn, Dropped, Panics,
                          Step, TypeOK
      <4> QED BY <2>1, <4>1
    <3> QED BY <3>1, <3>2, <3>3
  <2>2. ASSUME NEW t \in Threads, Steps(t) PROVE HookSeesNothingExposed'
    BY <2>1, <2>2, OthersKeep, OptionsStay DEF HookSeesNothingExposed, Exposed
  <2>3. CASE UNCHANGED vars
    BY <2>3 DEF vars, HookSeesNothingExposed
  <2> QED BY <2>2, <2>3, NextIsSteps
<1> QED BY <1>1, <1>2, TypeCorrect, PTL DEF Spec

(* The read lock that capture_event holds from taking the scope until the   *)
(* envelope is handed over keeps the scope data of an event that no hook    *)
(* changed current, and the ring behind it holds the newest breadcrumbs in  *)
(* the order they came.                                                     *)
THEOREM EventsAreFresh == Spec => []EventIsFresh
<1> DEFINE Laid(t) ==
             /\ event[t].user = IF brought[t].user = None THEN scope.user ELSE brought[t].user
             /\ event[t].tags = IF scope.tags = None THEN brought[t].tags ELSE scope.tags
             /\ event[t].crumbs = scope.crumbs \o brought[t].crumbs
           Fresh(t) == brought[t] # None => Laid(t)
<1>1. RingIsLatest => (EventIsFresh <=> \A t \in Threads : pc[t] \in UnderReadLock => Fresh(t))
  BY DEF RingIsLatest, EventIsFresh
<1>2. RingIsLatest' =>
        (EventIsFresh' <=> \A t \in Threads : pc'[t] \in UnderReadLock => Fresh(t)')
  BY DEF RingIsLatest, EventIsFresh
<1>3. Init => EventIsFresh
  BY DEF Init, EventIsFresh, UnderReadLock
<1>4. IInv /\ IInv' /\ EventIsFresh /\ [Next]_vars => EventIsFresh'
  <2> SUFFICES ASSUME IInv, IInv', EventIsFresh, [Next]_vars PROVE EventIsFresh'
    OBVIOUS
  <2>1. \A t \in Threads : pc[t] \in UnderReadLock => Fresh(t)
    BY <1>1 DEF IInv
  <2>2. ASSUME NEW t \in Threads, Steps(t), NEW u \in Threads, pc'[u] \in UnderReadLock
        PROVE  Fresh(u)'
    <3>1. CASE configure_scope(t) \/ Push(t)
      <4>1. pc'[t] \notin UnderReadLock
        BY <2>2, <3>1 DEF configure_scope, Push, Step, UnderReadLock, IInv, TypeOK
      <4>2. pc[u] \notin UnderReadLock /\ (u # t => pc'[u] = pc[u])
        BY <2>2, <3>1, OthersKeep DEF configure_scope, Push, ScopeFree, IInv
      <4> QED BY <2>2, <4>1, <4>2
    <3>2. CASE UNCHANGED scope
      <4>1. CASE u # t
        <5>1. pc'[u] = pc[u] /\ event'[u] = event[u] /\ brought'[u] = brought[u]
          BY <2>2, <4>1, OthersKeep DEF IInv
        <5>2. Fresh(u)
          BY <2>1, <2>2, <5>1
        <5> QED BY <3>2, <5>1, <5>2
      <4>2. ASSUME u = t, NEW own \in Own, NEW body \in Bodies, capture_event(t, own, body)
            PROVE  Fresh(u)'
        <5>1. own \in Scopes /\ body \in SUBSET Leaves
          BY OwnEvents
        <5>2. PICK e : e = apply_to_event(EventOf(own, body))
          OBVIOUS
        <5>3. event'[t] = e /\ brought'[t] = own
          BY <4>2, <5>2 DEF capture_event, IInv, TypeOK
        <5>4. TypeOK
          BY DEF IInv
        <5>5. /\ e.user = IF own.user = None THEN scope.user ELSE own.user
              /\ e.tags = IF scope.tags = None THEN own.tags ELSE scope.tags
              /\ e.crumbs = scope.crumbs \o own.crumbs
          BY <5>1, <5>2, <5>4, ApplyIsEvent
        <5> QED BY <3>2, <4>2, <5>3, <5>5
      <4>3. ASSUME u = t, pc[t] \in UnderReadLock, NEW body \in SUBSET Leaves,
                   event' = [event EXCEPT ![t] = [event[t] EXCEPT !.body = body]],
                   UNCHANGED brought
            PROVE  Fresh(u)'
        <5>1. event'[t].user = event[t].user /\ event'[t].tags = event[t].tags
              /\ event'[t].crumbs = event[t].crumbs
          BY <4>3 DEF IInv, TypeOK, ErrorEvents
        <5> QED BY <2>1, <3>2, <4>3, <5>1
      <4>4. ASSUME u = t, event' = event, brought' = brought, pc[t] \in UnderReadLock
            PROVE  Fresh(u)'
        BY <2>1, <3>2, <4>4
      <4>5. ASSUME u = t, NEW from \in UnderReadLock, NEW to, Hook(t, from, to) PROVE Fresh(u)'
        <5>1. event[t].body \in SUBSET Leaves /\ Additions \subseteq Leaves
          BY DEF IInv, TypeOK, ErrorEvents
        <5>2. ASSUME Dropped(t, from) \/ Panics(t, from) PROVE FALSE
          BY <2>2, <4>5, <5>2 DEF Dropped, Panics, Step, UnderReadLock, IInv, TypeOK
        <5>3. ASSUME brought' = [brought EXCEPT ![t] = None] PROVE Fresh(u)'
          BY <4>5, <5>3 DEF IInv, TypeOK
        <5>4. ASSUME NEW added \in {{}} \cup {{leaf} : leaf \in Additions},
                     PassOn(t, from, to, [event[t] EXCEPT !.body = @ \cup added]),
                     UNCHANGED brought
              PROVE  Fresh(u)'
          <6>1. event[t].body \cup added \in SUBSET Leaves
            BY <5>1
          <6>2. event' = [event EXCEPT ![t] = [event[t] EXCEPT !.body = event[t].body \cup added]]
                /\ pc[t] \in UnderReadLock
            BY <4>5, <5>4 DEF PassOn, Step
          <6> QED BY <4>3, <4>5, <5>4, <6>1, <6>2
        <5> HIDE DEF Fresh
        <5> QED BY <4>5, <5>2, <5>3, <5>4 DEF Hook
      <4>6. CASE u = t /\ sanitized_event_for_hook(t)
        <5> DEFINE body == IF options.send_default_pii THEN event[t].body
                           ELSE scrub_value(event[t].body)
        <5>1. body \in SUBSET Leaves
          BY ScrubbedHides DEF IInv, TypeOK, ErrorEvents
        <5>2. pc[t] \in UnderReadLock
          BY <4>6 DEF sanitized_event_for_hook, PassOn, Step, UnderReadLock
        <5>3. event' = [event EXCEPT ![t] = [event[t] EXCEPT !.body = body]] /\ UNCHANGED brought
          BY <4>6 DEF sanitized_event_for_hook, PassOn
        <5> HIDE DEF body, Fresh
        <5> QED BY <4>3, <4>6, <5>1, <5>2, <5>3
      <4>7. CASE u = t /\ sample(t)
        <5>1. ~SampledOut(t)
          BY <2>2, <4>7 DEF SampledOut, Dropped, Step, UnderReadLock, IInv, TypeOK
        <5>2. event' = event /\ brought' = brought /\ pc[t] = "sample"
          BY <4>7, <5>1 DEF sample, SampledIn, Step
        <5> QED BY <4>4, <4>7, <5>2 DEF UnderReadLock
      <4>8. CASE u = t /\ (process_event(t) \/ before_send(t))
        BY <4>5, <4>8 DEF process_event, before_send, UnderReadLock
      <4>9. u = t => /\ \A body \in Bodies : ~Ingest(t, body)
                     /\ ~deliver(t, "deliver") /\ ~deliver(t, "ingest")
                     /\ ~configure_scope(t) /\ ~add_breadcrumb(t) /\ ~Push(t)
        BY <2>2 DEF Ingest, deliver, configure_scope, add_breadcrumb, Push, Step,
                    UnderReadLock, IInv, TypeOK
      <4> HIDE DEF Fresh
      <4>10. CASE u = t
        <5>1. ASSUME NEW own \in Own, NEW body \in Bodies, capture_event(t, own, body)
              PROVE  Fresh(u)'
          BY <4>2, <4>10, <5>1
        <5>2. sanitized_event_for_hook(t) => Fresh(u)'
          BY <4>6, <4>10
        <5>3. sample(t) => Fresh(u)'
          BY <4>7, <4>10
        <5>4. process_event(t) \/ before_send(t) => Fresh(u)'
          BY <4>8, <4>10
        <5> QED BY <2>2, <4>9, <4>10, <5>1, <5>2, <5>3, <5>4 DEF Steps
      <4> QED BY <4>1, <4>10
    <3> QED BY <2>2, <3>1, <3>2, PipelineSteps DEF add_breadcrumb
  <2>3. ASSUME NEW t \in Threads, Steps(t) PROVE EventIsFresh'
    BY <1>2, <2>2, <2>3 DEF IInv
  <2>4. CASE UNCHANGED vars
    BY <2>4 DEF vars, EventIsFresh, LastFew
  <2> QED BY <2>3, <2>4, NextIsSteps
<1> QED BY <1>3, <1>4, Invariance, PTL DEF Spec
=============================================================================
