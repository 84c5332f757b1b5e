---------------------------- MODULE TreeRecursion ----------------------------
(***************************************************************************)
(* Recursion over trees: a result for every tree, computed from the        *)
(* results for its parts.  Parts(v) is a function from labels to the parts *)
(* of v, and Step(v, results) is the result for v, given those for its     *)
(* parts under the same labels.                                            *)
(*                                                                         *)
(* A recursive function is defined with CHOOSE, and says nothing until     *)
(* somebody proves that its equation has a solution.  Folds is that proof, *)
(* for every Step.                                                         *)
(***************************************************************************)
EXTENDS WellFoundedInduction, TLAPS

CONSTANTS Trees, Parts(_), Step(_, _)

Fold[v \in Trees] == Step(v, [l \in DOMAIN Parts(v) |-> Fold[Parts(v)[l]]])

(* What f gives for the parts of v. *)
OfParts(f, v) == [l \in DOMAIN Parts(v) |-> f[Parts(v)[l]]]

(* f solves the equation of Fold on the trees in S. *)
Solves(f, S) == f = [v \in S |-> Step(v, OfParts(f, v))]

(* S has the parts of its members. *)
Closed(S) == S \subseteq Trees /\ \A v \in S : \A l \in DOMAIN Parts(v) : Parts(v)[l] \in S

(* No tree in U is a part of itself, at whatever depth. *)
WellFounded(U) ==
  /\ Closed(U)
  /\ \A S \in SUBSET U :
       S # {} => \E v \in S : \A l \in DOMAIN Parts(v) : Parts(v)[l] \notin S

-----------------------------------------------------------------------------
(* A set of natural numbers has a least one. *)
LEMMA LeastNumber ==
  ASSUME NEW S \in SUBSET Nat, S # {}
  PROVE  \E m \in S : \A n \in S : m <= n
<1>1. \E R : IsWellFoundedOn(R, Nat) /\ R = {p \in Nat \X Nat : p[1] < p[2]}
  <2> WITNESS OpToRel(<, Nat)
  <2> QED
    BY NatLessThanWellFounded, Zenon DEF OpToRel
<1>2. PICK R : IsWellFoundedOn(R, Nat) /\ R = {p \in Nat \X Nat : p[1] < p[2]}
  BY <1>1
<1>3. PICK m \in S : \A n \in S : <<n, m>> \notin R
  BY <1>2, WFMin
<1>4. \A n \in S : ~(n < m)
  <2> SUFFICES ASSUME NEW n \in S, n < m
               PROVE  FALSE
    OBVIOUS
  <2>1. <<n, m>> \in Nat \X Nat
    OBVIOUS
  <2>2. <<n, m>> \in R
    BY <1>2, <2>1
  <2> QED
    BY <1>3, <2>2
<1> QED
  BY <1>4

(* Trees whose parts are less high than they are can be recursed over. *)
THEOREM HeightsAreWellFounded ==
  ASSUME NEW Height, \A v \in Trees : Height[v] \in Nat,
         \A v \in Trees : \A l \in DOMAIN Parts(v) :
           Parts(v)[l] \in Trees /\ Height[Parts(v)[l]] < Height[v]
  PROVE  WellFounded(Trees)
<1>1. Closed(Trees)
  BY DEF Closed
<1>2. ASSUME NEW S \in SUBSET Trees, S # {}
      PROVE  \E v \in S : \A l \in DOMAIN Parts(v) : Parts(v)[l] \notin S
  <2> DEFINE heights == {Height[v] : v \in S}
  <2>1. heights \in SUBSET Nat /\ heights # {}
    BY <1>2
  <2>2. PICK m \in heights : \A n \in heights : m <= n
    BY <2>1, LeastNumber
  <2>3. PICK v \in S : m = Height[v]
    BY <2>2
  <2>4. \A u \in S : Height[u] \in Nat /\ Height[v] <= Height[u]
    BY <2>2, <2>3
  <2> QED
    BY <2>3, <2>4
<1> QED
  BY <1>1, <1>2 DEF WellFounded

-----------------------------------------------------------------------------
(* Two solutions agree wherever both are defined. *)
LEMMA SolutionsAgree ==
  ASSUME WellFounded(Trees), NEW S, NEW T, Closed(S), Closed(T),
         NEW f, NEW g, Solves(f, S), Solves(g, T)
  PROVE  \A v \in S \cap T : f[v] = g[v]
<1> DEFINE differ == {v \in S \cap T : f[v] # g[v]}
<1> SUFFICES ASSUME differ # {}
             PROVE  FALSE
  OBVIOUS
<1>1. differ \in SUBSET Trees
  BY DEF Closed
<1>2. PICK v \in differ : \A l \in DOMAIN Parts(v) : Parts(v)[l] \notin differ
  BY <1>1 DEF WellFounded
<1>3. OfParts(f, v) = OfParts(g, v)
  BY <1>2 DEF OfParts, Closed
<1>4. f[v] = Step(v, OfParts(f, v)) /\ g[v] = Step(v, OfParts(g, v))
  BY <1>2 DEF Solves
<1> QED
  BY <1>2, <1>3, <1>4

(* A set on which the equation has a solution. *)
Solvable(S) == Closed(S) /\ \E f : Solves(f, S)

SolutionOn(S) == CHOOSE f : Solves(f, S)

(* The solutions on several sets, put together. *)
LEMMA SolutionsJoin ==
  ASSUME WellFounded(Trees), NEW Sets, \A S \in Sets : Solvable(S)
  PROVE  Solvable(UNION Sets)
<1> DEFINE All == UNION Sets
           Home(v) == CHOOSE S \in Sets : v \in S
           f == [v \in All |-> SolutionOn(Home(v))[v]]
<1>1. Closed(All)
  BY DEF Solvable, Closed
<1>2. \A S \in Sets : Closed(S) /\ Solves(SolutionOn(S), S)
  BY DEF Solvable, SolutionOn
<1>3. \A v \in All : Home(v) \in Sets /\ v \in Home(v)
  OBVIOUS
<1>4. ASSUME NEW S \in Sets, NEW v \in S
      PROVE  f[v] = SolutionOn(S)[v]
  <2>1. v \in All /\ v \in Home(v) \cap S /\ Home(v) \in Sets
    BY <1>3
  <2> HIDE DEF Home
  <2>2. SolutionOn(Home(v))[v] = SolutionOn(S)[v]
    BY <1>2, <2>1, SolutionsAgree
  <2> QED
    BY <2>1, <2>2
<1>5. ASSUME NEW v \in All
      PROVE  f[v] = Step(v, OfParts(f, v))
  <2>1. PICK S \in Sets : v \in S
    OBVIOUS
  <2> HIDE DEF f
  <2>2. OfParts(f, v) = OfParts(SolutionOn(S), v)
    BY <1>2, <1>4, <2>1 DEF OfParts, Closed
  <2>3. SolutionOn(S)[v] = Step(v, OfParts(SolutionOn(S), v))
    BY <1>2, <2>1 DEF Solves
  <2> QED
    BY <1>4, <2>1, <2>2, <2>3
<1>6. Solves(f, All)
  BY <1>5 DEF Solves
<1> QED
  BY <1>1, <1>6 DEF Solvable

(* A solution on the parts of v extends to v. *)
LEMMA SolutionExtends ==
  ASSUME WellFounded(Trees), NEW S, Solvable(S), NEW v \in Trees,
         \A l \in DOMAIN Parts(v) : Parts(v)[l] \in S
  PROVE  Solvable(S \cup {v})
<1>1. PICK f : Solves(f, S)
  BY DEF Solvable
<1> DEFINE g == [u \in S \cup {v} |-> Step(u, OfParts(f, u))]
<1>2. Closed(S) /\ Closed(S \cup {v})
  BY DEF Solvable, Closed
<1>3. \A u \in S : f[u] = g[u]
  BY <1>1 DEF Solves
<1>4. \A u \in S \cup {v} : OfParts(f, u) = OfParts(g, u)
  <2> HIDE DEF g
  <2> QED
    BY <1>2, <1>3 DEF OfParts, Closed
<1>5. Solves(g, S \cup {v})
  BY <1>4 DEF Solves
<1> QED
  BY <1>2, <1>5 DEF Solvable

(* The recursive function satisfies its equation, for every tree. *)
THEOREM Folds ==
  ASSUME WellFounded(Trees)
  PROVE  \A v \in Trees : Fold[v] = Step(v, OfParts(Fold, v))
<1> DEFINE unsolved == {v \in Trees : ~\E S : v \in S /\ Solvable(S)}
<1>1. unsolved = {}
  <2> SUFFICES ASSUME unsolved # {}
               PROVE  FALSE
    OBVIOUS
  <2>1. PICK v \in unsolved : \A l \in DOMAIN Parts(v) : Parts(v)[l] \notin unsolved
    BY DEF WellFounded
  <2> DEFINE SetOf(l) == CHOOSE S : Parts(v)[l] \in S /\ Solvable(S)
             sets == {SetOf(l) : l \in DOMAIN Parts(v)}
  <2>2. \A l \in DOMAIN Parts(v) : Parts(v)[l] \in SetOf(l) /\ Solvable(SetOf(l))
    <3> SUFFICES ASSUME NEW l \in DOMAIN Parts(v)
                 PROVE  \E S : Parts(v)[l] \in S /\ Solvable(S)
      OBVIOUS
    <3> QED
      BY <2>1 DEF WellFounded, Closed
  <2> HIDE DEF SetOf
  <2>3. \A S \in sets : Solvable(S)
    BY <2>2
  <2>4. \A l \in DOMAIN Parts(v) : Parts(v)[l] \in UNION sets
    BY <2>2
  <2> HIDE DEF sets
  <2>5. v \in Trees /\ ~\E S : v \in S /\ Solvable(S)
    BY <2>1
  <2>6. Solvable((UNION sets) \cup {v})
    BY <2>3, <2>4, <2>5, SolutionsJoin, SolutionExtends
  <2> QED
    BY <2>5, <2>6
<1> DEFINE sets == {S \in SUBSET Trees : Solvable(S)}
<1>2. UNION sets = Trees
  BY <1>1 DEF Solvable, Closed
<1>3. Solvable(UNION sets)
  BY SolutionsJoin
<1>4. \E f : Solves(f, Trees)
  BY <1>2, <1>3 DEF Solvable
<1>5. Fold = CHOOSE f : Solves(f, Trees)
  BY Zenon DEF Fold, Solves, OfParts
<1>6. Solves(Fold, Trees)
  BY <1>4, <1>5
<1> QED
  BY <1>6 DEF Solves
=============================================================================
