--------------------------- MODULE DispatchProofs ---------------------------
(***************************************************************************)
(* For every finite set of requests, every price, every routing table and  *)
(* every combination of faults: type correctness of Dispatch, that the     *)
(* ledger agrees with the code of every request, that a metered token and  *)
(* a user lose what their requests hold or have paid, that a repeated key  *)
(* is replayed, that Dispatch implements ChargeLedger, and that the loop   *)
(* over the candidates runs down.                                          *)
(***************************************************************************)
EXTENDS DispatchAccounts, FiniteSetTheorems, TLAPS

-----------------------------------------------------------------------------
(* Sums over finite sets.                                                  *)

\* Induction, in the only form the provers can use.
LEMMA LeastNatural ==
    ASSUME NEW S \in SUBSET Nat, S # {}
    PROVE  \E n \in S : \A m \in S : n <= m
<1> DEFINE below == {ss \in Nat \X Nat : ss[1] < ss[2]}
<1>1. IsWellFoundedOn(below, Nat)
  BY NatLessThanWellFounded DEF OpToRel
<1>2. ASSUME NEW m \in Nat, NEW n \in Nat, m < n PROVE <<m, n>> \in below
  <2>1. <<m, n>> \in Nat \X Nat /\ <<m,n>>[1] = m /\ <<m,n>>[2] = n
    OBVIOUS
  <2>. QED BY <2>1, <1>2
<1>. HIDE DEF below
<1>3. PICK n \in S : \A m \in S : ~(<<m, n>> \in below)
  BY <1>1, WFMin
<1>4. ASSUME NEW m \in S PROVE n <= m
  <2>1. m \in Nat /\ n \in Nat
    OBVIOUS
  <2>2. ~(m < n)
    BY <1>2, <1>3, <2>1
  <2>. QED BY <2>1, <2>2
<1>. QED BY <1>4

\* Induction over the subsets of a finite set: G, the good ones, contains S
\* when it contains every subset of S whose proper subsets it contains.
LEMMA SubsetInduction ==
    ASSUME NEW S, IsFiniteSet(S), NEW G,
           \A s \in SUBSET S : (\A t \in SUBSET s : t # s => t \in G) => s \in G
    PROVE  S \in G
<1> DEFINE Bad == {n \in Nat : \E s \in SUBSET S : Cardinality(s) = n /\ s \notin G}
<1>. SUFFICES ASSUME S \notin G PROVE FALSE
  OBVIOUS
<1>1. Cardinality(S) \in Bad BY FS_CardinalityType
<1>2. PICK n \in Bad : \A m \in Bad : n <= m
  BY <1>1, LeastNatural
<1>3. PICK s \in SUBSET S : Cardinality(s) = n /\ s \notin G
  BY <1>2
<1>4. ASSUME NEW t \in SUBSET s, t # s PROVE t \in G
  <2>1. IsFiniteSet(s) BY FS_Subset
  <2>2. Cardinality(t) < Cardinality(s) /\ Cardinality(t) \in Nat
    BY <1>4, <2>1, FS_Subset, FS_CardinalityType
  <2>. QED BY <1>2, <1>3, <2>2
<1>. QED BY <1>3, <1>4

SumStep(g, f, s) ==
    IF s = {} THEN 0
    ELSE f[CHOOSE x \in s : TRUE] + g[s \ {CHOOSE x \in s : TRUE}]
IsSum(g, f, S) == g = [s \in SUBSET S |-> SumStep(g, f, s)]
LEMMA SumUnfolds ==
    ASSUME NEW f, NEW S
    PROVE  SumFunctionOnSet(f, S) = (CHOOSE g : IsSum(g, f, S))[S]
BY DEF SumFunctionOnSet, FoldFunctionOnSet, MapThenFoldSet, IsSum, SumStep

LEMMA SumExists ==
    ASSUME NEW f, NEW S, IsFiniteSet(S)
    PROVE  \E g : IsSum(g, f, S)
<1> DEFINE Small(n) == {s \in SUBSET S : Cardinality(s) <= n}
           Up(g, n) == g = [s \in Small(n) |-> SumStep(g, f, s)]
           Bad == {n \in Nat : \A g : ~Up(g, n)}
<1>1. ASSUME NEW s \in SUBSET S
      PROVE  /\ Cardinality(s) \in Nat
             /\ Cardinality(s) = 0 => s = {}
             /\ Cardinality(s) <= Cardinality(S)
             /\ s # {} => Cardinality(s \ {CHOOSE x \in s : TRUE}) = Cardinality(s) - 1
  <2>1. IsFiniteSet(s) /\ Cardinality(s) <= Cardinality(S) BY FS_Subset
  <2>2. s # {} => (CHOOSE x \in s : TRUE) \in s OBVIOUS
  <2>. QED BY <2>1, <2>2, FS_CardinalityType, FS_EmptySet, FS_RemoveElement
<1>2. \E g : Up(g, 0)
  <2> DEFINE g == [s \in Small(0) |-> 0]
  <2>1. ASSUME NEW s \in Small(0) PROVE s = {}
    <3>1. s \in SUBSET S /\ Cardinality(s) <= 0 OBVIOUS
    <3>2. Cardinality(s) \in Nat /\ (Cardinality(s) = 0 => s = {})
      BY <1>1, <3>1
    <3>. QED BY <3>1, <3>2
  <2>2. g = [s \in Small(0) |-> SumStep(g, f, s)]
    BY <2>1 DEF SumStep
  <2>. QED BY <2>2
<1>3. ASSUME NEW n \in Nat, NEW g, Up(g, n) PROVE \E h : Up(h, n + 1)
  <2> DEFINE h == [s \in Small(n + 1) |-> IF s \in Small(n) THEN g[s]
                                          ELSE SumStep(g, f, s)]
  <2>1. ASSUME NEW s \in Small(n + 1) PROVE h[s] = SumStep(h, f, s)
    <3>1. CASE s = {}
      <4>1. s \in Small(n) BY <3>1, FS_EmptySet
      <4>. QED BY <1>3, <3>1, <4>1 DEF SumStep
    <3>2. CASE s # {}
      <4> DEFINE t == s \ {CHOOSE x \in s : TRUE}
      <4>1. t \in Small(n) /\ t \in Small(n + 1)
        BY <1>1, <3>2
      <4>2. h[t] = g[t] BY <4>1
      <4>3. SumStep(h, f, s) = SumStep(g, f, s) BY <3>2, <4>2 DEF SumStep
      <4>4. s \in Small(n) => g[s] = SumStep(g, f, s) BY <1>3
      <4>. QED BY <4>3, <4>4
    <3>. QED BY <3>1, <3>2
  <2>2. Up(h, n + 1)
    BY <2>1
  <2>. QED BY <2>2
<1>4. Cardinality(S) \in Nat /\ Small(Cardinality(S)) = SUBSET S
  BY <1>1, FS_CardinalityType
<1>5. ASSUME Up(CHOOSE g : Up(g, Cardinality(S)), Cardinality(S))
      PROVE  \E g : IsSum(g, f, S)
  BY <1>4, <1>5 DEF IsSum
<1>. HIDE DEF Up
<1>6. Bad = {}
  <2>. SUFFICES ASSUME Bad # {} PROVE FALSE
    OBVIOUS
  <2>1. PICK n \in Bad : \A m \in Bad : n <= m
    BY LeastNatural
  <2>2. n \in Nat /\ n # 0
    BY <1>2
  <2>3. n - 1 \in Nat /\ n - 1 \notin Bad
    BY <2>1, <2>2
  <2>4. PICK g : Up(g, n - 1)
    BY <2>3
  <2>5. PICK h : Up(h, (n - 1) + 1)
    BY <1>3, <2>3, <2>4
  <2>. QED BY <2>2, <2>5
<1>. QED BY <1>4, <1>5, <1>6

LEMMA SumUnique ==
    ASSUME NEW f, NEW S, IsFiniteSet(S), NEW T \in SUBSET S, NEW g, NEW h,
           IsSum(g, f, S), IsSum(h, f, T)
    PROVE  g[T] = h[T]
<1> DEFINE G == {s \in SUBSET T : g[s] = h[s]}
<1>1. IsFiniteSet(T) BY FS_Subset
<1>2. ASSUME NEW s \in SUBSET T, \A t \in SUBSET s : t # s => t \in G
      PROVE  s \in G
  <2> DEFINE x == CHOOSE x \in s : TRUE
  <2>1. g[s] = SumStep(g, f, s) /\ h[s] = SumStep(h, f, s)
    BY DEF IsSum
  <2>2. s # {} => g[s \ {x}] = h[s \ {x}]
    BY <1>2
  <2>. QED BY <2>1, <2>2 DEF SumStep
<1>. HIDE DEF G
<1>3. T \in G BY <1>1, <1>2, SubsetInduction
<1>. QED BY <1>3 DEF G

\* The defining equations of a sum.
LEMMA SumOfSome ==
    ASSUME NEW f, NEW S, IsFiniteSet(S), S # {}
    PROVE  LET x == CHOOSE x \in S : TRUE
           IN  SumFunctionOnSet(f, S) = f[x] + SumFunctionOnSet(f, S \ {x})
<1> DEFINE x == CHOOSE y \in S : TRUE
           T == S \ {x}
<1>1. IsFiniteSet(T) /\ T \in SUBSET S BY FS_Subset
<1>2. PICK g : IsSum(g, f, S) /\ SumFunctionOnSet(f, S) = g[S]
  BY SumUnfolds, SumExists
<1>3. PICK h : IsSum(h, f, T) /\ SumFunctionOnSet(f, T) = h[T]
  BY <1>1, SumUnfolds, SumExists
<1>4. g[T] = h[T] BY <1>1, <1>2, <1>3, SumUnique
<1>5. g[S] = f[x] + g[T] BY <1>2 DEF IsSum, SumStep
<1>. QED BY <1>2, <1>3, <1>4, <1>5

LEMMA SumOfNone == ASSUME NEW f PROVE SumFunctionOnSet(f, {}) = 0
<1>1. IsFiniteSet({}) BY FS_EmptySet
<1>2. PICK g : IsSum(g, f, {}) /\ SumFunctionOnSet(f, {}) = g[{}]
  BY <1>1, SumUnfolds, SumExists
<1>. QED BY <1>2 DEF IsSum, SumStep

\* A sum of integers does not depend on the order.
LEMMA SumOfAny ==
    ASSUME NEW D, NEW f \in [D -> Int], NEW S \in SUBSET D, IsFiniteSet(S)
    PROVE  /\ SumFunctionOnSet(f, S) \in Int
           /\ \A x \in S : SumFunctionOnSet(f, S) = f[x] + SumFunctionOnSet(f, S \ {x})
<1> DEFINE Sum(s) == SumFunctionOnSet(f, s)
           Good(s) == Sum(s) \in Int /\ \A x \in s : Sum(s) = f[x] + Sum(s \ {x})
<1>1. ASSUME NEW s \in SUBSET S
      PROVE  IsFiniteSet(s) /\ Cardinality(s) \in Nat
  <2>1. IsFiniteSet(s) BY FS_Subset
  <2>2. Cardinality(s) \in Nat BY <2>1, FS_CardinalityType
  <2>. QED BY <2>1, <2>2
<1>2. Good({})
  BY SumOfNone
<1>3. ASSUME NEW s \in SUBSET S, s # {}
      PROVE  LET c == CHOOSE x \in s : TRUE
             IN  c \in s /\ Sum(s) = f[c] + Sum(s \ {c})
  BY <1>1, <1>3, SumOfSome
<1>. HIDE DEF Sum
<1>4. ASSUME NEW s \in SUBSET S, s # {},
             \A t \in SUBSET s : t # s => Good(t)
      PROVE  Good(s)
  <2> DEFINE c == CHOOSE x \in s : TRUE
  <2>1. c \in s /\ Sum(s) = f[c] + Sum(s \ {c})
    BY <1>3, <1>4
  <2>. HIDE DEF c
  <2>2. \A x \in s : f[x] \in Int
    OBVIOUS
  <2>3. Sum(s) \in Int
    BY <1>4, <2>1, <2>2
  <2>4. ASSUME NEW x \in s, x # c PROVE Sum(s) = f[x] + Sum(s \ {x})
    <3>1. Sum(s \ {c}) = f[x] + Sum((s \ {c}) \ {x})
      BY <1>4, <2>1, <2>4
    <3>2. Sum(s \ {x}) = f[c] + Sum((s \ {x}) \ {c})
      BY <1>4, <2>1, <2>4
    <3>3. (s \ {c}) \ {x} = (s \ {x}) \ {c}
      OBVIOUS
    <3> DEFINE t == (s \ {c}) \ {x}
    <3>4. Sum(t) \in Int
      BY <1>4, <2>1
    <3>5. f[x] \in Int /\ f[c] \in Int
      BY <2>1, <2>2
    <3>. HIDE DEF t
    <3>6. Sum(s \ {c}) = f[x] + Sum(t) /\ Sum(s \ {x}) = f[c] + Sum(t)
      BY <3>1, <3>2, <3>3 DEF t
    <3>. QED BY <2>1, <3>4, <3>5, <3>6
  <2>. QED BY <2>1, <2>3, <2>4
<1>5. S \in {s \in SUBSET S : Good(s)}
  <2> DEFINE G == {s \in SUBSET S : Good(s)}
  <2>. HIDE DEF Good
  <2>1. ASSUME NEW s \in SUBSET S, \A t \in SUBSET s : t # s => t \in G
        PROVE  s \in G
    BY <1>2, <1>4, <2>1
  <2>. HIDE DEF G
  <2>2. S \in G BY <2>1, SubsetInduction
  <2>. QED BY <2>2 DEF G
<1>. QED BY <1>5 DEF Good, Sum

\* Functions that agree on a set have the same sum over it.
LEMMA SumAgrees ==
    ASSUME NEW D, NEW f \in [D -> Int], NEW g \in [D -> Int],
           NEW S \in SUBSET D, IsFiniteSet(S), \A x \in S : f[x] = g[x]
    PROVE  SumFunctionOnSet(f, S) = SumFunctionOnSet(g, S)
<1> DEFINE Same(s) == SumFunctionOnSet(f, s) = SumFunctionOnSet(g, s)
           G == {s \in SUBSET S : Same(s)}
<1>1. Same({})
  BY SumOfNone
<1>2. ASSUME NEW s \in SUBSET S, NEW x \in s, Same(s \ {x}) PROVE Same(s)
  <2>1. IsFiniteSet(s) BY FS_Subset
  <2>2. /\ SumFunctionOnSet(f, s) = f[x] + SumFunctionOnSet(f, s \ {x})
        /\ SumFunctionOnSet(g, s) = g[x] + SumFunctionOnSet(g, s \ {x})
    BY <2>1, SumOfAny
  <2>. QED BY <1>2, <2>2
<1>. HIDE DEF Same
<1>3. ASSUME NEW s \in SUBSET S, \A t \in SUBSET s : t # s => t \in G
      PROVE  s \in G
  <2>1. ASSUME NEW x \in s PROVE Same(s \ {x})
    BY <1>3
  <2>. QED BY <1>1, <1>2, <2>1
<1>. HIDE DEF G
<1>4. S \in G BY <1>3, SubsetInduction
<1>. QED BY <1>4 DEF G, Same

\* A sum of zeros is zero.
LEMMA SumOfZeros ==
    ASSUME NEW D, NEW f \in [D -> Int], NEW S \in SUBSET D, IsFiniteSet(S),
           \A x \in S : f[x] = 0
    PROVE  SumFunctionOnSet(f, S) = 0
<1> DEFINE Zero(s) == SumFunctionOnSet(f, s) = 0
           G == {s \in SUBSET S : Zero(s)}
<1>1. Zero({})
  BY SumOfNone
<1>2. ASSUME NEW s \in SUBSET S, NEW x \in s, Zero(s \ {x}) PROVE Zero(s)
  <2>1. IsFiniteSet(s) BY FS_Subset
  <2>2. SumFunctionOnSet(f, s) = f[x] + SumFunctionOnSet(f, s \ {x})
    BY <2>1, SumOfAny
  <2>. QED BY <1>2, <2>2
<1>. HIDE DEF Zero
<1>3. ASSUME NEW s \in SUBSET S, \A t \in SUBSET s : t # s => t \in G
      PROVE  s \in G
  <2>1. ASSUME NEW x \in s PROVE Zero(s \ {x})
    BY <1>3
  <2>. QED BY <1>1, <1>2, <2>1
<1>. HIDE DEF G
<1>4. S \in G BY <1>3, SubsetInduction
<1>. QED BY <1>4 DEF G, Zero

\* A sum follows the one value that changes.
LEMMA SumChanges ==
    ASSUME NEW D, NEW f \in [D -> Int], NEW g \in [D -> Int], NEW x \in D,
           NEW S \in SUBSET D, IsFiniteSet(S), \A y \in D \ {x} : f[y] = g[y]
    PROVE  SumFunctionOnSet(g, S) = SumFunctionOnSet(f, S)
                                    + IF x \in S THEN g[x] - f[x] ELSE 0
<1>1. IsFiniteSet(S \ {x}) BY FS_RemoveElement
<1>2. SumFunctionOnSet(f, S \ {x}) = SumFunctionOnSet(g, S \ {x})
  BY <1>1, SumAgrees
<1>3. CASE x \in S
  <2>1. /\ SumFunctionOnSet(f, S) = f[x] + SumFunctionOnSet(f, S \ {x})
        /\ SumFunctionOnSet(g, S) = g[x] + SumFunctionOnSet(g, S \ {x})
    BY <1>3, SumOfAny
  <2>2. SumFunctionOnSet(f, S \ {x}) \in Int
    BY <1>1, SumOfAny
  <2>. QED BY <1>2, <1>3, <2>1, <2>2
<1>4. CASE x \notin S
  <2>1. S \ {x} = S BY <1>4
  <2>2. SumFunctionOnSet(f, S) \in Int BY SumOfAny
  <2>. QED BY <1>2, <1>4, <2>1, <2>2
<1>. QED BY <1>3, <1>4

-----------------------------------------------------------------------------
(* The ledger and the requests.                                            *)

\* The strengthening: preDeducted is 0 until the pre-check ran, the ledger
\* is exact for requests without a mishap, and never below the request's
\* claim unless it was refunded after its settlement.
RequestInv(r) ==
    /\ pc[r] = "checking" => pre[r] = 0
    /\ mishap[r] \subseteq {"overrun", "saveFail"} => taken[r] = Held(r)
    /\ "lateThrow" \notin mishap[r] => taken[r] >= Held(r)

IInv == TypeOK /\ \A r \in Requests : RequestInv(r)

-----------------------------------------------------------------------------
\* Only the stepping request's own entries change.
Others(r) ==
    \A s \in Requests \ {r} :
        /\ pc'[s] = pc[s] /\ pre'[s] = pre[s] /\ cost'[s] = cost[s]
        /\ taken'[s] = taken[s] /\ mishap'[s] = mishap[s]

LEMMA OthersKeep ==
    ASSUME IInv, NEW r \in Requests, Others(r), TypeOK', RequestInv(r)'
    PROVE  IInv'
<1>1. ASSUME NEW s \in Requests \ {r} PROVE RequestInv(s)'
  BY <1>1 DEF IInv, RequestInv, Others, Held, OpenPlaces, PaidPlaces
<1>. QED BY <1>1 DEF IInv

LEMMA RouteTyped ==
    ASSUME TypeOK, NEW r \in Requests, WidenRoute(r)
    PROVE  /\ group' \in [Requests -> Groups]
           /\ tried' \in [Requests -> SUBSET Groups]
           /\ todo' \in [Requests -> Nat]
           /\ free' \subseteq Requests
<1>1. CASE UNCHANGED route
  BY <1>1 DEF TypeOK, route
<1>2. ASSUME NEW g \in Groups,
             group' = [group EXCEPT ![r] = g],
             tried' = [tried EXCEPT ![r] = @ \cup {g}],
             todo' = [todo EXCEPT ![r] = @ + Routes[g]],
             UNCHANGED free
      PROVE  /\ group' \in [Requests -> Groups]
             /\ tried' \in [Requests -> SUBSET Groups]
             /\ todo' \in [Requests -> Nat]
             /\ free' \subseteq Requests
  <2>1. Routes[g] \in Nat
    BY DispatchConstants
  <2>. QED BY <1>2, <2>1 DEF TypeOK
<1>. QED BY <1>1, <1>2 DEF WidenRoute

LEMMA ReconcileTyped ==
    ASSUME TypeOK, NEW r \in Requests, NEW diff \in Int, Reconcile(r, diff)
    PROVE  /\ quota' \in [Users -> Int]
           /\ remain' \in [Tokens -> Int]
           /\ taken' = [taken EXCEPT ![r] = @ - diff]
           /\ taken' \in [Requests -> Int]
<1>1. UserOf[r] \in Users /\ TokenOf[r] \in Tokens
  BY DispatchConstants
<1>2. RemainAfterReconcile(TokenOf[r], diff) \in Int
  BY <1>1 DEF RemainAfterReconcile, TypeOK
<1>. QED BY <1>1, <1>2 DEF Reconcile, TypeOK

LEMMA SaveKeyTyped ==
    ASSUME TypeOK, NEW r \in Requests, SaveKey(r)
    PROVE  /\ saved' \subseteq Keys
           /\ mishap' \in [Requests -> SUBSET Mishaps]
           /\ \A s \in Requests \ {r} : mishap'[s] = mishap[s]
           /\ mishap'[r] \in {mishap[r], mishap[r] \cup {"saveFail"}}
<1>1. KeyOf[r] \in Keys \cup {NoKey}
  BY DispatchConstants
<1>. QED BY <1>1 DEF SaveKey, Blame, TypeOK, Mishaps, FaultKinds

-----------------------------------------------------------------------------
LEMMA InitInv == Init => IInv
BY DispatchConstants
   DEF Init, IInv, TypeOK, RequestInv, Held, OpenPlaces, PaidPlaces, Places,
       Closed

\* Start enters some group with at most the channels that it has.
LEMMA StartEnters ==
    ASSUME NEW r \in Requests, Start(r)
    PROVE  \E g \in Groups \cap GroupsOf(r) : \E n \in 0..Routes[g] : Enter(r, g, n)
<1>1. PICK g \in Groups : \E n \in 0..Routes[g] :
          /\ StartGroup(r, g)
          /\ \/ n > 0 /\ Enter(r, g, n)
             \/ \E h \in Groups : OtherGroup(r, g, h) /\ Enter(r, h, Routes[h])
             \/ n = 0 /\ Enter(r, g, 0)
  <2>1. PICK g \in Groups :
            /\ StartGroup(r, g)
            /\ \E n \in IF r \in free' THEN {Routes[g]} ELSE 0..Routes[g] :
                \/ n > 0 /\ Enter(r, g, n)
                \/ \E h \in Groups :
                      n = 0 /\ OtherGroup(r, g, h) /\ Enter(r, h, Routes[h])
                \/ n = 0 /\ (\A h \in Groups : ~OtherGroup(r, g, h)) /\ Enter(r, g, 0)
    BY DEF Start
  <2>2. Routes[g] \in Nat /\ Routes[g] \in 0..Routes[g]
    BY DispatchConstants
  <2>. QED BY <2>1, <2>2
<1>2. g \in GroupsOf(r)
  BY <1>1 DEF StartGroup, GroupsOf
<1>3. ASSUME NEW h \in Groups, OtherGroup(r, g, h)
      PROVE  h \in GroupsOf(r) /\ Routes[h] \in 0..Routes[h]
  BY <1>3, DispatchConstants DEF OtherGroup, GroupsOf
<1>. QED BY <1>1, <1>2, <1>3

LEMMA BeforeStep ==
    ASSUME IInv, NEW r \in Requests, Before(r)
    PROVE  IInv'
<1>. USE DEF IInv, db, route, Goto, OpenPlaces, PaidPlaces
<1>1. CASE Reject(r)
  <2>1. TypeOK' BY <1>1 DEF Reject, TypeOK, Places, Closed
  <2>2. RequestInv(r)' BY <1>1 DEF Reject, RequestInv, Held, TypeOK
  <2>3. Others(r) BY <1>1 DEF Reject, Others, TypeOK
  <2>. QED BY <2>1, <2>2, <2>3, OthersKeep
<1>2. CASE Replay(r)
  <2>1. TypeOK' BY <1>2 DEF Replay, TypeOK, Places, Closed
  <2>2. RequestInv(r)' BY <1>2 DEF Replay, RequestInv, Held, TypeOK
  <2>3. Others(r) BY <1>2 DEF Replay, Others, TypeOK
  <2>. QED BY <2>1, <2>2, <2>3, OthersKeep
<1>3. CASE Start(r)
  <2>1. PICK g \in Groups, n \in Nat :
            /\ group' = [group EXCEPT ![r] = g]
            /\ tried' = [tried EXCEPT ![r] = {g}]
            /\ todo' = [todo EXCEPT ![r] = n]
            /\ pc' = [pc EXCEPT ![r] = IF n = 0 THEN "failed" ELSE "choosing"]
    BY <1>3, StartEnters DEF Enter
  <2>3. TypeOK' BY <1>3, <2>1 DEF Start, TypeOK, Places, Closed
  <2>4. RequestInv(r)'
    BY <1>3, <2>1 DEF Start, RequestInv, Held, TypeOK
  <2>5. Others(r) BY <1>3, <2>1 DEF Start, Others, TypeOK
  <2>. QED BY <2>3, <2>4, <2>5, OthersKeep
<1>. QED BY <1>1, <1>2, <1>3 DEF Before

LEMMA AttemptStep ==
    ASSUME IInv, NEW r \in Requests, Attempt(r)
    PROVE  IInv'
<1>. USE DEF IInv, db, route, Goto, OpenPlaces, PaidPlaces
<1>. DEFINE est == Estimate[group[r]]
<1>0. est \in Nat /\ UserOf[r] \in Users /\ TokenOf[r] \in Tokens
  BY DispatchConstants DEF TypeOK
<1>1. CASE SkipChannel(r)
  <2>1. TypeOK'
    BY <1>1 DEF SkipChannel, TypeOK, Places, Closed
  <2>2. RequestInv(r)'
    BY <1>1 DEF SkipChannel, RequestInv, Held, TypeOK
  <2>3. Others(r)
    BY <1>1 DEF SkipChannel, Others, TypeOK
  <2>. QED BY <2>1, <2>2, <2>3, OthersKeep
<1>2. CASE TakeChannel(r)
  <2>1. TypeOK'
    BY <1>2 DEF TakeChannel, TypeOK, Places, Closed
  <2>2. RequestInv(r)'
    BY <1>2 DEF TakeChannel, RequestInv, Held, TypeOK
  <2>3. Others(r)
    BY <1>2 DEF TakeChannel, Others, TypeOK
  <2>. QED BY <2>1, <2>2, <2>3, OthersKeep
<1>3. CASE PackageLimit(r)
  <2>1. TypeOK'
    BY <1>3 DEF PackageLimit, TypeOK, Places, Closed
  <2>2. RequestInv(r)'
    BY <1>3 DEF PackageLimit, RequestInv, Held, TypeOK
  <2>3. Others(r)
    BY <1>3 DEF PackageLimit, Others, TypeOK
  <2>. QED BY <2>1, <2>2, <2>3, OthersKeep
<1>4. CASE GiveUp(r)
  <2>1. TypeOK'
    BY <1>4 DEF GiveUp, TypeOK, Places, Closed
  <2>2. RequestInv(r)'
    BY <1>4 DEF GiveUp, RequestInv, Held, TypeOK
  <2>3. Others(r)
    BY <1>4 DEF GiveUp, Others, TypeOK
  <2>. QED BY <2>1, <2>2, <2>3, OthersKeep
<1>5. CASE PreCheckFree(r)
  <2>1. TypeOK'
    BY <1>5 DEF PreCheckFree, TypeOK, Places, Closed
  <2>2. RequestInv(r)'
    BY <1>5 DEF PreCheckFree, RequestInv, Held, TypeOK
  <2>3. Others(r)
    BY <1>5 DEF PreCheckFree, Others, TypeOK
  <2>. QED BY <2>1, <2>2, <2>3, OthersKeep
<1>6. CASE PreCheckHolds(r)
  <2>1. RemainAfterPreCheck(TokenOf[r], est) \in Int
    BY <1>0 DEF RemainAfterPreCheck, TypeOK
  <2>2. TypeOK'
    BY <1>6, <1>0, <2>1 DEF PreCheckHolds, TypeOK, Places, Closed
  <2>3. RequestInv(r)'
    BY <1>6, <1>0 DEF PreCheckHolds, RequestInv, Held, TypeOK
  <2>4. Others(r)
    BY <1>6 DEF PreCheckHolds, Others, TypeOK
  <2>. QED BY <2>2, <2>3, <2>4, OthersKeep
<1>7. CASE PreCheckUserShort(r)
  <2>1. TypeOK'
    BY <1>7 DEF PreCheckUserShort, TypeOK, Places, Closed
  <2>2. RequestInv(r)'
    BY <1>7 DEF PreCheckUserShort, RequestInv, Held, TypeOK
  <2>3. Others(r)
    BY <1>7 DEF PreCheckUserShort, Others, TypeOK
  <2>. QED BY <2>1, <2>2, <2>3, OthersKeep
<1>8. CASE PreCheckTokenShort(r)
  <2>1. TypeOK'
    BY <1>8, <1>0 DEF PreCheckTokenShort, TypeOK, Places, Closed, Blame, Mishaps, FaultKinds
  <2>0. /\ mishap'[r] = mishap[r] \cup {"tokenShort"}
        /\ ~(mishap'[r] \subseteq {"overrun", "saveFail"})
    BY <1>8 DEF PreCheckTokenShort, Blame, TypeOK
  <2>2. RequestInv(r)'
    BY <1>8, <2>0, <1>0 DEF PreCheckTokenShort, RequestInv, Held, TypeOK
  <2>3. Others(r)
    BY <1>8, <1>0 DEF PreCheckTokenShort, Others, TypeOK, Blame, Mishaps, FaultKinds
  <2>. QED BY <2>1, <2>2, <2>3, OthersKeep
<1>9. CASE PreCheckFails(r)
  <2>1. TypeOK'
    BY <1>9 DEF PreCheckFails, TypeOK, Places, Closed
  <2>2. RequestInv(r)'
    BY <1>9 DEF PreCheckFails, RequestInv, Held, TypeOK
  <2>3. Others(r)
    BY <1>9 DEF PreCheckFails, Others, TypeOK
  <2>. QED BY <2>1, <2>2, <2>3, OthersKeep
<1>. QED
  BY <1>1, <1>2, <1>3, <1>4, <1>5, <1>6, <1>7, <1>8, <1>9 DEF Attempt

LEMMA AnswerStep ==
    ASSUME IInv, NEW r \in Requests, Answer(r)
    PROVE  IInv'
<1>. USE DEF IInv, db, route, Goto, OpenPlaces, PaidPlaces
<1>1. CASE UpstreamFails(r)
  <2>1. TypeOK'
    BY <1>1 DEF UpstreamFails, TypeOK, Places, Closed
  <2>2. RequestInv(r)'
    BY <1>1 DEF UpstreamFails, RequestInv, Held, TypeOK
  <2>3. Others(r)
    BY <1>1 DEF UpstreamFails, Others, TypeOK
  <2>. QED BY <2>1, <2>2, <2>3, OthersKeep
<1>2. CASE Answered(r)
  <2>1. PICK c \in Costs : cost' = [cost EXCEPT ![r] = c]
    BY <1>2 DEF Answered
  <2>2. c \in Nat BY DispatchConstants
  <2>3. TypeOK' BY <1>2, <2>1, <2>2 DEF Answered, TypeOK, Places, Closed
  <2>4. RequestInv(r)'
    BY <1>2, <2>1 DEF Answered, RequestInv, Held, TypeOK
  <2>5. Others(r) BY <1>2, <2>1 DEF Answered, Others, TypeOK
  <2>. QED BY <2>3, <2>4, <2>5, OthersKeep
<1>3. CASE StreamStarts(r)
  <2>1. TypeOK'
    BY <1>3 DEF StreamStarts, TypeOK, Places, Closed
  <2>2. RequestInv(r)'
    BY <1>3 DEF StreamStarts, RequestInv, Held, TypeOK
  <2>3. Others(r)
    BY <1>3 DEF StreamStarts, Others, TypeOK
  <2>. QED BY <2>1, <2>2, <2>3, OthersKeep
<1>4. CASE Settle(r)
  <2>1. pre[r] \in Nat /\ cost[r] \in Nat /\ pre[r] - cost[r] \in Int
    BY DEF TypeOK
  <2>2. /\ quota' \in [Users -> Int]
        /\ remain' \in [Tokens -> Int]
        /\ taken' = [taken EXCEPT ![r] = @ - (pre[r] - cost[r])]
        /\ taken' \in [Requests -> Int]
    BY <1>4, <2>1, ReconcileTyped DEF Settle
  <2>3. TypeOK'
    BY <1>4, <2>2 DEF Settle, TypeOK, Places, Closed, Blame, Mishaps
  <2>4. RequestInv(r)'
    BY <1>4, <2>1, <2>2 DEF Settle, RequestInv, Held, TypeOK, Blame
  <2>5. Others(r)
    BY <1>4, <2>2 DEF Settle, Others, TypeOK, Blame
  <2>. QED BY <2>3, <2>4, <2>5, OthersKeep
<1>5. CASE SettleFails(r)
  <2>1. TypeOK'
    BY <1>5 DEF SettleFails, TypeOK, Places, Closed
  <2>2. RequestInv(r)'
    BY <1>5 DEF SettleFails, RequestInv, Held, TypeOK
  <2>3. Others(r)
    BY <1>5 DEF SettleFails, Others, TypeOK
  <2>. QED BY <2>1, <2>2, <2>3, OthersKeep
<1>6. CASE Logged(r)
  <2>1. /\ saved' \subseteq Keys
        /\ mishap' \in [Requests -> SUBSET Mishaps]
        /\ \A s \in Requests \ {r} : mishap'[s] = mishap[s]
        /\ mishap'[r] \in {mishap[r], mishap[r] \cup {"saveFail"}}
    BY <1>6, SaveKeyTyped DEF Logged
  <2>2. TypeOK' BY <1>6, <2>1 DEF Logged, TypeOK, Places, Closed
  <2>3. RequestInv(r)' BY <1>6, <2>1 DEF Logged, RequestInv, Held, TypeOK
  <2>4. Others(r) BY <1>6, <2>1 DEF Logged, Others, TypeOK
  <2>. QED BY <2>2, <2>3, <2>4, OthersKeep
<1>7. CASE Transformed(r)
  <2>1. TypeOK'
    BY <1>7 DEF Transformed, TypeOK, Places, Closed
  <2>2. RequestInv(r)'
    BY <1>7 DEF Transformed, RequestInv, Held, TypeOK
  <2>3. Others(r)
    BY <1>7 DEF Transformed, Others, TypeOK
  <2>. QED BY <2>1, <2>2, <2>3, OthersKeep
<1>8. CASE TransformThrows(r)
  <2>1. TypeOK'
    BY <1>8 DEF TransformThrows, TypeOK, Places, Closed, Blame, Mishaps, FaultKinds
  <2>0. /\ mishap'[r] = mishap[r] \cup {"lateThrow"}
        /\ ~(mishap'[r] \subseteq {"overrun", "saveFail"})
    BY <1>8 DEF TransformThrows, Blame, TypeOK
  <2>2. RequestInv(r)'
    BY <1>8, <2>0 DEF TransformThrows, RequestInv, Held, TypeOK
  <2>3. Others(r)
    BY <1>8 DEF TransformThrows, Others, TypeOK, Blame, Mishaps, FaultKinds
  <2>. QED BY <2>1, <2>2, <2>3, OthersKeep
<1>9. CASE Refund(r)
  <2>1. pre[r] \in Nat /\ pre[r] \in Int
    BY DEF TypeOK
  <2>2. /\ quota' \in [Users -> Int]
        /\ remain' \in [Tokens -> Int]
        /\ taken' = [taken EXCEPT ![r] = @ - pre[r]]
        /\ taken' \in [Requests -> Int]
    <3>1. CASE pre[r] > 0
      BY <1>9, <2>1, <3>1, ReconcileTyped DEF Refund
    <3>2. CASE pre[r] = 0
      <4>1. UNCHANGED <<quota, remain, taken>> BY <1>9, <3>2 DEF Refund
      <4>2. taken[r] - pre[r] = taken[r] BY <3>2 DEF TypeOK
      <4>. QED BY <4>1, <4>2 DEF TypeOK
    <3>. QED BY <2>1, <3>1, <3>2
  <2>3. TypeOK'
    BY <1>9, <2>2, RouteTyped DEF Refund, TypeOK, Places, Closed
  <2>4. RequestInv(r)'
    BY <1>9, <2>1, <2>2 DEF Refund, RequestInv, Held, TypeOK
  <2>5. Others(r)
    BY <1>9, <2>2 DEF Refund, Others, TypeOK
  <2>. QED BY <2>3, <2>4, <2>5, OthersKeep
<1>10. CASE RefundFails(r)
  <2>1. TypeOK'
    BY <1>10, RouteTyped
       DEF RefundFails, TypeOK, Places, Closed, Blame, Mishaps, FaultKinds
  <2>0. /\ mishap'[r] = mishap[r] \cup {"ledgerFail"}
        /\ ~(mishap'[r] \subseteq {"overrun", "saveFail"})
    BY <1>10 DEF RefundFails, Blame, TypeOK
  <2>2. RequestInv(r)'
    BY <1>10, <2>0 DEF RefundFails, RequestInv, Held, TypeOK
  <2>3. Others(r)
    BY <1>10 DEF RefundFails, Others, TypeOK, Blame
  <2>. QED BY <2>1, <2>2, <2>3, OthersKeep
<1>11. CASE AnsweredBinary(r)
  <2>1. PICK c \in Costs : cost' = [cost EXCEPT ![r] = c]
    BY <1>11 DEF AnsweredBinary
  <2>2. c \in Nat BY DispatchConstants
  <2>3. TypeOK' BY <1>11, <2>1, <2>2 DEF AnsweredBinary, TypeOK, Places, Closed
  <2>4. RequestInv(r)'
    BY <1>11, <2>1 DEF AnsweredBinary, RequestInv, Held, TypeOK
  <2>5. Others(r) BY <1>11, <2>1 DEF AnsweredBinary, Others, TypeOK
  <2>. QED BY <2>3, <2>4, <2>5, OthersKeep
<1>12. CASE BinaryLogged(r)
  <2>1. TypeOK'
    BY <1>12 DEF BinaryLogged, TypeOK, Places, Closed
  <2>2. RequestInv(r)'
    BY <1>12 DEF BinaryLogged, RequestInv, Held, TypeOK
  <2>3. Others(r)
    BY <1>12 DEF BinaryLogged, Others, TypeOK
  <2>. QED BY <2>1, <2>2, <2>3, OthersKeep
<1>. QED
  BY <1>1, <1>2, <1>3, <1>4, <1>5, <1>6, <1>7, <1>8, <1>9, <1>10, <1>11, <1>12
     DEF Answer

LEMMA StreamStep ==
    ASSUME IInv, NEW r \in Requests, Stream(r)
    PROVE  IInv'
<1>. USE DEF IInv, db, route, Goto, OpenPlaces, PaidPlaces
<1>0. pre[r] \in Nat /\ pre[r] \in Int
  BY DEF TypeOK
<1>1. CASE StreamSettles(r)
  <2>1. PICK c \in Costs :
            /\ cost' = [cost EXCEPT ![r] = c]
            /\ Reconcile(r, pre[r] - c)
            /\ IF c > pre[r] THEN Blame(r, "overrun") ELSE UNCHANGED mishap
    BY <1>1 DEF StreamSettles
  <2>2. c \in Nat /\ pre[r] - c \in Int
    BY <1>0, DispatchConstants
  <2>3. /\ quota' \in [Users -> Int]
        /\ remain' \in [Tokens -> Int]
        /\ taken' = [taken EXCEPT ![r] = @ - (pre[r] - c)]
        /\ taken' \in [Requests -> Int]
    BY <2>1, <2>2, ReconcileTyped
  <2>4. TypeOK'
    BY <1>1, <2>1, <2>2, <2>3
       DEF StreamSettles, TypeOK, Places, Closed, Blame, Mishaps
  <2>5. RequestInv(r)'
    BY <1>0, <1>1, <2>1, <2>2, <2>3
       DEF StreamSettles, RequestInv, Held, TypeOK, Blame
  <2>6. Others(r)
    BY <1>1, <2>1, <2>3 DEF StreamSettles, Others, TypeOK, Blame
  <2>. QED BY <2>4, <2>5, <2>6, OthersKeep
<1>2. CASE StreamDrops(r)
  <2>1. TypeOK'
    BY <1>2 DEF StreamDrops, TypeOK, Places, Closed
  <2>2. RequestInv(r)'
    BY <1>2 DEF StreamDrops, RequestInv, Held, TypeOK
  <2>3. Others(r)
    BY <1>2 DEF StreamDrops, Others, TypeOK
  <2>. QED BY <2>1, <2>2, <2>3, OthersKeep
<1>3. CASE StreamLogged(r)
  <2>1. /\ saved' \subseteq Keys
        /\ mishap' \in [Requests -> SUBSET Mishaps]
        /\ \A s \in Requests \ {r} : mishap'[s] = mishap[s]
        /\ mishap'[r] \in {mishap[r], mishap[r] \cup {"saveFail"}}
    BY <1>3, SaveKeyTyped DEF StreamLogged
  <2>2. TypeOK' BY <1>3, <2>1 DEF StreamLogged, TypeOK, Places, Closed
  <2>3. RequestInv(r)'
    BY <1>3, <2>1 DEF StreamLogged, RequestInv, Held, TypeOK
  <2>4. Others(r) BY <1>3, <2>1 DEF StreamLogged, Others, TypeOK
  <2>. QED BY <2>2, <2>3, <2>4, OthersKeep
<1>4. CASE StreamRefund(r)
  <2>1. /\ quota' \in [Users -> Int]
        /\ remain' \in [Tokens -> Int]
        /\ taken' = [taken EXCEPT ![r] = @ - pre[r]]
        /\ taken' \in [Requests -> Int]
    BY <1>0, <1>4, ReconcileTyped DEF StreamRefund
  <2>2. TypeOK' BY <1>4, <2>1 DEF StreamRefund, TypeOK, Places, Closed
  <2>3. RequestInv(r)'
    BY <1>0, <1>4, <2>1 DEF StreamRefund, RequestInv, Held, TypeOK, Closed
  <2>4. Others(r) BY <1>4, <2>1 DEF StreamRefund, Others, TypeOK
  <2>. QED BY <2>2, <2>3, <2>4, OthersKeep
<1>5. CASE StreamRefundFails(r)
  <2>1. TypeOK'
    BY <1>5 DEF StreamRefundFails, TypeOK, Places, Closed, Blame, Mishaps, FaultKinds
  <2>0. /\ mishap'[r] = mishap[r] \cup {"ledgerFail"}
        /\ ~(mishap'[r] \subseteq {"overrun", "saveFail"})
    BY <1>5 DEF StreamRefundFails, Blame, TypeOK
  <2>2. RequestInv(r)'
    BY <1>5, <2>0 DEF StreamRefundFails, RequestInv, Held, TypeOK, Closed
  <2>3. Others(r)
    BY <1>5 DEF StreamRefundFails, Others, TypeOK, Blame, Mishaps, FaultKinds
  <2>. QED BY <2>1, <2>2, <2>3, OthersKeep
<1>. QED BY <1>1, <1>2, <1>3, <1>4, <1>5 DEF Stream

-----------------------------------------------------------------------------
LEMMA StepInv == IInv /\ [Next]_vars => IInv'
<1>. SUFFICES ASSUME IInv, [Next]_vars PROVE IInv'
  OBVIOUS
<1>1. CASE UNCHANGED vars
  BY <1>1 DEF vars, IInv, TypeOK, RequestInv, Held, OpenPlaces, PaidPlaces
<1>2. ASSUME NEW r \in Requests, Step(r) PROVE IInv'
  BY <1>2, BeforeStep, AttemptStep, AnswerStep, StreamStep DEF Step
<1>. QED BY <1>1, <1>2 DEF Next

LEMMA Invariance == Spec => []IInv
BY InitInv, StepInv, PTL DEF Spec

\* Every behaviour of dispatch() keeps its state well typed, for all
\* constants.
THEOREM TypeCorrect == Spec => []TypeOK
<1>1. IInv => TypeOK BY DEF IInv
<1>. QED BY <1>1, Invariance, PTL

\* Every request that no package covers and none of whose transactions went
\* wrong holds in the ledger exactly what its place in the code says, and once
\* finished has been charged its actual cost if it was served and nothing if it
\* was not; and a served request has paid at least its cost whatever suppressed
\* failures it met, unless it failed after its own settlement.  (The invariant
\* says the same of covered requests: they are not exempted.)
THEOREM ExactCharge == Spec => []ChargedOnce
<1>1. IInv => ChargedOnce
  <2>1. \A r \in Requests : pc[r] = "served" => Held(r) = cost[r]
    BY DEF Held, OpenPlaces, PaidPlaces
  <2>. QED BY <2>1 DEF IInv, RequestInv, ChargedOnce
<1>. QED BY <1>1, Invariance, PTL

-----------------------------------------------------------------------------
(* What a step moves between a user, a token and the request itself.       *)

\* The answer of a request that is settled has one of the possible costs, and
\* its key is stored once its billing is done; for a stream that is after the
\* answer was handed over.
AnswerInv(r) ==
    /\ pc[r] = "new" => taken[r] = 0
    /\ pc[r] = "settling" => cost[r] \in Costs
    /\ (/\ pc[r] \in {"transforming", "served"} /\ reply[r] # "binary"
        /\ "saveFail" \notin mishap[r] /\ KeyOf[r] # NoKey)
            => KeyOf[r] \in saved

\* Without an overrun a metered token never falls below 0, so no update of
\* remain_quota takes it for an unlimited one.
TokenInv(t) ==
    IsMetered(t) =>
        /\ (\A r \in RequestsOfToken(t) : "overrun" \notin mishap[r]) => remain[t] >= 0
        /\ (\A r \in RequestsOfToken(t) : mishap[r] \subseteq {"saveFail"})
               => remain[t] = InitRemain[t] - HeldBy(RequestsOfToken(t))

\* What the requests of a user have taken from it, mishaps or not.
TakenBy(S) == SumFunctionOnSet(taken, S)
UserInv(u) == quota[u] = InitQuota[u] - TakenBy(RequestsOfUser(u))

AccountInv ==
    /\ IInv
    /\ \A r \in Requests : AnswerInv(r)
    /\ \A t \in Tokens : TokenInv(t)
    /\ \A u \in Users : UserInv(u)

\* What the other requests can see of a step of r.
Apart(r) ==
    /\ \A s \in Requests \ {r} :
          /\ pc'[s] = pc[s] /\ pre'[s] = pre[s] /\ cost'[s] = cost[s]
          /\ taken'[s] = taken[s] /\ mishap'[s] = mishap[s] /\ reply'[s] = reply[s]
    /\ saved \subseteq saved'
    /\ mishap[r] \subseteq mishap'[r]
    /\ \A u \in Users \ {UserOf[r]} : quota'[u] = quota[u]
    /\ \A t \in Tokens \ {TokenOf[r]} : remain'[t] = remain[t]

\* What r's own token loses is what r holds more than before.
TokenMoves(r) ==
    LET t == TokenOf[r]
    IN  (t \notin Unlimited /\ remain[t] >= 0 /\ "overrun" \notin mishap'[r]) =>
            /\ remain'[t] >= 0
            /\ mishap'[r] \subseteq {"saveFail"} =>
                    remain'[t] = remain[t] + Held(r) - Held(r)'

\* What r's user gains, once r is forgotten.
Gain(r) ==
    quota'[UserOf[r]] - quota[UserOf[r]] + HeldOpen(r)' - HeldOpen(r)

BillMoves(r) ==
    \/ BillOf(r)' = BillOf(r) /\ Gain(r) = 0
    \/ BillOf(r)' = "spoiled"
    \/ BillOf(r) = "open" /\ BillOf(r)' = "free" /\ Gain(r) = 0
    \/ BillOf(r) = "open" /\ BillOf(r)' = "charged" /\ \E c \in Costs : Gain(r) = -c

Moves(r) == Apart(r) /\ TokenMoves(r) /\ BillMoves(r) /\ AnswerInv(r)'

\* The rows a settlement touches, and what it does to them.
LEMMA ReconcileEffect ==
    ASSUME TypeOK, NEW r \in Requests, NEW diff \in Int, Reconcile(r, diff)
    PROVE  /\ quota'[UserOf[r]] = quota[UserOf[r]] + diff
           /\ \A u \in Users \ {UserOf[r]} : quota'[u] = quota[u]
           /\ \A t \in Tokens \ {TokenOf[r]} : remain'[t] = remain[t]
           /\ (TokenOf[r] \notin Unlimited /\ remain[TokenOf[r]] >= 0)
                  => remain'[TokenOf[r]] = remain[TokenOf[r]] + diff
           /\ \A s \in Requests \ {r} : taken'[s] = taken[s]
<1>1. UserOf[r] \in Users /\ TokenOf[r] \in Tokens
  BY DispatchConstants
<1>. QED BY <1>1 DEF Reconcile, RemainAfterReconcile, TypeOK

\* A stored key stays, and the answer's key is among the stored ones unless
\* storing it failed.
LEMMA SaveKeyEffect ==
    ASSUME NEW r \in Requests, SaveKey(r), TypeOK
    PROVE  /\ saved \subseteq saved'
           /\ KeyOf[r] = NoKey \/ KeyOf[r] \in saved' \/ "saveFail" \in mishap'[r]
BY DEF SaveKey, Blame, TypeOK

LEMMA BeforeMoves ==
    ASSUME IInv, NEW r \in Requests, AnswerInv(r), Before(r)
    PROVE  Moves(r)
<1>. USE DEF IInv, TypeOK, db, route, Goto, Blame, OpenPlaces, PaidPlaces, Closed
<1>0. UserOf[r] \in Users /\ TokenOf[r] \in Tokens
  BY DispatchConstants
<1>1. CASE Reject(r)
  <2>1. Apart(r) BY <1>0, <1>1 DEF Reject, Apart
  <2>2. TokenMoves(r) BY <1>0, <1>1 DEF Reject, TokenMoves, Held
  <2>3. BillMoves(r) BY <1>0, <1>1 DEF Reject, BillMoves, BillOf, Gain, HeldOpen
  <2>4. AnswerInv(r)' BY <1>0, <1>1 DEF Reject, AnswerInv
  <2>. QED BY <2>1, <2>2, <2>3, <2>4 DEF Moves
<1>2. CASE Replay(r)
  <2>1. Apart(r) BY <1>0, <1>2 DEF Replay, Apart
  <2>2. TokenMoves(r) BY <1>0, <1>2 DEF Replay, TokenMoves, Held
  <2>3. BillMoves(r) BY <1>0, <1>2 DEF Replay, BillMoves, BillOf, Gain, HeldOpen
  <2>4. AnswerInv(r)' BY <1>0, <1>2 DEF Replay, AnswerInv
  <2>. QED BY <2>1, <2>2, <2>3, <2>4 DEF Moves
<1>3. CASE Start(r)
  <2>0. PICK g \in Groups : \E n \in 0..Routes[g] : Enter(r, g, n)
    BY <1>3, StartEnters
  <2>1. pc[r] = "new" /\ UNCHANGED <<db, saved, pre, cost, reply, taken, mishap>>
    BY <1>3 DEF Start
  <2>2. /\ pc'[r] \in {"failed", "choosing"}
        /\ \A s \in Requests \ {r} : pc'[s] = pc[s]
    BY <2>0 DEF Enter
  <2>3. Apart(r) BY <1>0, <2>1, <2>2 DEF Apart
  <2>4. TokenMoves(r) BY <1>0, <2>1, <2>2 DEF TokenMoves, Held
  <2>5. BillMoves(r) BY <1>0, <2>1, <2>2 DEF BillMoves, BillOf, Gain, HeldOpen
  <2>6. AnswerInv(r)' BY <1>0, <2>1, <2>2 DEF AnswerInv
  <2>. QED BY <2>3, <2>4, <2>5, <2>6 DEF Moves
<1>. QED BY <1>1, <1>2, <1>3 DEF Before

LEMMA AttemptMoves ==
    ASSUME IInv, NEW r \in Requests, AnswerInv(r), Attempt(r)
    PROVE  Moves(r)
<1>. USE DEF IInv, TypeOK, db, route, Goto, Blame, OpenPlaces, PaidPlaces, Closed
<1>0. UserOf[r] \in Users /\ TokenOf[r] \in Tokens
  BY DispatchConstants
<1>1. CASE SkipChannel(r)
  <2>1. Apart(r) BY <1>0, <1>1 DEF SkipChannel, Apart
  <2>2. TokenMoves(r) BY <1>0, <1>1 DEF SkipChannel, TokenMoves, Held
  <2>3. BillMoves(r) BY <1>0, <1>1 DEF SkipChannel, BillMoves, BillOf, Gain, HeldOpen
  <2>4. AnswerInv(r)' BY <1>0, <1>1 DEF SkipChannel, AnswerInv
  <2>. QED BY <2>1, <2>2, <2>3, <2>4 DEF Moves
<1>2. CASE TakeChannel(r)
  <2>1. Apart(r) BY <1>0, <1>2 DEF TakeChannel, Apart
  <2>2. TokenMoves(r) BY <1>0, <1>2 DEF TakeChannel, TokenMoves, Held
  <2>3. BillMoves(r) BY <1>0, <1>2 DEF TakeChannel, BillMoves, BillOf, Gain, HeldOpen
  <2>4. AnswerInv(r)' BY <1>0, <1>2 DEF TakeChannel, AnswerInv
  <2>. QED BY <2>1, <2>2, <2>3, <2>4 DEF Moves
<1>3. CASE PackageLimit(r)
  <2>1. Apart(r) BY <1>0, <1>3 DEF PackageLimit, Apart
  <2>2. TokenMoves(r) BY <1>0, <1>3 DEF PackageLimit, TokenMoves, Held
  <2>3. BillMoves(r) BY <1>0, <1>3 DEF PackageLimit, BillMoves, BillOf, Gain, HeldOpen
  <2>4. AnswerInv(r)' BY <1>0, <1>3 DEF PackageLimit, AnswerInv
  <2>. QED BY <2>1, <2>2, <2>3, <2>4 DEF Moves
<1>4. CASE GiveUp(r)
  <2>1. Apart(r) BY <1>0, <1>4 DEF GiveUp, Apart
  <2>2. TokenMoves(r) BY <1>0, <1>4 DEF GiveUp, TokenMoves, Held
  <2>3. BillMoves(r) BY <1>0, <1>4 DEF GiveUp, BillMoves, BillOf, Gain, HeldOpen
  <2>4. AnswerInv(r)' BY <1>0, <1>4 DEF GiveUp, AnswerInv
  <2>. QED BY <2>1, <2>2, <2>3, <2>4 DEF Moves
<1>5. CASE PreCheckFree(r)
  <2>0. pre[r] = 0 BY <1>5 DEF PreCheckFree, RequestInv
  <2>1. Apart(r) BY <1>0, <1>5 DEF PreCheckFree, Apart
  <2>2. TokenMoves(r) BY <1>0, <1>5, <2>0 DEF PreCheckFree, TokenMoves, Held
  <2>3. BillMoves(r) BY <1>0, <1>5, <2>0 DEF PreCheckFree, BillMoves, BillOf, Gain, HeldOpen
  <2>4. AnswerInv(r)' BY <1>0, <1>5 DEF PreCheckFree, AnswerInv
  <2>. QED BY <2>1, <2>2, <2>3, <2>4 DEF Moves
<1>6. CASE PreCheckHolds(r)
  <2> DEFINE est == Estimate[group[r]]
             t == TokenOf[r]
  <2>0. pre[r] = 0 /\ est \in Nat
    BY <1>6, DispatchConstants DEF PreCheckHolds, RequestInv
  <2>1. /\ quota' = [quota EXCEPT ![UserOf[r]] = @ - est]
        /\ remain' = [remain EXCEPT ![t] = RemainAfterPreCheck(t, est)]
        /\ taken' = [taken EXCEPT ![r] = @ + est]
        /\ pre' = [pre EXCEPT ![r] = est]
        /\ pc' = [pc EXCEPT ![r] = "fetching"]
        /\ pc[r] = "checking" /\ TokenAccepts(t, est)
        /\ UNCHANGED <<saved, cost, reply, mishap>>
    BY <1>6 DEF PreCheckHolds
  <2>. HIDE DEF est
  <2>2. (t \notin Unlimited /\ remain[t] >= 0)
            => remain'[t] = remain[t] - est /\ remain'[t] >= 0
    BY <1>0, <2>0, <2>1 DEF RemainAfterPreCheck, TokenAccepts
  <2>3. Apart(r) BY <1>0, <2>1 DEF Apart
  <2>4. TokenMoves(r) BY <1>0, <2>0, <2>1, <2>2 DEF TokenMoves, Held
  <2>5. BillMoves(r)
    BY <1>0, <2>0, <2>1 DEF BillMoves, BillOf, Gain, HeldOpen
  <2>6. AnswerInv(r)' BY <2>1 DEF AnswerInv
  <2>. QED BY <2>3, <2>4, <2>5, <2>6 DEF Moves
<1>7. CASE PreCheckUserShort(r)
  <2>0. pre[r] = 0 BY <1>7 DEF PreCheckUserShort, RequestInv
  <2>1. Apart(r) BY <1>0, <1>7 DEF PreCheckUserShort, Apart
  <2>2. TokenMoves(r) BY <1>0, <1>7, <2>0 DEF PreCheckUserShort, TokenMoves, Held
  <2>3. BillMoves(r) BY <1>0, <1>7, <2>0 DEF PreCheckUserShort, BillMoves, BillOf, Gain, HeldOpen
  <2>4. AnswerInv(r)' BY <1>0, <1>7 DEF PreCheckUserShort, AnswerInv
  <2>. QED BY <2>1, <2>2, <2>3, <2>4 DEF Moves
<1>8. CASE PreCheckTokenShort(r)
  <2>0. pre[r] = 0 BY <1>8 DEF PreCheckTokenShort, RequestInv
  <2>1. Apart(r) BY <1>0, <1>8 DEF PreCheckTokenShort, Apart
  <2>2. TokenMoves(r) BY <1>0, <1>8, <2>0 DEF PreCheckTokenShort, TokenMoves, Held
  <2>3. BillMoves(r) BY <1>0, <1>8, <2>0 DEF PreCheckTokenShort, BillMoves, BillOf, Gain, HeldOpen
  <2>4. AnswerInv(r)' BY <1>0, <1>8 DEF PreCheckTokenShort, AnswerInv
  <2>. QED BY <2>1, <2>2, <2>3, <2>4 DEF Moves
<1>9. CASE PreCheckFails(r)
  <2>0. pre[r] = 0 BY <1>9 DEF PreCheckFails, RequestInv
  <2>1. Apart(r) BY <1>0, <1>9 DEF PreCheckFails, Apart
  <2>2. TokenMoves(r) BY <1>0, <1>9, <2>0 DEF PreCheckFails, TokenMoves, Held
  <2>3. BillMoves(r) BY <1>0, <1>9, <2>0 DEF PreCheckFails, BillMoves, BillOf, Gain, HeldOpen
  <2>4. AnswerInv(r)' BY <1>0, <1>9 DEF PreCheckFails, AnswerInv
  <2>. QED BY <2>1, <2>2, <2>3, <2>4 DEF Moves
<1>. QED BY <1>1, <1>2, <1>3, <1>4, <1>5, <1>6, <1>7, <1>8, <1>9 DEF Attempt

LEMMA AnswerMoves ==
    ASSUME IInv, NEW r \in Requests, AnswerInv(r), Answer(r)
    PROVE  Moves(r)
<1>. USE DEF IInv, TypeOK, db, route, Goto, Blame, OpenPlaces, PaidPlaces, Closed
<1>0. UserOf[r] \in Users /\ TokenOf[r] \in Tokens
  BY DispatchConstants
<1>1. CASE UpstreamFails(r)
  <2>1. Apart(r) BY <1>0, <1>1 DEF UpstreamFails, Apart
  <2>2. TokenMoves(r) BY <1>0, <1>1 DEF UpstreamFails, TokenMoves, Held
  <2>3. BillMoves(r) BY <1>0, <1>1 DEF UpstreamFails, BillMoves, BillOf, Gain, HeldOpen
  <2>4. AnswerInv(r)' BY <1>0, <1>1 DEF UpstreamFails, AnswerInv
  <2>. QED BY <2>1, <2>2, <2>3, <2>4 DEF Moves
<1>2. CASE Answered(r)
  <2>1. Apart(r) BY <1>0, <1>2 DEF Answered, Apart
  <2>2. TokenMoves(r) BY <1>0, <1>2 DEF Answered, TokenMoves, Held
  <2>3. BillMoves(r) BY <1>0, <1>2 DEF Answered, BillMoves, BillOf, Gain, HeldOpen
  <2>4. AnswerInv(r)' BY <1>0, <1>2 DEF Answered, AnswerInv
  <2>. QED BY <2>1, <2>2, <2>3, <2>4 DEF Moves
<1>3. CASE AnsweredBinary(r)
  <2>1. Apart(r) BY <1>0, <1>3 DEF AnsweredBinary, Apart
  <2>2. TokenMoves(r) BY <1>0, <1>3 DEF AnsweredBinary, TokenMoves, Held
  <2>3. BillMoves(r) BY <1>0, <1>3 DEF AnsweredBinary, BillMoves, BillOf, Gain, HeldOpen
  <2>4. AnswerInv(r)' BY <1>0, <1>3 DEF AnsweredBinary, AnswerInv
  <2>. QED BY <2>1, <2>2, <2>3, <2>4 DEF Moves
<1>4. CASE StreamStarts(r)
  <2>1. Apart(r) BY <1>0, <1>4 DEF StreamStarts, Apart
  <2>2. TokenMoves(r) BY <1>0, <1>4 DEF StreamStarts, TokenMoves, Held
  <2>3. BillMoves(r) BY <1>0, <1>4 DEF StreamStarts, BillMoves, BillOf, Gain, HeldOpen
  <2>4. AnswerInv(r)' BY <1>0, <1>4 DEF StreamStarts, AnswerInv
  <2>. QED BY <2>1, <2>2, <2>3, <2>4 DEF Moves
<1>5. CASE Settle(r)
  <2>0. /\ pre[r] \in Nat /\ cost[r] \in Nat /\ pre[r] - cost[r] \in Int
        /\ cost[r] \in Costs
    BY <1>5 DEF Settle, AnswerInv
  <2>1. /\ quota'[UserOf[r]] = quota[UserOf[r]] + (pre[r] - cost[r])
        /\ \A u \in Users \ {UserOf[r]} : quota'[u] = quota[u]
        /\ \A t \in Tokens \ {TokenOf[r]} : remain'[t] = remain[t]
        /\ (TokenOf[r] \notin Unlimited /\ remain[TokenOf[r]] >= 0)
               => remain'[TokenOf[r]] = remain[TokenOf[r]] + (pre[r] - cost[r])
        /\ \A s \in Requests \ {r} : taken'[s] = taken[s]
    BY <2>0, <1>5, ReconcileEffect DEF Settle
  <2>2. Apart(r) BY <1>0, <1>5, <2>1 DEF Settle, Apart
  <2>3. TokenMoves(r) BY <1>0, <1>5, <2>0, <2>1 DEF Settle, TokenMoves, Held
  <2>4. BillMoves(r)
    BY <1>0, <1>5, <2>0, <2>1 DEF Settle, BillMoves, BillOf, Gain, HeldOpen
  <2>5. AnswerInv(r)' BY <1>0, <1>5 DEF Settle, AnswerInv
  <2>. QED BY <2>2, <2>3, <2>4, <2>5 DEF Moves
<1>6. CASE SettleFails(r)
  <2>1. Apart(r) BY <1>0, <1>6 DEF SettleFails, Apart
  <2>2. TokenMoves(r) BY <1>0, <1>6 DEF SettleFails, TokenMoves, Held
  <2>3. BillMoves(r) BY <1>0, <1>6 DEF SettleFails, BillMoves, BillOf, Gain, HeldOpen
  <2>4. AnswerInv(r)' BY <1>0, <1>6 DEF SettleFails, AnswerInv
  <2>. QED BY <2>1, <2>2, <2>3, <2>4 DEF Moves
<1>7. CASE Logged(r)
  <2>0. /\ \A s \in Requests \ {r} : mishap'[s] = mishap[s]
        /\ mishap'[r] \in {mishap[r], mishap[r] \cup {"saveFail"}}
        /\ saved \subseteq saved'
        /\ KeyOf[r] = NoKey \/ KeyOf[r] \in saved' \/ "saveFail" \in mishap'[r]
    BY <1>7, SaveKeyTyped, SaveKeyEffect DEF Logged
  <2>1. Apart(r) BY <1>0, <1>7, <2>0 DEF Logged, Apart
  <2>2. TokenMoves(r) BY <1>0, <1>7, <2>0 DEF Logged, TokenMoves, Held
  <2>3. BillMoves(r) BY <1>0, <1>7, <2>0 DEF Logged, BillMoves, BillOf, Gain, HeldOpen
  <2>4. AnswerInv(r)' BY <1>0, <1>7, <2>0 DEF Logged, AnswerInv
  <2>. QED BY <2>1, <2>2, <2>3, <2>4 DEF Moves
<1>8. CASE BinaryLogged(r)
  <2>1. Apart(r) BY <1>0, <1>8 DEF BinaryLogged, Apart
  <2>2. TokenMoves(r) BY <1>0, <1>8 DEF BinaryLogged, TokenMoves, Held
  <2>3. BillMoves(r) BY <1>0, <1>8 DEF BinaryLogged, BillMoves, BillOf, Gain, HeldOpen
  <2>4. AnswerInv(r)' BY <1>0, <1>8 DEF BinaryLogged, AnswerInv
  <2>. QED BY <2>1, <2>2, <2>3, <2>4 DEF Moves
<1>9. CASE Transformed(r)
  <2>1. Apart(r) BY <1>0, <1>9 DEF Transformed, Apart
  <2>2. TokenMoves(r) BY <1>0, <1>9 DEF Transformed, TokenMoves, Held
  <2>3. BillMoves(r) BY <1>0, <1>9 DEF Transformed, BillMoves, BillOf, Gain, HeldOpen
  <2>4. AnswerInv(r)' BY <1>0, <1>9 DEF Transformed, AnswerInv
  <2>. QED BY <2>1, <2>2, <2>3, <2>4 DEF Moves
<1>10. CASE TransformThrows(r)
  <2>1. Apart(r) BY <1>0, <1>10 DEF TransformThrows, Apart
  <2>2. TokenMoves(r) BY <1>0, <1>10 DEF TransformThrows, TokenMoves, Held
  <2>3. BillMoves(r) BY <1>0, <1>10 DEF TransformThrows, BillMoves, BillOf, Gain, HeldOpen
  <2>4. AnswerInv(r)' BY <1>0, <1>10 DEF TransformThrows, AnswerInv
  <2>. QED BY <2>1, <2>2, <2>3, <2>4 DEF Moves
<1>11. CASE Refund(r)
  <2>0. pre[r] \in Nat /\ pre[r] \in Int OBVIOUS
  <2>1. /\ quota'[UserOf[r]] = quota[UserOf[r]] + pre[r]
        /\ \A u \in Users \ {UserOf[r]} : quota'[u] = quota[u]
        /\ \A t \in Tokens \ {TokenOf[r]} : remain'[t] = remain[t]
        /\ (TokenOf[r] \notin Unlimited /\ remain[TokenOf[r]] >= 0)
               => remain'[TokenOf[r]] = remain[TokenOf[r]] + pre[r]
        /\ \A s \in Requests \ {r} : taken'[s] = taken[s]
    BY <2>0, <1>0, <1>11, ReconcileEffect DEF Refund
  <2>2. Apart(r) BY <1>0, <1>11, <2>1 DEF Refund, Apart
  <2>3. TokenMoves(r) BY <1>0, <1>11, <2>0, <2>1 DEF Refund, TokenMoves, Held
  <2>4. BillMoves(r)
    BY <1>0, <1>11, <2>0, <2>1 DEF Refund, BillMoves, BillOf, Gain, HeldOpen
  <2>5. AnswerInv(r)' BY <1>0, <1>11 DEF Refund, AnswerInv
  <2>. QED BY <2>2, <2>3, <2>4, <2>5 DEF Moves
<1>12. CASE RefundFails(r)
  <2>1. Apart(r) BY <1>0, <1>12 DEF RefundFails, Apart
  <2>2. TokenMoves(r) BY <1>0, <1>12 DEF RefundFails, TokenMoves, Held
  <2>3. BillMoves(r) BY <1>0, <1>12 DEF RefundFails, BillMoves, BillOf, Gain, HeldOpen
  <2>4. AnswerInv(r)' BY <1>0, <1>12 DEF RefundFails, AnswerInv
  <2>. QED BY <2>1, <2>2, <2>3, <2>4 DEF Moves
<1>. QED BY <1>1, <1>2, <1>3, <1>4, <1>5, <1>6, <1>7, <1>8, <1>9, <1>10, <1>11, <1>12 DEF Answer

LEMMA StreamMoves ==
    ASSUME IInv, NEW r \in Requests, AnswerInv(r), Stream(r)
    PROVE  Moves(r)
<1>. USE DEF IInv, TypeOK, db, route, Goto, Blame, OpenPlaces, PaidPlaces, Closed
<1>0. UserOf[r] \in Users /\ TokenOf[r] \in Tokens
  BY DispatchConstants
<1>1. CASE StreamSettles(r)
  <2>0. PICK c \in Costs :
            /\ cost' = [cost EXCEPT ![r] = c]
            /\ Reconcile(r, pre[r] - c)
            /\ IF c > pre[r] THEN Blame(r, "overrun") ELSE UNCHANGED mishap
    BY <1>1 DEF StreamSettles
  <2>1. c \in Nat /\ pre[r] \in Nat /\ pre[r] - c \in Int
    BY DispatchConstants
  <2>2. /\ quota'[UserOf[r]] = quota[UserOf[r]] + (pre[r] - c)
        /\ \A u \in Users \ {UserOf[r]} : quota'[u] = quota[u]
        /\ \A t \in Tokens \ {TokenOf[r]} : remain'[t] = remain[t]
        /\ (TokenOf[r] \notin Unlimited /\ remain[TokenOf[r]] >= 0)
               => remain'[TokenOf[r]] = remain[TokenOf[r]] + (pre[r] - c)
        /\ \A s \in Requests \ {r} : taken'[s] = taken[s]
    BY <2>0, <2>1, ReconcileEffect
  <2>3. /\ pc[r] = "streaming" /\ pc' = [pc EXCEPT ![r] = "streamLogging"]
        /\ UNCHANGED <<saved, group, tried, todo, free, pre, reply>>
    BY <1>1 DEF StreamSettles
  <2>4. Apart(r) BY <1>0, <2>0, <2>2, <2>3 DEF Apart
  <2>5. TokenMoves(r) BY <1>0, <2>0, <2>1, <2>2, <2>3 DEF TokenMoves, Held
  <2>6. BillMoves(r)
    BY <1>0, <2>0, <2>1, <2>2, <2>3 DEF BillMoves, BillOf, Gain, HeldOpen
  <2>7. AnswerInv(r)' BY <2>0, <2>3 DEF AnswerInv
  <2>. QED BY <2>4, <2>5, <2>6, <2>7 DEF Moves
<1>2. CASE StreamDrops(r)
  <2>1. Apart(r) BY <1>0, <1>2 DEF StreamDrops, Apart
  <2>2. TokenMoves(r) BY <1>0, <1>2 DEF StreamDrops, TokenMoves, Held
  <2>3. BillMoves(r) BY <1>0, <1>2 DEF StreamDrops, BillMoves, BillOf, Gain, HeldOpen
  <2>4. AnswerInv(r)' BY <1>0, <1>2 DEF StreamDrops, AnswerInv
  <2>. QED BY <2>1, <2>2, <2>3, <2>4 DEF Moves
<1>3. CASE StreamLogged(r)
  <2>0. /\ \A s \in Requests \ {r} : mishap'[s] = mishap[s]
        /\ mishap'[r] \in {mishap[r], mishap[r] \cup {"saveFail"}}
        /\ saved \subseteq saved'
        /\ KeyOf[r] = NoKey \/ KeyOf[r] \in saved' \/ "saveFail" \in mishap'[r]
    BY <1>3, SaveKeyTyped, SaveKeyEffect DEF StreamLogged
  <2>1. Apart(r) BY <1>0, <1>3, <2>0 DEF StreamLogged, Apart
  <2>2. TokenMoves(r) BY <1>0, <1>3, <2>0 DEF StreamLogged, TokenMoves, Held
  <2>3. BillMoves(r) BY <1>0, <1>3, <2>0 DEF StreamLogged, BillMoves, BillOf, Gain, HeldOpen
  <2>4. AnswerInv(r)' BY <1>0, <1>3, <2>0 DEF StreamLogged, AnswerInv
  <2>. QED BY <2>1, <2>2, <2>3, <2>4 DEF Moves
<1>4. CASE StreamRefund(r)
  <2>0. pre[r] \in Nat /\ pre[r] \in Int OBVIOUS
  <2>1. /\ quota'[UserOf[r]] = quota[UserOf[r]] + pre[r]
        /\ \A u \in Users \ {UserOf[r]} : quota'[u] = quota[u]
        /\ \A t \in Tokens \ {TokenOf[r]} : remain'[t] = remain[t]
        /\ (TokenOf[r] \notin Unlimited /\ remain[TokenOf[r]] >= 0)
               => remain'[TokenOf[r]] = remain[TokenOf[r]] + pre[r]
        /\ \A s \in Requests \ {r} : taken'[s] = taken[s]
    BY <2>0, <1>4, ReconcileEffect DEF StreamRefund
  <2>2. Apart(r) BY <1>0, <1>4, <2>1 DEF StreamRefund, Apart
  <2>3. TokenMoves(r) BY <1>0, <1>4, <2>0, <2>1 DEF StreamRefund, TokenMoves, Held
  <2>4. BillMoves(r)
    BY <1>0, <1>4, <2>0, <2>1 DEF StreamRefund, BillMoves, BillOf, Gain, HeldOpen
  <2>5. AnswerInv(r)' BY <1>0, <1>4 DEF StreamRefund, AnswerInv
  <2>. QED BY <2>2, <2>3, <2>4, <2>5 DEF Moves
<1>5. CASE StreamRefundFails(r)
  <2>1. Apart(r) BY <1>0, <1>5 DEF StreamRefundFails, Apart
  <2>2. TokenMoves(r) BY <1>0, <1>5 DEF StreamRefundFails, TokenMoves, Held
  <2>3. BillMoves(r) BY <1>0, <1>5 DEF StreamRefundFails, BillMoves, BillOf, Gain, HeldOpen
  <2>4. AnswerInv(r)' BY <1>0, <1>5 DEF StreamRefundFails, AnswerInv
  <2>. QED BY <2>1, <2>2, <2>3, <2>4 DEF Moves
<1>. QED BY <1>1, <1>2, <1>3, <1>4, <1>5 DEF Stream

LEMMA StepMoves ==
    ASSUME IInv, NEW r \in Requests, AnswerInv(r), Step(r)
    PROVE  Moves(r)
BY BeforeMoves, AttemptMoves, AnswerMoves, StreamMoves DEF Step

\* A user's quota and what a request has taken from it move together.
LEMMA TakesFromUser ==
    ASSUME TypeOK, NEW r \in Requests, Step(r)
    PROVE  quota'[UserOf[r]] + taken'[r] = quota[UserOf[r]] + taken[r]
<1>1. UserOf[r] \in Users /\ group[r] \in Groups /\ \A g \in Groups : Estimate[g] \in Int
  BY DispatchConstants DEF TypeOK
<1>2. /\ quota \in [Users -> Int] /\ taken \in [Requests -> Int]
      /\ pre[r] \in Int /\ cost[r] \in Int
  BY DispatchConstants DEF TypeOK
<1>3. ASSUME UNCHANGED <<quota, taken>>
      PROVE  quota'[UserOf[r]] + taken'[r] = quota[UserOf[r]] + taken[r]
  BY <1>3
<1>4. ASSUME NEW diff \in Int, Reconcile(r, diff)
      PROVE  quota'[UserOf[r]] + taken'[r] = quota[UserOf[r]] + taken[r]
  <2>1. quota'[UserOf[r]] = quota[UserOf[r]] + diff /\ taken'[r] = taken[r] - diff
    BY <1>1, <1>2, <1>4 DEF Reconcile
  <2>. QED BY <1>1, <1>2, <2>1
<1>5. CASE Before(r)
  BY <1>3, <1>5 DEF Before, Reject, Replay, Start, db
<1>6. CASE Attempt(r)
  <2>1. CASE PreCheckHolds(r) \/ PreCheckTokenShort(r)
    <3>1. PICK est \in Int : /\ quota' = [quota EXCEPT ![UserOf[r]] = @ - est]
                             /\ taken' = [taken EXCEPT ![r] = @ + est]
      BY <1>1, <2>1 DEF PreCheckHolds, PreCheckTokenShort
    <3>. QED BY <1>1, <1>2, <3>1
  <2>2. CASE \/ SkipChannel(r) \/ TakeChannel(r) \/ PackageLimit(r) \/ GiveUp(r)
             \/ PreCheckFree(r) \/ PreCheckUserShort(r) \/ PreCheckFails(r)
    BY <1>3, <2>2 DEF SkipChannel, TakeChannel, PackageLimit, GiveUp, PreCheckFree,
                      PreCheckUserShort, PreCheckFails, db
  <2>. QED BY <1>6, <2>1, <2>2 DEF Attempt
<1>7. CASE Answer(r)
  <2>1. CASE Settle(r)
    BY <1>2, <1>4, <2>1 DEF Settle
  <2>2. CASE Refund(r)
    BY <1>2, <1>3, <1>4, <2>2 DEF Refund, db
  <2>3. CASE \/ UpstreamFails(r) \/ Answered(r) \/ AnsweredBinary(r) \/ StreamStarts(r)
             \/ SettleFails(r) \/ Logged(r) \/ BinaryLogged(r)
             \/ Transformed(r) \/ TransformThrows(r) \/ RefundFails(r)
    BY <1>3, <2>3 DEF UpstreamFails, Answered, AnsweredBinary, StreamStarts, SettleFails,
                      Logged, BinaryLogged, Transformed, TransformThrows, RefundFails, db
  <2>. QED BY <1>7, <2>1, <2>2, <2>3 DEF Answer
<1>8. CASE Stream(r)
  <2>1. CASE StreamSettles(r)
    <3>1. PICK c \in Costs : Reconcile(r, pre[r] - c)
      BY <2>1 DEF StreamSettles
    <3>2. pre[r] - c \in Int
      BY <1>2, DispatchConstants
    <3>. QED BY <1>4, <3>1, <3>2
  <2>2. CASE StreamRefund(r)
    BY <1>2, <1>4, <2>2 DEF StreamRefund
  <2>3. CASE StreamDrops(r) \/ StreamLogged(r) \/ StreamRefundFails(r)
    BY <1>3, <2>3 DEF StreamDrops, StreamLogged, StreamRefundFails, db
  <2>. QED BY <1>8, <2>1, <2>2, <2>3 DEF Stream
<1>. QED BY <1>5, <1>6, <1>7, <1>8 DEF Step

-----------------------------------------------------------------------------
(* The accounts are invariant.                                             *)

LEMMA HeldTyped ==
    ASSUME TypeOK
    PROVE  /\ [r \in Requests |-> Held(r)] \in [Requests -> Int]
           /\ [r \in Requests |-> HeldOpen(r)] \in [Requests -> Int]
BY DEF TypeOK, Held, HeldOpen

LEMMA AccountFinite ==
    /\ \A t \in Tokens : /\ RequestsOfToken(t) \in SUBSET Requests
                         /\ IsFiniteSet(RequestsOfToken(t))
    /\ \A u \in Users : /\ RequestsOfUser(u) \in SUBSET Requests
                        /\ IsFiniteSet(RequestsOfUser(u))
BY FiniteRequests, FS_Subset DEF RequestsOfToken, RequestsOfUser

LEMMA AccountInit == Init => AccountInv
<1>. SUFFICES ASSUME Init PROVE AccountInv
  OBVIOUS
<1>1. IInv BY InitInv
<1>2. ASSUME NEW r \in Requests PROVE AnswerInv(r) /\ Held(r) = 0
  BY DEF Init, AnswerInv, Held, OpenPlaces, PaidPlaces
<1>3. ASSUME NEW t \in Tokens PROVE TokenInv(t)
  <2>1. HeldBy(RequestsOfToken(t)) = 0
    BY <1>1, <1>2, HeldTyped, AccountFinite, SumOfZeros DEF HeldBy, IInv
  <2>. QED BY <2>1, DispatchConstants DEF TokenInv, IsMetered, Init
<1>4. ASSUME NEW u \in Users PROVE UserInv(u)
  <2>1. taken \in [Requests -> Int] /\ \A r \in Requests : taken[r] = 0
    BY DEF Init
  <2>2. TakenBy(RequestsOfUser(u)) = 0
    BY <2>1, AccountFinite, SumOfZeros DEF TakenBy
  <2>. QED BY <2>2, DispatchConstants DEF UserInv, Init
<1>. QED BY <1>1, <1>2, <1>3, <1>4 DEF AccountInv

\* A step moves the total held on a token by what its request moves.
LEMMA HeldByMoves ==
    ASSUME TypeOK, TypeOK', NEW r \in Requests, Apart(r), NEW t \in Tokens
    PROVE  HeldBy(RequestsOfToken(t))' = HeldBy(RequestsOfToken(t))
               + IF TokenOf[r] = t THEN Held(r)' - Held(r) ELSE 0
<1> DEFINE R == RequestsOfToken(t)
           f == [s \in Requests |-> Held(s)]
           g == [s \in Requests |-> Held(s)']
<1>1. f \in [Requests -> Int] /\ g \in [Requests -> Int]
  BY HeldTyped DEF TypeOK, Held
<1>2. \A s \in Requests \ {r} : f[s] = g[s]
  BY DEF Apart, Held
<1>3. R \in SUBSET Requests /\ IsFiniteSet(R)
  BY AccountFinite
<1>4. /\ HeldBy(R) = SumFunctionOnSet(f, R)
      /\ HeldBy(R)' = SumFunctionOnSet(g, R)
  BY DEF HeldBy, RequestsOfToken
<1>5. (r \in R) = (TokenOf[r] = t)
  BY DEF RequestsOfToken
<1>6. f[r] = Held(r) /\ g[r] = Held(r)'
  OBVIOUS
<1>. HIDE DEF f, g, R
<1>7. SumFunctionOnSet(g, R) = SumFunctionOnSet(f, R)
                                   + IF r \in R THEN g[r] - f[r] ELSE 0
  BY <1>1, <1>2, <1>3, SumChanges
<1>. QED BY <1>4, <1>5, <1>6, <1>7 DEF R

LEMMA TokenStep ==
    ASSUME AccountInv, IInv', NEW r \in Requests, Moves(r), NEW t \in Tokens
    PROVE  TokenInv(t)'
<1>. SUFFICES ASSUME IsMetered(t) PROVE TokenInv(t)'
  BY DEF TokenInv, IsMetered
<1> DEFINE R == RequestsOfToken(t)
<1>1. /\ (\A s \in R : "overrun" \notin mishap[s]) => remain[t] >= 0
      /\ (\A s \in R : mishap[s] \subseteq {"saveFail"})
             => remain[t] = InitRemain[t] - HeldBy(R)
  BY DEF AccountInv, TokenInv
<1>2. HeldBy(R)' = HeldBy(R) + IF TokenOf[r] = t THEN Held(r)' - Held(r) ELSE 0
  BY HeldByMoves DEF AccountInv, IInv, Moves
<1>3. Apart(r) /\ TokenMoves(r)
  BY DEF Moves
<1>4. /\ HeldBy(R) \in Int /\ Held(r) \in Int /\ Held(r)' \in Int
      /\ InitRemain[t] \in Int /\ remain[t] \in Int /\ remain'[t] \in Int
  <2>1. HeldBy(R) \in Int
    BY HeldTyped, AccountFinite, SumOfAny DEF HeldBy, AccountInv, IInv
  <2>2. Held(r) \in Int /\ Held(r)' \in Int
    BY DEF AccountInv, IInv, TypeOK, Held
  <2>. QED BY <2>1, <2>2, DispatchConstants DEF AccountInv, IInv, TypeOK
<1>5. /\ R \subseteq Requests /\ (r \in R <=> TokenOf[r] = t)
      /\ RequestsOfToken(t)' = R /\ IsMetered(t)' = IsMetered(t)
  BY DEF RequestsOfToken, IsMetered
<1>. HIDE DEF R
<1>6. \A s \in R : mishap[s] \subseteq mishap'[s]
  BY <1>3, <1>5 DEF Apart
<1>7. (\A s \in R : "overrun" \notin mishap'[s]) => remain'[t] >= 0
  BY <1>1, <1>3, <1>4, <1>5, <1>6, DispatchConstants DEF Apart, TokenMoves, IsMetered
<1>8. ASSUME \A s \in R : mishap'[s] \subseteq {"saveFail"}
      PROVE  remain'[t] = InitRemain[t] - HeldBy(R)'
  <2>1. \A s \in R : mishap[s] \subseteq {"saveFail"} /\ "overrun" \notin mishap[s]
    BY <1>6, <1>8
  <2>2. remain[t] = InitRemain[t] - HeldBy(R) /\ remain[t] >= 0
    BY <1>1, <2>1
  <2>3. CASE TokenOf[r] = t
    <3>1. remain'[t] = remain[t] + Held(r) - Held(r)'
      BY <1>3, <1>5, <1>8, <2>2, <2>3 DEF TokenMoves, IsMetered
    <3>. QED BY <1>2, <1>4, <2>2, <2>3, <3>1
  <2>4. CASE TokenOf[r] # t
    <3>1. remain'[t] = remain[t]
      BY <1>3, <2>4 DEF Apart
    <3>. QED BY <1>2, <1>4, <2>2, <2>4, <3>1
  <2>. QED BY <2>3, <2>4
<1>. QED BY <1>5, <1>7, <1>8 DEF TokenInv, R

LEMMA UserStep ==
    ASSUME AccountInv, IInv', NEW r \in Requests, Step(r), Moves(r), NEW u \in Users
    PROVE  UserInv(u)'
<1> DEFINE R == RequestsOfUser(u)
<1>1. quota[u] = InitQuota[u] - TakenBy(R)
  BY DEF AccountInv, UserInv
<1>2. /\ taken \in [Requests -> Int] /\ taken' \in [Requests -> Int]
      /\ \A s \in Requests \ {r} : taken[s] = taken'[s]
  BY DEF AccountInv, IInv, TypeOK, Moves, Apart
<1>3. R \in SUBSET Requests /\ IsFiniteSet(R) /\ (r \in R <=> UserOf[r] = u)
  BY AccountFinite DEF RequestsOfUser
<1>4. TakenBy(R)' = TakenBy(R) + IF r \in R THEN taken'[r] - taken[r] ELSE 0
  <2>1. TakenBy(R)' = SumFunctionOnSet(taken', R)
    BY DEF TakenBy, RequestsOfUser
  <2>. HIDE DEF R
  <2>2. SumFunctionOnSet(taken', R) = SumFunctionOnSet(taken, R)
            + IF r \in R THEN taken'[r] - taken[r] ELSE 0
    BY <1>2, <1>3, SumChanges
  <2>. QED BY <2>1, <2>2 DEF TakenBy
<1>5. /\ TakenBy(R) \in Int /\ taken[r] \in Int /\ taken'[r] \in Int
      /\ InitQuota[u] \in Int /\ quota[u] \in Int /\ quota'[u] \in Int
  <2>1. TakenBy(R) \in Int
    BY <1>2, <1>3, SumOfAny DEF TakenBy
  <2>2. taken[r] \in Int /\ taken'[r] \in Int
    BY <1>2
  <2>. QED BY <2>1, <2>2, DispatchConstants DEF AccountInv, IInv, TypeOK
<1>6. quota'[u] = quota[u] - IF r \in R THEN taken'[r] - taken[r] ELSE 0
  <2>1. CASE UserOf[r] = u
    <3>1. quota'[u] + taken'[r] = quota[u] + taken[r]
      BY <2>1, TakesFromUser DEF AccountInv, IInv
    <3>. QED BY <1>3, <1>5, <2>1, <3>1
  <2>2. CASE UserOf[r] # u
    <3>1. quota'[u] = quota[u]
      BY <2>2 DEF Moves, Apart
    <3>. QED BY <1>3, <1>5, <2>2, <3>1
  <2>. QED BY <2>1, <2>2
<1>7. quota'[u] = InitQuota[u] - TakenBy(R)'
  <2>. HIDE DEF R
  <2>. QED BY <1>1, <1>4, <1>5, <1>6
<1>. QED BY <1>7 DEF UserInv

LEMMA AnswerApart ==
    ASSUME NEW r \in Requests, Apart(r), NEW s \in Requests \ {r}, AnswerInv(s)
    PROVE  AnswerInv(s)'
BY DEF Apart, AnswerInv

LEMMA AccountStep == AccountInv /\ [Next]_vars => AccountInv'
<1>. SUFFICES ASSUME AccountInv, [Next]_vars PROVE AccountInv'
  OBVIOUS
<1>1. IInv' BY StepInv DEF AccountInv
<1>2. CASE UNCHANGED vars
  <2>1. ASSUME NEW s \in Requests PROVE AnswerInv(s)'
    BY <1>2 DEF AccountInv, AnswerInv, vars
  <2>2. ASSUME NEW t \in Tokens PROVE TokenInv(t)'
    BY <1>2 DEF AccountInv, TokenInv, vars, HeldBy, Held, RequestsOfToken, IsMetered
  <2>3. ASSUME NEW u \in Users PROVE UserInv(u)'
    BY <1>2 DEF AccountInv, UserInv, vars, TakenBy, RequestsOfUser
  <2>. QED BY <1>1, <2>1, <2>2, <2>3 DEF AccountInv
<1>3. ASSUME NEW r \in Requests, Step(r) PROVE AccountInv'
  <2>1. Moves(r) BY <1>3, StepMoves DEF AccountInv
  <2>2. ASSUME NEW s \in Requests PROVE AnswerInv(s)'
    BY <2>1, AnswerApart DEF AccountInv, Moves
  <2>3. ASSUME NEW t \in Tokens PROVE TokenInv(t)'
    BY <1>1, <2>1, TokenStep
  <2>4. ASSUME NEW u \in Users PROVE UserInv(u)'
    BY <1>1, <1>3, <2>1, UserStep
  <2>. QED BY <1>1, <2>2, <2>3, <2>4 DEF AccountInv
<1>. QED BY <1>2, <1>3 DEF Next

LEMMA AccountInvariance == Spec => []AccountInv
BY AccountInit, AccountStep, PTL DEF Spec

\* Whatever overlaps on a metered token or a user, its remaining quota is what
\* it started with less what its requests hold or have paid, and a token falls
\* below 0 (where -1 would read as unlimited) only when an answer cost more than
\* its estimate: two requests never pass the pre-check on the same quota.
THEOREM AccountsAddUp == Spec => []AccountsHold
<1>1. AccountInv => AccountsHold
  <2>. SUFFICES ASSUME AccountInv PROVE AccountsHold
    OBVIOUS
  <2>1. TokenAccounts
    BY DEF AccountInv, TokenInv, TokenAccounts
  <2>2. OnlyOverrunsExhaust
    <3>. SUFFICES ASSUME NEW t \in Tokens, IsMetered(t),
                         \A r \in RequestsOfToken(t) : "overrun" \notin mishap[r]
                  PROVE  ~(remain[t] < 0)
      BY DEF OnlyOverrunsExhaust
    <3>1. remain[t] >= 0 BY DEF AccountInv, TokenInv
    <3>2. remain[t] \in Int BY DEF AccountInv, IInv, TypeOK
    <3>. QED BY <3>1, <3>2
  <2>3. UserAccounts
    <3>. SUFFICES ASSUME NEW u \in Users,
                         \A r \in RequestsOfUser(u) : mishap[r] \subseteq {"overrun", "saveFail"}
                  PROVE  quota[u] = InitQuota[u] - HeldBy(RequestsOfUser(u))
      BY DEF UserAccounts
    <3> DEFINE R == RequestsOfUser(u)
               f == [r \in Requests |-> Held(r)]
    <3>1. quota[u] = InitQuota[u] - SumFunctionOnSet(taken, R)
      BY DEF AccountInv, UserInv, TakenBy
    <3>2. R \in SUBSET Requests /\ IsFiniteSet(R)
      BY AccountFinite
    <3>3. f \in [Requests -> Int] /\ taken \in [Requests -> Int]
      BY HeldTyped DEF AccountInv, IInv, TypeOK
    <3>4. \A r \in R : taken[r] = f[r]
      BY <3>2 DEF AccountInv, IInv, RequestInv
    <3>5. HeldBy(R) = SumFunctionOnSet(f, R)
      BY DEF HeldBy
    <3>. HIDE DEF R, f
    <3>6. SumFunctionOnSet(taken, R) = SumFunctionOnSet(f, R)
      BY <3>2, <3>3, <3>4, SumAgrees
    <3>. QED BY <3>1, <3>5, <3>6 DEF R
  <2>. QED BY <2>1, <2>2, <2>3 DEF AccountsHold
<1>. QED BY <1>1, AccountInvariance, PTL

\* The step by which a repeated idempotency key leaves "new" after the billing of
\* the first answer was done replays it or refuses the request: it takes nothing.
\* (A client may have read a stream before its billing is done.)
THEOREM RepeatsAreReplayed == Spec => RepeatIsReplayed
<1> DEFINE Repeat(r, s) ==
        (/\ r # s /\ KeyOf[r] = KeyOf[s] /\ KeyOf[r] # NoKey
         /\ pc[r] = "served" /\ reply[r] # "binary"
         /\ "saveFail" \notin mishap[r] /\ pc[s] = "new")
            => pc'[s] \in {"new", "replayed", "failed"} /\ taken'[s] = 0
<1>1. ASSUME AccountInv, NEW q \in Requests, Step(q),
             NEW r \in Requests, NEW s \in Requests
      PROVE  Repeat(r, s)
  <2>. SUFFICES ASSUME KeyOf[r] = KeyOf[s], KeyOf[r] # NoKey, pc[r] = "served",
                       reply[r] # "binary", "saveFail" \notin mishap[r], pc[s] = "new"
                PROVE  pc'[s] \in {"new", "replayed", "failed"} /\ taken'[s] = 0
    OBVIOUS
  <2>1. taken[s] = 0 /\ KeyOf[s] \in saved
    BY <1>1 DEF AccountInv, AnswerInv
  <2>2. CASE q # s
    <3>1. Apart(q) BY <1>1, StepMoves DEF AccountInv, Moves
    <3>. QED BY <2>1, <2>2, <3>1 DEF Apart
  <2>3. CASE q = s
    <3>1. Before(s)
      BY <1>1, <2>3 DEF Step, Attempt, Answer, Stream, SkipChannel, TakeChannel,
           PackageLimit, GiveUp, PreCheckFree, PreCheckHolds, PreCheckUserShort,
           PreCheckTokenShort, PreCheckFails, UpstreamFails, Answered,
           AnsweredBinary, StreamStarts, Settle, SettleFails, Logged, BinaryLogged,
           Transformed, TransformThrows, Refund, RefundFails, StreamSettles,
           StreamDrops, StreamLogged, StreamRefund, StreamRefundFails
    <3>. QED BY <1>1, <2>1, <3>1
             DEF Before, Reject, Replay, Start, Goto, AccountInv, IInv, TypeOK
  <2>. QED BY <2>2, <2>3
<1>2. ASSUME AccountInv, UNCHANGED vars, NEW r \in Requests, NEW s \in Requests
      PROVE  Repeat(r, s)
  BY <1>2 DEF AccountInv, AnswerInv, vars
<1>3. AccountInv /\ [Next]_vars => [\A r, s \in Requests : Repeat(r, s)]_vars
  BY <1>1, <1>2 DEF Next
<1>. QED BY <1>3, AccountInvariance, PTL DEF RepeatIsReplayed, Spec

-----------------------------------------------------------------------------
(* dispatch() implements ChargeLedger.                                     *)

LEMMA BalanceInit == Init => Account!Init
<1>. SUFFICES ASSUME Init PROVE Account!Init
  OBVIOUS
<1>1. TypeOK BY InitInv DEF IInv
<1>2. ASSUME NEW r \in Requests PROVE BillOf(r) = "open" /\ HeldOpen(r) = 0
  BY DEF Init, BillOf, HeldOpen, PaidPlaces, OpenPlaces, Closed
<1>3. ASSUME NEW u \in Users
      PROVE  SumFunctionOnSet([r \in Requests |-> HeldOpen(r)], RequestsOfUser(u)) = 0
  BY <1>1, <1>2, HeldTyped, AccountFinite, SumOfZeros
<1>4. SettledBalance = InitQuota
  <2>1. SettledBalance = [u \in Users |-> quota[u] + 0]
    BY <1>3 DEF SettledBalance
  <2>2. \A u \in Users : quota[u] \in Int
    BY <1>1 DEF TypeOK
  <2>. QED BY <2>1, <2>2, DispatchConstants DEF Init
<1>. QED BY <1>2, <1>4 DEF Account!Init

\* A step moves the settled balance of its own user only, by what the request
\* gains.
LEMMA BalanceMoves ==
    ASSUME TypeOK, TypeOK', NEW r \in Requests, Apart(r)
    PROVE  /\ SettledBalance \in [Users -> Int]
           /\ SettledBalance' = [SettledBalance EXCEPT ![UserOf[r]] = @ + Gain(r)]
<1> DEFINE f == [s \in Requests |-> HeldOpen(s)]
           g == [s \in Requests |-> HeldOpen(s)']
           was(u) == quota[u] + SumFunctionOnSet(f, RequestsOfUser(u))
           now(u) == quota'[u] + SumFunctionOnSet(g, RequestsOfUser(u))
<1>1. f \in [Requests -> Int] /\ g \in [Requests -> Int]
  BY HeldTyped DEF TypeOK, HeldOpen
<1>2. \A s \in Requests \ {r} : f[s] = g[s]
  BY DEF Apart, HeldOpen
<1>3. f[r] = HeldOpen(r) /\ g[r] = HeldOpen(r)'
  OBVIOUS
<1>4. /\ SettledBalance = [u \in Users |-> was(u)]
      /\ SettledBalance' = [u \in Users |-> now(u)]
  BY DEF SettledBalance, RequestsOfUser
<1>. HIDE DEF f, g
<1>5. ASSUME NEW u \in Users
      PROVE  was(u) \in Int /\ now(u) = was(u) + IF UserOf[r] = u THEN Gain(r) ELSE 0
  <2>1. (r \in RequestsOfUser(u)) = (UserOf[r] = u)
    BY DEF RequestsOfUser
  <2>2. SumFunctionOnSet(f, RequestsOfUser(u)) \in Int
    BY <1>1, AccountFinite, SumOfAny
  <2>3. SumFunctionOnSet(g, RequestsOfUser(u))
            = SumFunctionOnSet(f, RequestsOfUser(u))
              + IF r \in RequestsOfUser(u) THEN g[r] - f[r] ELSE 0
    BY <1>1, <1>2, AccountFinite, SumChanges
  <2>4. /\ quota[u] \in Int /\ quota'[u] \in Int /\ f[r] \in Int /\ g[r] \in Int
        /\ UserOf[r] # u => quota'[u] = quota[u]
    BY <1>1 DEF TypeOK, Apart
  <2>. QED BY <1>3, <2>1, <2>2, <2>3, <2>4 DEF Gain
<1>6. UserOf[r] \in Users BY DispatchConstants
<1>. HIDE DEF was, now
<1>. QED BY <1>4, <1>5, <1>6

LEMMA StepRefines ==
    ASSUME AccountInv, IInv', NEW r \in Requests, Moves(r)
    PROVE  [Account!Next]_(Account!vars)
<1> DEFINE bill == [s \in Requests |-> BillOf(s)]
<1>1. /\ SettledBalance \in [Users -> Int]
      /\ SettledBalance' = [SettledBalance EXCEPT ![UserOf[r]] = @ + Gain(r)]
  BY BalanceMoves DEF AccountInv, IInv, Moves
<1>2. bill' = [bill EXCEPT ![r] = BillOf(r)']
  BY DEF Moves, Apart, BillOf
<1>3. UserOf[r] \in Users /\ Gain(r) \in Int
  <2>1. UserOf[r] \in Users BY DispatchConstants
  <2>2. HeldOpen(r) \in Int /\ HeldOpen(r)' \in Int
    BY DEF AccountInv, IInv, TypeOK, HeldOpen
  <2>3. quota[UserOf[r]] \in Int /\ quota'[UserOf[r]] \in Int
    BY <2>1 DEF AccountInv, IInv, TypeOK
  <2>. QED BY <2>1, <2>2, <2>3 DEF Gain
<1>4. SettledBalance' \in [Users -> Int]
  BY <1>1, <1>3
<1>5. CASE BillOf(r)' = BillOf(r) /\ Gain(r) = 0
  <2>1. SettledBalance' = [SettledBalance EXCEPT ![UserOf[r]] = @]
    <3>1. SettledBalance[UserOf[r]] + Gain(r) = SettledBalance[UserOf[r]]
      BY <1>1, <1>3, <1>5
    <3>. QED BY <1>1, <3>1
  <2>2. SettledBalance' = SettledBalance
    BY <1>1, <2>1
  <2>3. bill' = bill
    BY <1>2, <1>5
  <2>. QED BY <2>2, <2>3 DEF Account!vars
<1>6. CASE BillOf(r)' = "spoiled"
  <2>1. Account!Spoil(r)
    BY <1>1, <1>2, <1>3, <1>4, <1>6 DEF Account!Spoil
  <2>. QED BY <2>1 DEF Account!Next
<1>7. CASE BillOf(r) = "open" /\ BillOf(r)' = "free" /\ Gain(r) = 0
  <2>1. Account!Waive(r)
    BY <1>1, <1>2, <1>3, <1>7 DEF Account!Waive
  <2>. QED BY <2>1 DEF Account!Next
<1>8. CASE BillOf(r) = "open" /\ BillOf(r)' = "charged" /\ \E c \in Costs : Gain(r) = -c
  <2>1. PICK c \in Costs : Gain(r) = -c BY <1>8
  <2>2. c \in Nat BY DispatchConstants
  <2>3. SettledBalance' = [SettledBalance EXCEPT ![UserOf[r]] = @ - c]
    BY <1>1, <1>3, <2>1, <2>2
  <2>4. Account!Charge(r)
    BY <1>2, <1>8, <2>3 DEF Account!Charge
  <2>. QED BY <2>4 DEF Account!Next
<1>. QED BY <1>5, <1>6, <1>7, <1>8 DEF Moves, BillMoves

LEMMA NextRefines == AccountInv /\ [Next]_vars => [Account!Next]_(Account!vars)
<1>. SUFFICES ASSUME AccountInv, [Next]_vars PROVE [Account!Next]_(Account!vars)
  OBVIOUS
<1>1. CASE UNCHANGED vars
  BY <1>1 DEF vars, Account!vars, SettledBalance, BillOf, HeldOpen, RequestsOfUser
<1>2. ASSUME NEW r \in Requests, Step(r) PROVE [Account!Next]_(Account!vars)
  <2>1. Moves(r) BY <1>2, StepMoves DEF AccountInv
  <2>2. IInv' BY StepInv DEF AccountInv
  <2>. QED BY <2>1, <2>2, StepRefines
<1>. QED BY <1>1, <1>2 DEF Next

\* dispatch() implements the promise of ChargeLedger: once the amounts held by
\* open requests are given back, every request is charged its cost to its own
\* user exactly once or not at all, and only a request one of whose ledger
\* transactions fails or half commits, or that throws after its settlement,
\* may do anything else, to its own user alone.
THEOREM DispatchRefinesLedger == Spec => ImplementsChargeLedger
<1>. QED BY BalanceInit, NextRefines, AccountInvariance, PTL
         DEF Spec, ImplementsChargeLedger, Account!Spec

-----------------------------------------------------------------------------
(* The channel loop runs down.                                             *)

\* A sum of naturals is one.
LEMMA SumOfNaturals ==
    ASSUME NEW D, NEW f \in [D -> Nat], NEW S \in SUBSET D, IsFiniteSet(S)
    PROVE  SumFunctionOnSet(f, S) \in Nat
<1> DEFINE Good(s) == SumFunctionOnSet(f, s) \in Nat
           G == {s \in SUBSET S : Good(s)}
<1>1. Good({})
  BY SumOfNone
<1>2. ASSUME NEW s \in SUBSET S, NEW x \in s, Good(s \ {x}) PROVE Good(s)
  <2>1. IsFiniteSet(s) /\ f \in [D -> Int] BY FS_Subset
  <2>2. SumFunctionOnSet(f, s) = f[x] + SumFunctionOnSet(f, s \ {x})
    BY <2>1, SumOfAny
  <2>3. f[x] \in Nat OBVIOUS
  <2>. QED BY <1>2, <2>2, <2>3
<1>. HIDE DEF Good
<1>3. ASSUME NEW s \in SUBSET S, \A t \in SUBSET s : t # s => t \in G
      PROVE  s \in G
  <2>1. ASSUME NEW x \in s PROVE Good(s \ {x})
    BY <1>3
  <2>. QED BY <1>1, <1>2, <2>1
<1>. HIDE DEF G
<1>4. S \in G BY <1>3, SubsetInduction
<1>. QED BY <1>4 DEF G, Good

\* A new request has tried no group.
Fresh(r) == pc[r] = "new" => tried[r] = {} /\ todo[r] = 0

LoopInv == IInv /\ \A r \in Requests : Fresh(r)

LEMMA ChannelsFinite ==
    ASSUME NEW r \in Requests, NEW seen
    PROVE  /\ GroupsOf(r) \ seen \in SUBSET Groups
           /\ IsFiniteSet(GroupsOf(r) \ seen)
           /\ SumFunctionOnSet(Routes, GroupsOf(r) \ seen) \in Nat
<1> DEFINE Listed == {AutoGroups[i] : i \in DOMAIN AutoGroups}
           rest == GroupsOf(r) \ seen
<1>1. DOMAIN AutoGroups = 1..Len(AutoGroups) /\ Len(AutoGroups) \in Nat
      /\ \A i \in DOMAIN AutoGroups : AutoGroups[i] \in Groups
  BY DispatchConstants
<1>2. IsFiniteSet(DOMAIN AutoGroups)
  BY <1>1, FS_Interval
<1>3. IsFiniteSet(Listed)
  <2>1. AutoGroups \in [DOMAIN AutoGroups -> Listed]
    BY <1>1, DispatchConstants
  <2>2. AutoGroups \in Surjection(DOMAIN AutoGroups, Listed)
    BY <2>1 DEF Surjection
  <2>. QED BY <1>2, <2>2, FS_Surjection
<1>4. IsFiniteSet({HomeGroup[r]}) /\ HomeGroup[r] \in Groups
  BY FS_Singleton, DispatchConstants
<1>5. IsFiniteSet({HomeGroup[r]} \cup Listed)
  BY <1>3, <1>4, FS_Union
<1>6. rest \subseteq {HomeGroup[r]} \cup Listed
  BY DEF GroupsOf
<1>7. {HomeGroup[r]} \cup Listed \subseteq Groups
  BY <1>1, <1>4
<1>. HIDE DEF Listed, rest
<1>8. rest \in SUBSET Groups /\ IsFiniteSet(rest)
  BY <1>5, <1>6, <1>7, FS_Subset
<1>9. SumFunctionOnSet(Routes, rest) \in Nat
  BY <1>8, SumOfNaturals, DispatchConstants
<1>. QED BY <1>8, <1>9 DEF rest

LEMMA ChannelsLeftTyped ==
    ASSUME NEW r \in Requests
    PROVE  /\ TypeOK => ChannelsLeft(r) \in Nat
           /\ TypeOK' => ChannelsLeft(r)' \in Nat
<1>1. /\ SumFunctionOnSet(Routes, UntriedGroups(r)) \in Nat
      /\ SumFunctionOnSet(Routes, UntriedGroups(r)') \in Nat
  BY ChannelsFinite DEF UntriedGroups
<1>2. /\ TypeOK => todo[r] \in Nat
      /\ TypeOK' => todo'[r] \in Nat
  BY DEF TypeOK
<1>. QED BY <1>1, <1>2 DEF ChannelsLeft

\* Entering a group that was not tried moves its channels, or what a filter left
\* of them, from one of the two terms to the other.
LEMMA GroupEntered ==
    ASSUME TypeOK, TypeOK', NEW r \in Requests, NEW g \in UntriedGroups(r),
           NEW n \in 0..Routes[g],
           tried'[r] = tried[r] \cup {g}, todo'[r] = todo[r] + n
    PROVE  ChannelsLeft(r)' <= ChannelsLeft(r)
<1> DEFINE U == UntriedGroups(r)
<1>1. U \in SUBSET Groups /\ IsFiniteSet(U)
  BY ChannelsFinite DEF UntriedGroups
<1>2. UntriedGroups(r)' = U \ {g}
  BY DEF UntriedGroups
<1>3. Routes \in [Groups -> Int] /\ Routes[g] \in Nat
  BY <1>1, DispatchConstants
<1>4. SumFunctionOnSet(Routes, U) = Routes[g] + SumFunctionOnSet(Routes, U \ {g})
  BY <1>1, <1>3, SumOfAny
<1>5. SumFunctionOnSet(Routes, U \ {g}) \in Int
  <2>1. IsFiniteSet(U \ {g}) /\ U \ {g} \in SUBSET Groups
    BY <1>1, FS_RemoveElement
  <2>. QED BY <1>3, <2>1, SumOfAny
<1>6. todo[r] \in Nat
  BY DEF TypeOK
<1>7. ChannelsLeft(r)' = todo'[r] + SumFunctionOnSet(Routes, U \ {g})
  BY <1>2 DEF ChannelsLeft
<1>. QED BY <1>3, <1>4, <1>5, <1>6, <1>7 DEF ChannelsLeft

LEMMA RouteKept ==
    ASSUME NEW r, tried'[r] = tried[r], todo'[r] = todo[r]
    PROVE  ChannelsLeft(r)' = ChannelsLeft(r)
BY DEF ChannelsLeft, UntriedGroups

\* WidenRoute moves channels, it creates none.
LEMMA RouteWidened ==
    ASSUME TypeOK, TypeOK', NEW r \in Requests, WidenRoute(r)
    PROVE  ChannelsLeft(r)' <= ChannelsLeft(r)
<1>0. ChannelsLeft(r) \in Nat
  BY ChannelsLeftTyped
<1>1. CASE UNCHANGED route
  BY <1>0, <1>1, RouteKept DEF route
<1>2. ASSUME NEW g \in Groups, NextRetryGroup(r, g),
             tried' = [tried EXCEPT ![r] = @ \cup {g}],
             todo' = [todo EXCEPT ![r] = @ + Routes[g]]
      PROVE  ChannelsLeft(r)' <= ChannelsLeft(r)
  <2>0. Routes[g] \in 0..Routes[g]
    BY DispatchConstants
  <2>1. g \in UntriedGroups(r)
    BY <1>2 DEF NextRetryGroup, IsFresh, UntriedGroups, GroupsOf
  <2>2. tried'[r] = tried[r] \cup {g} /\ todo'[r] = todo[r] + Routes[g]
    BY <1>2 DEF TypeOK
  <2>. QED BY <2>0, <2>1, <2>2, GroupEntered
<1>. QED BY <1>1, <1>2 DEF WidenRoute

\* What a step of r does to its route and its place.
Advances(r) ==
    \/ /\ ChannelsLeft(r)' <= ChannelsLeft(r)
       /\ PlacesLeft[pc'[r]] < PlacesLeft[pc[r]]
    \/ /\ ChannelsLeft(r)' = ChannelsLeft(r) - 1
       /\ pc[r] = "choosing"
       /\ pc'[r] \in {"choosing", "checking"}
Elsewhere(r) ==
    \A s \in Requests \ {r} :
        pc'[s] = pc[s] /\ tried'[s] = tried[s] /\ todo'[s] = todo[s]

LEMMA BeforeAdvances ==
    ASSUME LoopInv, TypeOK', NEW r \in Requests, Before(r)
    PROVE  Advances(r) /\ Elsewhere(r) /\ pc'[r] # "new"
<1>. USE DEF LoopInv, IInv, TypeOK, db, route, Goto
<1>1. CASE Reject(r) \/ Replay(r)
  <2>1. tried' = tried /\ todo' = todo /\ pc[r] = "new"
        /\ pc'[r] \in {"failed", "replayed"} /\ \A s \in Requests \ {r} : pc'[s] = pc[s]
    BY <1>1 DEF Reject, Replay
  <2>2. ChannelsLeft(r)' <= ChannelsLeft(r)
    BY <2>1, RouteKept, ChannelsLeftTyped
  <2>. QED BY <2>1, <2>2 DEF Advances, Elsewhere, PlacesLeft
<1>2. CASE Start(r)
  <2>1. PICK g \in Groups \cap GroupsOf(r) : \E n \in 0..Routes[g] :
            Enter(r, g, n)
    BY <1>2, StartEnters
  <2>0. PICK n \in 0..Routes[g] :
            /\ tried' = [tried EXCEPT ![r] = {g}]
            /\ todo' = [todo EXCEPT ![r] = n]
            /\ pc' = [pc EXCEPT ![r] = IF n = 0 THEN "failed" ELSE "choosing"]
    BY <2>1 DEF Enter
  <2>2. pc[r] = "new" /\ tried[r] = {} /\ todo[r] = 0
    BY <1>2 DEF Start, Fresh
  <2>3. g \in UntriedGroups(r)
    BY <2>2 DEF UntriedGroups
  <2>5. tried'[r] = tried[r] \cup {g} /\ todo'[r] = todo[r] + n
    BY <2>0, <2>2
  <2>6. ChannelsLeft(r)' <= ChannelsLeft(r)
    BY <2>3, <2>5, GroupEntered
  <2>7. pc'[r] \in {"failed", "choosing"} /\ PlacesLeft[pc'[r]] < PlacesLeft[pc[r]]
    BY <2>0, <2>2 DEF PlacesLeft
  <2>. QED BY <2>0, <2>6, <2>7 DEF Advances, Elsewhere
<1>. QED BY <1>1, <1>2 DEF Before

\* The steps that neither visit nor append a channel.
LEMMA PlaceAdvances ==
    ASSUME TypeOK, NEW r \in Requests, UNCHANGED <<tried, todo>>, NEW there,
           pc' = [pc EXCEPT ![r] = there], there # "new",
           PlacesLeft[there] < PlacesLeft[pc[r]]
    PROVE  Advances(r) /\ Elsewhere(r) /\ pc'[r] # "new"
<1>1. pc'[r] = there /\ \A s \in Requests \ {r} : pc'[s] = pc[s]
  BY DEF TypeOK
<1>2. ChannelsLeft(r)' <= ChannelsLeft(r)
  BY RouteKept, ChannelsLeftTyped
<1>. QED BY <1>1, <1>2 DEF Advances, Elsewhere

LEMMA AttemptAdvances ==
    ASSUME LoopInv, TypeOK', NEW r \in Requests, Attempt(r)
    PROVE  Advances(r) /\ Elsewhere(r) /\ pc'[r] # "new"
<1>. USE DEF LoopInv, IInv, route, Goto
<1>0. TypeOK OBVIOUS
<1>1. CASE SkipChannel(r) \/ TakeChannel(r)
  <2>1. /\ pc[r] = "choosing" /\ pc'[r] \in {"choosing", "checking"}
        /\ tried' = tried /\ todo'[r] = todo[r] - 1
        /\ \A s \in Requests \ {r} : pc'[s] = pc[s] /\ todo'[s] = todo[s]
    BY <1>1 DEF SkipChannel, TakeChannel, TypeOK
  <2>2. SumFunctionOnSet(Routes, UntriedGroups(r)) \in Nat
    BY ChannelsFinite DEF UntriedGroups
  <2>3. UntriedGroups(r)' = UntriedGroups(r) /\ todo[r] \in Nat
    BY <2>1 DEF UntriedGroups, TypeOK
  <2>4. ChannelsLeft(r)' = ChannelsLeft(r) - 1
    BY <2>1, <2>2, <2>3 DEF ChannelsLeft
  <2>. QED BY <2>1, <2>4 DEF Advances, Elsewhere
<1>2. CASE PackageLimit(r) \/ GiveUp(r)
  <2>1. /\ pc[r] = "choosing" /\ pc' = [pc EXCEPT ![r] = "failed"]
        /\ UNCHANGED <<tried, todo>>
    BY <1>2 DEF PackageLimit, GiveUp
  <2>2. PlacesLeft["failed"] < PlacesLeft["choosing"]
    BY DEF PlacesLeft
  <2>. QED BY <1>0, <2>1, <2>2, PlaceAdvances
<1>3. CASE PreCheckFree(r) \/ PreCheckHolds(r)
  <2>1. /\ pc[r] = "checking" /\ pc' = [pc EXCEPT ![r] = "fetching"]
        /\ UNCHANGED <<tried, todo>>
    BY <1>3 DEF PreCheckFree, PreCheckHolds
  <2>2. PlacesLeft["fetching"] < PlacesLeft["checking"]
    BY DEF PlacesLeft
  <2>. QED BY <1>0, <2>1, <2>2, PlaceAdvances
<1>4. CASE PreCheckUserShort(r) \/ PreCheckTokenShort(r) \/ PreCheckFails(r)
  <2>1. /\ pc[r] = "checking" /\ pc' = [pc EXCEPT ![r] = "caught"]
        /\ UNCHANGED <<tried, todo>>
    BY <1>4 DEF PreCheckUserShort, PreCheckTokenShort, PreCheckFails
  <2>2. PlacesLeft["caught"] < PlacesLeft["checking"]
    BY DEF PlacesLeft
  <2>. QED BY <1>0, <2>1, <2>2, PlaceAdvances
<1>. QED BY <1>1, <1>2, <1>3, <1>4 DEF Attempt

LEMMA AnswerAdvances ==
    ASSUME LoopInv, TypeOK', NEW r \in Requests, Answer(r)
    PROVE  Advances(r) /\ Elsewhere(r) /\ pc'[r] # "new"
<1>. USE DEF LoopInv, IInv, route, Goto
<1>0. TypeOK OBVIOUS
<1>1. CASE UpstreamFails(r)
  <2>1. /\ pc[r] = "fetching" /\ pc' = [pc EXCEPT ![r] = "caught"]
        /\ UNCHANGED <<tried, todo>>
    BY <1>1 DEF UpstreamFails
  <2>2. PlacesLeft["caught"] < PlacesLeft["fetching"]
    BY DEF PlacesLeft
  <2>. QED BY <1>0, <2>1, <2>2, PlaceAdvances
<1>2. CASE Answered(r) \/ AnsweredBinary(r)
  <2>1. /\ pc[r] = "fetching" /\ pc' = [pc EXCEPT ![r] = "settling"]
        /\ UNCHANGED <<tried, todo>>
    BY <1>2 DEF Answered, AnsweredBinary
  <2>2. PlacesLeft["settling"] < PlacesLeft["fetching"]
    BY DEF PlacesLeft
  <2>. QED BY <1>0, <2>1, <2>2, PlaceAdvances
<1>3. CASE StreamStarts(r)
  <2>1. /\ pc[r] = "fetching" /\ pc' = [pc EXCEPT ![r] = "streaming"]
        /\ UNCHANGED <<tried, todo>>
    BY <1>3 DEF StreamStarts
  <2>2. PlacesLeft["streaming"] < PlacesLeft["fetching"]
    BY DEF PlacesLeft
  <2>. QED BY <1>0, <2>1, <2>2, PlaceAdvances
<1>4. CASE Settle(r)
  <2>1. /\ pc[r] = "settling" /\ pc' = [pc EXCEPT ![r] = "logging"]
        /\ UNCHANGED <<tried, todo>>
    BY <1>4 DEF Settle
  <2>2. PlacesLeft["logging"] < PlacesLeft["settling"]
    BY DEF PlacesLeft
  <2>. QED BY <1>0, <2>1, <2>2, PlaceAdvances
<1>5. CASE SettleFails(r)
  <2>1. /\ pc[r] = "settling" /\ pc' = [pc EXCEPT ![r] = "caught"]
        /\ UNCHANGED <<tried, todo>>
    BY <1>5 DEF SettleFails
  <2>2. PlacesLeft["caught"] < PlacesLeft["settling"]
    BY DEF PlacesLeft
  <2>. QED BY <1>0, <2>1, <2>2, PlaceAdvances
<1>6. CASE Logged(r)
  <2>1. /\ pc[r] = "logging" /\ pc' = [pc EXCEPT ![r] = "transforming"]
        /\ UNCHANGED <<tried, todo>>
    BY <1>6 DEF Logged
  <2>2. PlacesLeft["transforming"] < PlacesLeft["logging"]
    BY DEF PlacesLeft
  <2>. QED BY <1>0, <2>1, <2>2, PlaceAdvances
<1>7. CASE BinaryLogged(r)
  <2>1. /\ pc[r] = "logging" /\ pc' = [pc EXCEPT ![r] = "served"]
        /\ UNCHANGED <<tried, todo>>
    BY <1>7 DEF BinaryLogged
  <2>2. PlacesLeft["served"] < PlacesLeft["logging"]
    BY DEF PlacesLeft
  <2>. QED BY <1>0, <2>1, <2>2, PlaceAdvances
<1>8. CASE Transformed(r)
  <2>1. /\ pc[r] = "transforming" /\ pc' = [pc EXCEPT ![r] = "served"]
        /\ UNCHANGED <<tried, todo>>
    BY <1>8 DEF Transformed
  <2>2. PlacesLeft["served"] < PlacesLeft["transforming"]
    BY DEF PlacesLeft
  <2>. QED BY <1>0, <2>1, <2>2, PlaceAdvances
<1>9. CASE TransformThrows(r)
  <2>1. /\ pc[r] = "transforming" /\ pc' = [pc EXCEPT ![r] = "caught"]
        /\ UNCHANGED <<tried, todo>>
    BY <1>9 DEF TransformThrows
  <2>2. PlacesLeft["caught"] < PlacesLeft["transforming"]
    BY DEF PlacesLeft
  <2>. QED BY <1>0, <2>1, <2>2, PlaceAdvances
<1>10. CASE Refund(r) \/ RefundFails(r)
  <2>1. /\ pc[r] = "caught" /\ pc' = [pc EXCEPT ![r] = "choosing"]
        /\ WidenRoute(r)
    BY <1>10 DEF Refund, RefundFails
  <2>2. PlacesLeft["choosing"] < PlacesLeft["caught"]
    BY DEF PlacesLeft
  <2>3. pc'[r] = "choosing" /\ \A s \in Requests \ {r} : pc'[s] = pc[s]
    BY <2>1 DEF TypeOK
  <2>4. \A s \in Requests \ {r} : tried'[s] = tried[s] /\ todo'[s] = todo[s]
    BY <2>1 DEF WidenRoute, TypeOK
  <2>5. ChannelsLeft(r)' <= ChannelsLeft(r)
    BY <1>0, <2>1, RouteWidened
  <2>. QED BY <2>1, <2>2, <2>3, <2>4, <2>5 DEF Advances, Elsewhere
<1>. QED
  BY <1>1, <1>2, <1>3, <1>4, <1>5, <1>6, <1>7, <1>8, <1>9, <1>10 DEF Answer

LEMMA StreamAdvances ==
    ASSUME LoopInv, TypeOK', NEW r \in Requests, Stream(r)
    PROVE  Advances(r) /\ Elsewhere(r) /\ pc'[r] # "new"
<1>. USE DEF LoopInv, IInv, route, Goto
<1>0. TypeOK OBVIOUS
<1>1. CASE StreamSettles(r)
  <2>1. /\ pc[r] = "streaming" /\ pc' = [pc EXCEPT ![r] = "streamLogging"]
        /\ UNCHANGED <<tried, todo>>
    BY <1>1 DEF StreamSettles
  <2>2. PlacesLeft["streamLogging"] < PlacesLeft["streaming"]
    BY DEF PlacesLeft
  <2>. QED BY <1>0, <2>1, <2>2, PlaceAdvances
<1>2. CASE StreamDrops(r)
  <2>1. /\ pc[r] = "streaming" /\ pc' = [pc EXCEPT ![r] = "dropped"]
        /\ UNCHANGED <<tried, todo>>
    BY <1>2 DEF StreamDrops
  <2>2. PlacesLeft["dropped"] < PlacesLeft["streaming"]
    BY DEF PlacesLeft
  <2>. QED BY <1>0, <2>1, <2>2, PlaceAdvances
<1>3. CASE StreamLogged(r)
  <2>1. /\ pc[r] = "streamLogging" /\ pc' = [pc EXCEPT ![r] = "served"]
        /\ UNCHANGED <<tried, todo>>
    BY <1>3 DEF StreamLogged
  <2>2. PlacesLeft["served"] < PlacesLeft["streamLogging"]
    BY DEF PlacesLeft
  <2>. QED BY <1>0, <2>1, <2>2, PlaceAdvances
<1>4. CASE StreamRefund(r) \/ StreamRefundFails(r)
  <2>1. /\ pc[r] = "dropped" /\ pc' = [pc EXCEPT ![r] = "aborted"]
        /\ UNCHANGED <<tried, todo>>
    BY <1>4 DEF StreamRefund, StreamRefundFails
  <2>2. PlacesLeft["aborted"] < PlacesLeft["dropped"]
    BY DEF PlacesLeft
  <2>. QED BY <1>0, <2>1, <2>2, PlaceAdvances
<1>. QED BY <1>1, <1>2, <1>3, <1>4 DEF Stream

LEMMA StepAdvances ==
    ASSUME LoopInv, TypeOK', NEW r \in Requests, Step(r)
    PROVE  Advances(r) /\ Elsewhere(r) /\ pc'[r] # "new"
BY BeforeAdvances, AttemptAdvances, AnswerAdvances, StreamAdvances DEF Step

LEMMA LoopInit == Init => LoopInv
BY InitInv DEF LoopInv, Fresh, Init

LEMMA LoopStep == LoopInv /\ [Next]_vars => LoopInv'
<1>. SUFFICES ASSUME LoopInv, [Next]_vars PROVE LoopInv'
  OBVIOUS
<1>1. IInv' BY StepInv DEF LoopInv
<1>2. CASE UNCHANGED vars
  BY <1>1, <1>2 DEF LoopInv, Fresh, vars
<1>3. ASSUME NEW r \in Requests, Step(r) PROVE LoopInv'
  <2>1. Elsewhere(r) /\ pc'[r] # "new"
    BY <1>1, <1>3, StepAdvances DEF IInv
  <2>2. ASSUME NEW s \in Requests PROVE Fresh(s)'
    BY <2>1 DEF LoopInv, Fresh, Elsewhere
  <2>. QED BY <1>1, <2>2 DEF LoopInv
<1>. QED BY <1>2, <1>3 DEF Next

\* Neighbouring places are less than seven steps apart.
LEMMA AdvanceCounts ==
    ASSUME TypeOK, TypeOK', NEW r \in Requests, Advances(r)
    PROVE  StepsLeft(r)' \in 0..(StepsLeft(r) - 1)
<1> DEFINE c == ChannelsLeft(r)
           d == ChannelsLeft(r)'
           p == PlacesLeft[pc[r]]
           q == PlacesLeft[pc'[r]]
<1>1. c \in Nat /\ d \in Nat
  BY ChannelsLeftTyped
<1>2. p \in Nat /\ q \in Nat
  BY DEF TypeOK, PlacesLeft, Places, Closed
<1>3. (d <= c /\ q < p) \/ (d = c - 1 /\ p = 1 /\ q <= 7)
  BY DEF Advances, PlacesLeft
<1>4. StepsLeft(r) = 7 * c + p /\ StepsLeft(r)' = 7 * d + q
  BY DEF StepsLeft
<1>. HIDE DEF c, d, p, q
<1>5. 7 * d + q \in Nat /\ 7 * c + p \in Nat /\ 7 * d + q < 7 * c + p
  BY <1>1, <1>2, <1>3
<1>. QED BY <1>4, <1>5

\* Every request ends, but for waiting: whatever the routing table, the groups
\* and the faults, a step of a request lowers a natural number that nothing
\* else raises, so dispatch() visits each channel of each group at most once
\* although its catch block appends to the list it iterates over.
THEOREM LoopsRunDown == Spec => ChannelsRunOut
<1>1. ASSUME LoopInv, LoopInv', NEW r \in Requests, Step(r)
      PROVE  /\ StepsLeft(r)' \in 0..(StepsLeft(r) - 1)
             /\ \A s \in Requests \ {r} : StepsLeft(s)' = StepsLeft(s)
  <2>1. Advances(r) /\ Elsewhere(r) /\ TypeOK /\ TypeOK'
    BY <1>1, StepAdvances DEF LoopInv, IInv
  <2>2. StepsLeft(r)' \in 0..(StepsLeft(r) - 1)
    BY <2>1, AdvanceCounts
  <2>3. ASSUME NEW s \in Requests \ {r} PROVE StepsLeft(s)' = StepsLeft(s)
    <3>1. ChannelsLeft(s)' = ChannelsLeft(s)
      BY <2>1, RouteKept DEF Elsewhere
    <3>. QED BY <2>1, <3>1 DEF Elsewhere, StepsLeft
  <2>. QED BY <2>2, <2>3
<1>2. LoopInv /\ LoopInv' /\ [Next]_vars =>
          [\E r \in Requests :
              /\ StepsLeft(r)' \in 0..(StepsLeft(r) - 1)
              /\ \A s \in Requests \ {r} : StepsLeft(s)' = StepsLeft(s)]_vars
  BY <1>1 DEF Next
<1>. QED BY <1>2, LoopInit, LoopStep, PTL DEF Spec, ChannelsRunOut
=============================================================================
