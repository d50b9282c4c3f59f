---------------------------- MODULE VestingProofs ---------------------------
(***************************************************************************)
(* That shares, delegations, withdrawals and the running tallies of the    *)
(* votes of Vesting are always sound, and that a share keeps its value,    *)
(* for any number of accounts and witnesses, any depth of the proxies, any *)
(* amounts and any number of blocks.                                       *)
(***************************************************************************)
EXTENDS Vesting, FiniteSetTheorems, NaturalsInduction, WellFoundedInduction, TLAPS

(* What the accounts hold that are i proxies away from x. *)
Below(prox, v, x, i) == SumFunctionOnSet(v, {b \in Account : Hops(prox, b)[i] = x})

(* The accounts that vote for w themselves. *)
Voters(prox, cast, w) == {x \in Account : prox[x] = NoProxy /\ <<x, w>> \in cast}

(* The tallies t are those of the stakes v, the proxies and the votes cast. *)
Tallied(prox, v, cast, t) ==
  /\ \A x \in Account, k \in 0..(Depth - 1) : t.proxied[x][k] = Below(prox, v, x, k + 1)
  /\ \A w \in Witness :
       t.votes[w] = SumFunctionOnSet([x \in Account |-> witness_vote_weight(v, t, x)], Voters(prox, cast, w))

Acyclic(prox) == ~\E S \in SUBSET Account : S # {} /\ \A a \in S : prox[a] \in S

(* An account with a proxy has no votes of its own. *)
ProxiesSilent(prox, cast) == \A a \in Account, w \in Witness : <<a, w>> \in cast => prox[a] = NoProxy

(* What an account without its rights has, and what the null account never has. *)
Rights ==
  /\ \A a \in Account : /\ voted_for[a] = Cardinality({v \in votes : v[1] = a})
                        /\ ~can_vote[a] => voted_for[a] = 0 /\ proxy[a] = NoProxy
  /\ proxy[NullAccount] = NoProxy /\ \A w \in Witness : <<NullAccount, w>> \notin votes
  /\ IsFiniteSet(declines) /\ \A r \in declines : r[2] # NullAccount

VotesInv ==
  /\ Tallied(proxy, vesting, votes, tally) /\ Acyclic(proxy) /\ ProxiesSilent(proxy, votes) /\ Rights

(* Withdrawals run in whole instalments. *)
InInstalments == \A a \in Account : power_down[a].rate # 0 => power_down[a].withdrawn % power_down[a].rate = 0

(* An account's routes lead to different accounts and share out 100 % at most. *)
RoutesInv ==
  /\ IsFiniteSet(routes)
  /\ \A r, s \in routes : r.from = s.from /\ r.to = s.to => r = s
  /\ \A a \in Account : /\ SumFunction([r \in RoutesOf(routes, a) |-> r.percent]) <= Full
                        /\ withdraw_routes[a] = Cardinality(RoutesOf(routes, a))

SharesInv ==
  /\ SharesConserved /\ (shares > 0 => fund > 0) /\ DelegationsBacked /\ DelegationsCounted
  /\ WithdrawalsExact /\ InInstalments /\ RoutesInv
  /\ delegated[NullAccount] = 0 /\ power_down[NullAccount].rate = 0

(* The inductive invariant. *)
IInv == use \in Uses /\ TypeOK /\ SharesInv /\ VotesInv

-----------------------------------------------------------------------------
(* Sums over finite sets *)

(* A set with 0 and the successor of each of its elements has every natural number. *)
LEMMA Counting ==
  ASSUME NEW Q, 0 \in Q, \A n \in Nat : n \in Q => n + 1 \in Q
  PROVE  \A n \in Nat : n \in Q
<1> SUFFICES ASSUME NEW k \in Nat, k \notin Q PROVE FALSE
  OBVIOUS
<1> DEFINE B == {n \in Nat : n \notin Q}
<1>1. \E x \in B : \A y \in B : ~(<<y, x>> \in OpToRel(<, Nat))
  BY NatLessThanWellFounded, WFMin
<1>2. PICK x \in B : \A y \in B : ~(<<y, x>> \in OpToRel(<, Nat))
  BY <1>1
<1>3. x \in Nat /\ x \notin Q
  BY <1>2
<1>4. x # 0
  BY <1>3
<1>5. x - 1 \in Nat /\ x - 1 < x /\ x = (x - 1) + 1
  BY <1>3, <1>4
<1>6. x - 1 \in Q
  BY <1>2, <1>5 DEF OpToRel
<1>7. QED  BY <1>3, <1>5, <1>6

(* What holds of a set when it holds of all sets with one element less holds *)
(* of every finite set.                                                      *)
LEMMA Growing ==
  ASSUME NEW S, IsFiniteSet(S), NEW Q,
         \A T \in SUBSET S : (\A x \in T : T \ {x} \in Q) => T \in Q
  PROVE  \A T \in SUBSET S : T \in Q
<1> DEFINE N == {n \in Nat : \A T \in SUBSET S : Cardinality(T) = n => T \in Q}
<1>1. 0 \in N
  <2> SUFFICES ASSUME NEW T \in SUBSET S, Cardinality(T) = 0 PROVE T \in Q
    OBVIOUS
  <2>1. T = {}
    BY FS_Subset, FS_EmptySet
  <2>2. QED  BY <2>1
<1>2. ASSUME NEW n \in Nat, n \in N PROVE n + 1 \in N
  <2> SUFFICES ASSUME NEW T \in SUBSET S, Cardinality(T) = n + 1 PROVE T \in Q
    OBVIOUS
  <2>1. ASSUME NEW x \in T PROVE T \ {x} \in Q
    <3>1. IsFiniteSet(T)
      BY FS_Subset
    <3>2. Cardinality(T \ {x}) = (n + 1) - 1
      BY <3>1, FS_RemoveElement
    <3>3. Cardinality(T \ {x}) = n
      BY <3>2
    <3>4. QED  BY <1>2, <3>3
  <2>2. QED  BY <2>1
<1> HIDE DEF N
<1>3. \A n \in Nat : n \in N
  BY <1>1, <1>2, Counting
<1>4. QED  BY <1>3, FS_Subset, FS_CardinalityType DEF N

-----------------------------------------------------------------------------
(* The element the library's fold takes next, and the recursion it solves. *)
Some(T) == CHOOSE x \in T : TRUE
IsSum(f, S, g) == g = [T \in SUBSET S |-> IF T = {} THEN 0 ELSE f[Some(T)] + g[T \ {Some(T)}]]

(* What the library defines is such a recursion. *)
LEMMA SumDef ==
  ASSUME NEW f, NEW S
  PROVE SumFunctionOnSet(f, S) = (CHOOSE g : IsSum(f, S, g))[S]
BY DEF SumFunctionOnSet, FoldFunctionOnSet, MapThenFoldSet, IsSum, Some

(* The recursion for the sums of all subsets has a solution. *)
LEMMA SumExists ==
  ASSUME NEW f, NEW S, IsFiniteSet(S)
  PROVE  \E g : IsSum(f, S, g)
<1> DEFINE Up(n) == {T \in SUBSET S : Cardinality(T) <= n}
           Val(g, T) == IF T = {} THEN 0 ELSE f[Some(T)] + g[T \ {Some(T)}]
           N == {n \in Nat : \E g : g = [T \in Up(n) |-> Val(g, T)]}
<1>0. \A T \in SUBSET S : Cardinality(T) \in Nat /\ (T # {} => Some(T) \in T /\ Cardinality(T \ {Some(T)}) = Cardinality(T) - 1)
  <2> SUFFICES ASSUME NEW T \in SUBSET S
               PROVE  Cardinality(T) \in Nat /\ (T # {} => Some(T) \in T /\ Cardinality(T \ {Some(T)}) = Cardinality(T) - 1)
    OBVIOUS
  <2>1. IsFiniteSet(T)  BY FS_Subset
  <2>2. T # {} => Some(T) \in T  BY DEF Some
  <2>3. QED  BY <2>1, <2>2, FS_CardinalityType, FS_RemoveElement
<1>1. 0 \in N
  <2>1. \A T \in Up(0) : T = {}
    <3>1. ASSUME NEW T \in Up(0) PROVE T = {}
      <4>1. IsFiniteSet(T) /\ Cardinality(T) \in Nat /\ Cardinality(T) <= 0
        BY <1>0, FS_Subset
      <4>2. QED  BY <4>1, FS_EmptySet
    <3>2. QED  BY <3>1
  <2>2. PICK g : g = [T \in Up(0) |-> 0]
    OBVIOUS
  <2>3. g = [T \in Up(0) |-> Val(g, T)]
    BY <2>1, <2>2
  <2>4. QED  BY <2>3
<1>2. ASSUME NEW n \in Nat, n \in N PROVE n + 1 \in N
  <2>1. PICK g : g = [T \in Up(n) |-> Val(g, T)]
    BY <1>2
  <2>2. PICK h : h = [T \in Up(n + 1) |-> IF Cardinality(T) <= n THEN g[T] ELSE f[Some(T)] + g[T \ {Some(T)}]]
    OBVIOUS
  <2>3. \A T \in Up(n + 1) : h[T] = Val(h, T)
    <3> SUFFICES ASSUME NEW T \in Up(n + 1) PROVE h[T] = Val(h, T)
      OBVIOUS
    <3>0. T \in SUBSET S /\ Cardinality(T) \in Nat /\ Cardinality(T) <= n + 1
      BY <1>0
    <3>1. CASE T = {}
      <4>1. Cardinality(T) <= n  BY <3>1, FS_EmptySet
      <4>2. h[T] = g[T] /\ T \in Up(n)  BY <2>2, <3>0, <4>1
      <4>3. g[T] = 0  BY <2>1, <3>1, <4>2
      <4>4. QED  BY <3>1, <4>2, <4>3
    <3>2. CASE T # {}
      <4> DEFINE U == T \ {Some(T)}
      <4>1. Cardinality(U) \in Nat /\ Cardinality(U) = Cardinality(T) - 1 /\ U \in SUBSET S
        BY <1>0, <3>0, <3>2
      <4>2. U \in Up(n) /\ U \in Up(n + 1)
        BY <3>0, <4>1
      <4>3. h[U] = g[U]
        BY <2>2, <4>2
      <4>4. h[T] = f[Some(T)] + g[U]
        <5>1. CASE Cardinality(T) <= n
          <6>1. T \in Up(n) /\ h[T] = g[T]  BY <2>2, <3>0, <5>1
          <6>2. g[T] = Val(g, T)  BY <2>1, <6>1
          <6>3. QED  BY <3>2, <6>1, <6>2
        <5>2. CASE ~(Cardinality(T) <= n)
          BY <2>2, <5>2
        <5>3. QED  BY <5>1, <5>2
      <4>5. QED  BY <3>2, <4>3, <4>4
    <3>3. QED  BY <3>1, <3>2
  <2>4. h = [T \in Up(n + 1) |-> Val(h, T)]
    BY <2>2, <2>3
  <2>5. \E d : d = [T \in Up(n + 1) |-> Val(d, T)]
    BY <2>4, Zenon
  <2>6. n + 1 \in Nat
    OBVIOUS
  <2>7. QED  BY <2>5, <2>6, Zenon
<1>3. \A n \in Nat : n \in N
  <2> HIDE DEF N
  <2>1. QED  BY <1>1, <1>2, Counting
<1>4. PICK g : g = [T \in Up(Cardinality(S)) |-> Val(g, T)]
  BY <1>3, FS_CardinalityType
<1>5. Up(Cardinality(S)) = SUBSET S
  BY FS_Subset
<1>6. IsSum(f, S, g)
  BY <1>4, <1>5 DEF IsSum
<1>7. QED  BY <1>6

(* A recursion for the sums of all subsets gives the same for each subset. *)
LEMMA SumUnique ==
  ASSUME NEW f, NEW S, IsFiniteSet(S), NEW U \in SUBSET S, NEW g, NEW h, IsSum(f, S, g), IsSum(f, U, h)
  PROVE  \A T \in SUBSET U : g[T] = h[T]
<1> DEFINE Q == {T \in SUBSET U : g[T] = h[T]}
<1>1. ASSUME NEW T \in SUBSET U, \A x \in T : T \ {x} \in Q PROVE T \in Q
  <2>1. /\ g[T] = IF T = {} THEN 0 ELSE f[Some(T)] + g[T \ {Some(T)}]
        /\ h[T] = IF T = {} THEN 0 ELSE f[Some(T)] + h[T \ {Some(T)}]
    BY DEF IsSum
  <2>2. T # {} => Some(T) \in T
    BY DEF Some
  <2>3. QED  BY <1>1, <2>1, <2>2
<1> HIDE DEF Q
<1>2. \A T \in SUBSET U : T \in Q
  BY <1>1, Growing, FS_Subset
<1>3. QED  BY <1>2 DEF Q

(* The recursion of a sum. *)
LEMMA SumStep ==
  ASSUME NEW f, NEW S, IsFiniteSet(S)
  PROVE  SumFunctionOnSet(f, S) =
           IF S = {} THEN 0 ELSE f[Some(S)] + SumFunctionOnSet(f, S \ {Some(S)})
<1> DEFINE U == S \ {Some(S)}
<1>1. PICK g : g = (CHOOSE d : IsSum(f, S, d))
  OBVIOUS
<1>2. PICK h : h = (CHOOSE d : IsSum(f, U, d))
  OBVIOUS
<1>3. IsFiniteSet(U) /\ U \in SUBSET S
  BY FS_Subset
<1>4. IsSum(f, S, g) /\ IsSum(f, U, h)
  BY <1>1, <1>2, <1>3, SumExists
<1>5. g[U] = h[U]
  BY <1>3, <1>4, SumUnique
<1>6. SumFunctionOnSet(f, S) = g[S] /\ SumFunctionOnSet(f, U) = h[U]
  BY <1>1, <1>2, SumDef
<1>7. g[S] = IF S = {} THEN 0 ELSE f[Some(S)] + g[U]
  BY <1>4 DEF IsSum
<1>8. QED  BY <1>5, <1>6, <1>7

(* A sum of integers is an integer, of natural numbers a natural number. *)
LEMMA SumType ==
  ASSUME NEW f, NEW S, IsFiniteSet(S), \A x \in S : f[x] \in Int
  PROVE  /\ SumFunctionOnSet(f, S) \in Int
         /\ (\A x \in S : f[x] >= 0) => SumFunctionOnSet(f, S) >= 0
         /\ (\A x \in S : f[x] = 0) => SumFunctionOnSet(f, S) = 0
<1> DEFINE Total(T) == SumFunctionOnSet(f, T)
           P(T) == /\ Total(T) \in Int
                   /\ (\A x \in S : f[x] >= 0) => Total(T) >= 0
                   /\ (\A x \in S : f[x] = 0) => Total(T) = 0
           Q == {T \in SUBSET S : P(T)}
<1>1. ASSUME NEW T \in SUBSET S, \A x \in T : T \ {x} \in Q PROVE T \in Q
  <2>1. IsFiniteSet(T)
    BY FS_Subset
  <2>2. CASE T = {}
    <3>1. Total(T) = 0
      BY <2>1, <2>2, SumStep
    <3>2. QED  BY <3>1
  <2>3. CASE T # {}
    <3>1. PICK x \in T : x = Some(T)
      BY <2>3 DEF Some
    <3>2. Total(T) = f[x] + Total(T \ {x})
      BY <2>1, <2>3, <3>1, SumStep
    <3>3. P(T \ {x}) /\ f[x] \in Int /\ x \in S
      BY <1>1
    <3> HIDE DEF Total
    <3>4. QED  BY <3>2, <3>3
  <2>4. QED  BY <2>2, <2>3
<1> HIDE DEF Q
<1>2. \A T \in SUBSET S : T \in Q
  BY <1>1, Growing
<1>3. QED  BY <1>2 DEF Q

(* A sum does not depend on the order: any element can be the first. *)
LEMMA SumRemove ==
  ASSUME NEW f, NEW S, IsFiniteSet(S), \A x \in S : f[x] \in Int, NEW z \in S
  PROVE  SumFunctionOnSet(f, S) = f[z] + SumFunctionOnSet(f, S \ {z})
<1> DEFINE Total(T) == SumFunctionOnSet(f, T)
           Q == {T \in SUBSET S : \A x \in T : Total(T) = f[x] + Total(T \ {x})}
<1>0. ASSUME NEW T \in SUBSET S PROVE IsFiniteSet(T) /\ Total(T) \in Int
  <2>1. IsFiniteSet(T)
    BY FS_Subset
  <2>2. QED  BY <2>1, SumType
<1>1. ASSUME NEW T \in SUBSET S, \A x \in T : T \ {x} \in Q PROVE T \in Q
  <2> SUFFICES ASSUME NEW x \in T PROVE Total(T) = f[x] + Total(T \ {x})
    OBVIOUS
  <2>1. PICK c \in T : c = Some(T)
    BY DEF Some
  <2>2. Total(T) = f[c] + Total(T \ {c})
    BY <1>0, <2>1, SumStep
  <2>3. CASE c = x
    BY <2>2, <2>3
  <2>4. CASE c # x
    <3> DEFINE U == (T \ {c}) \ {x}
    <3>1. Total(T \ {c}) = f[x] + Total(U)
      BY <1>1, <2>4
    <3>2. U = (T \ {x}) \ {c}
      OBVIOUS
    <3>3. Total(T \ {x}) = f[c] + Total(U)
      BY <1>1, <2>4, <3>2
    <3>4. Total(U) \in Int /\ f[c] \in Int /\ f[x] \in Int
      BY <1>0
    <3> HIDE DEF Total, U
    <3>5. QED  BY <2>2, <3>1, <3>3, <3>4
  <2>5. QED  BY <2>3, <2>4
<1> HIDE DEF Q
<1>2. \A T \in SUBSET S : T \in Q
  BY <1>1, Growing
<1>3. QED  BY <1>2 DEF Q

(* One element more. *)
LEMMA SumInsert ==
  ASSUME NEW f, NEW S, IsFiniteSet(S), NEW z, z \notin S, \A x \in S \cup {z} : f[x] \in Int
  PROVE  /\ IsFiniteSet(S \cup {z})
         /\ SumFunctionOnSet(f, S \cup {z}) = f[z] + SumFunctionOnSet(f, S)
<1>1. IsFiniteSet(S \cup {z})
  BY FS_AddElement
<1>2. (S \cup {z}) \ {z} = S
  OBVIOUS
<1>3. QED  BY <1>1, <1>2, SumRemove

(* The sum of two sets without a common element. *)
LEMMA SumUnion ==
  ASSUME NEW f, NEW S, NEW T, IsFiniteSet(S), IsFiniteSet(T), S \cap T = {},
         \A x \in S \cup T : f[x] \in Int
  PROVE  /\ IsFiniteSet(S \cup T)
         /\ SumFunctionOnSet(f, S \cup T) = SumFunctionOnSet(f, S) + SumFunctionOnSet(f, T)
<1> DEFINE Total(U) == SumFunctionOnSet(f, U)
           Q == {U \in SUBSET S : Total(U \cup T) = Total(U) + Total(T)}
<1>0. IsFiniteSet(S \cup T)
  BY FS_Union
<1>1. ASSUME NEW U \in SUBSET S, \A x \in U : U \ {x} \in Q PROVE U \in Q
  <2>1. IsFiniteSet(U) /\ IsFiniteSet(U \cup T) /\ U \cup T \in SUBSET (S \cup T)
    BY <1>0, FS_Subset
  <2>2. CASE U = {}
    <3>1. Total(U) = 0 /\ U \cup T = T
      BY <2>1, <2>2, SumStep
    <3>2. Total(T) \in Int
      BY SumType
    <3>3. Total(U \cup T) = Total(T)
      BY <3>1
    <3>4. Total(U \cup T) = Total(U) + Total(T)
      <4> HIDE DEF Total
      <4>1. QED  BY <3>1, <3>2, <3>3
    <3>5. QED  BY <3>4
  <2>3. CASE U # {}
    <3>1. PICK x \in U : TRUE
      BY <2>3
    <3>2. (U \cup T) \ {x} = (U \ {x}) \cup T
      BY <3>1
    <3>3. Total(U) = f[x] + Total(U \ {x}) /\ Total(U \cup T) = f[x] + Total((U \ {x}) \cup T)
      BY <2>1, <3>1, <3>2, SumRemove
    <3>4. Total((U \ {x}) \cup T) = Total(U \ {x}) + Total(T)
      BY <1>1, <3>1
    <3>5. IsFiniteSet(U \ {x})
      BY <2>1, FS_Subset
    <3>6. f[x] \in Int /\ Total(U \ {x}) \in Int /\ Total(T) \in Int
      BY <3>1, <3>5, SumType
    <3> HIDE DEF Total
    <3>7. QED  BY <3>3, <3>4, <3>6
  <2>4. QED  BY <2>2, <2>3
<1> HIDE DEF Q
<1>2. \A U \in SUBSET S : U \in Q
  BY <1>1, Growing
<1>3. QED  BY <1>0, <1>2 DEF Q

(* Functions that agree have the same sum. *)
LEMMA SumSame ==
  ASSUME NEW f, NEW g, NEW S, IsFiniteSet(S), \A x \in S : f[x] = g[x]
  PROVE  SumFunctionOnSet(f, S) = SumFunctionOnSet(g, S)
<1> DEFINE Q == {T \in SUBSET S : SumFunctionOnSet(f, T) = SumFunctionOnSet(g, T)}
<1>1. ASSUME NEW T \in SUBSET S, \A x \in T : T \ {x} \in Q PROVE T \in Q
  <2>1. IsFiniteSet(T)
    BY FS_Subset
  <2>2. CASE T = {}
    BY <2>1, <2>2, SumStep
  <2>3. CASE T # {}
    <3>1. PICK x \in T : x = Some(T)
      BY <2>3 DEF Some
    <3>2. SumFunctionOnSet(f, T \ {x}) = SumFunctionOnSet(g, T \ {x}) /\ f[x] = g[x]
      BY <1>1
    <3>3. /\ SumFunctionOnSet(f, T) = f[x] + SumFunctionOnSet(f, T \ {x})
          /\ SumFunctionOnSet(g, T) = g[x] + SumFunctionOnSet(g, T \ {x})
      BY <2>1, <2>3, <3>1, SumStep
    <3>4. QED  BY <3>2, <3>3
  <2>4. QED  BY <2>2, <2>3
<1> HIDE DEF Q
<1>2. \A T \in SUBSET S : T \in Q
  BY <1>1, Growing
<1>3. QED  BY <1>2 DEF Q

(* The sum of the sum of two functions. *)
LEMMA SumAdd ==
  ASSUME NEW f, NEW g, NEW h, NEW S, IsFiniteSet(S),
         \A x \in S : f[x] \in Int /\ g[x] \in Int /\ h[x] = f[x] + g[x]
  PROVE  SumFunctionOnSet(h, S) = SumFunctionOnSet(f, S) + SumFunctionOnSet(g, S)
<1> DEFINE F(T) == SumFunctionOnSet(f, T)
           G(T) == SumFunctionOnSet(g, T)
           H(T) == SumFunctionOnSet(h, T)
           Q == {T \in SUBSET S : H(T) = F(T) + G(T)}
<1>1. ASSUME NEW T \in SUBSET S, \A x \in T : T \ {x} \in Q PROVE T \in Q
  <2>1. IsFiniteSet(T)
    BY FS_Subset
  <2>2. CASE T = {}
    <3>1. F(T) = 0 /\ G(T) = 0 /\ H(T) = 0
      BY <2>1, <2>2, SumStep
    <3>2. QED  BY <3>1
  <2>3. CASE T # {}
    <3>1. PICK x \in T : x = Some(T)
      BY <2>3 DEF Some
    <3>2. /\ F(T) = f[x] + F(T \ {x}) /\ G(T) = g[x] + G(T \ {x}) /\ H(T) = h[x] + H(T \ {x})
      BY <2>1, <2>3, <3>1, SumStep
    <3>3. IsFiniteSet(T \ {x})
      BY <2>1, FS_Subset
    <3>4. F(T \ {x}) \in Int /\ G(T \ {x}) \in Int
      BY <3>3, SumType
    <3>5. H(T \ {x}) = F(T \ {x}) + G(T \ {x})
      BY <1>1
    <3> HIDE DEF F, G, H
    <3>6. QED  BY <3>2, <3>4, <3>5
  <2>4. QED  BY <2>2, <2>3
<1> HIDE DEF Q
<1>2. \A T \in SUBSET S : T \in Q
  BY <1>1, Growing
<1>3. QED  BY <1>2 DEF Q

(* h[a] is the sum of what a owns of S. *)
Shared(h, A, f, S, own) == \A a \in A : h[a] = SumFunctionOnSet(f, {x \in S : own[x] = a})

(* What goes to each owner is, over all owners, everything. *)
LEMMA SumOwned ==
  ASSUME NEW f, NEW S, IsFiniteSet(S), \A x \in S : f[x] \in Int,
         NEW A, IsFiniteSet(A), NEW own, \A x \in S : own[x] \in A,
         NEW h, Shared(h, A, f, S, own)
  PROVE  SumFunctionOnSet(h, A) = SumFunctionOnSet(f, S)
<1> DEFINE Of(B) == {x \in S : own[x] \in B}
           H(B) == SumFunctionOnSet(h, B)
           F(T) == SumFunctionOnSet(f, T)
           Q == {B \in SUBSET A : H(B) = F(Of(B))}
<1>1. ASSUME NEW B \in SUBSET A, \A a \in B : B \ {a} \in Q PROVE B \in Q
  <2>1. IsFiniteSet(B)
    BY FS_Subset
  <2>2. CASE B = {}
    <3>1. Of(B) = {}
      BY <2>2
    <3>2. H(B) = 0 /\ F(Of(B)) = 0
      BY <2>1, <2>2, <3>1, SumStep, FS_EmptySet
    <3>3. QED  BY <3>2
  <2>3. CASE B # {}
    <3>1. PICK a \in B : a = Some(B)
      BY <2>3 DEF Some
    <3> DEFINE X == {x \in S : own[x] = a}
               Y == Of(B \ {a})
    <3>2. H(B) = h[a] + H(B \ {a})
      BY <2>1, <2>3, <3>1, SumStep
    <3>3. h[a] = F(X) /\ H(B \ {a}) = F(Y)
      BY <1>1, <3>1 DEF Shared
    <3>4. IsFiniteSet(X) /\ IsFiniteSet(Y) /\ X \cap Y = {} /\ Of(B) = X \cup Y
      <4>1. X \in SUBSET S /\ Y \in SUBSET S
        OBVIOUS
      <4>2. X \cap Y = {} /\ Of(B) = X \cup Y
        BY <3>1
      <4>3. QED  BY <4>1, <4>2, FS_Subset
    <3>5. F(X \cup Y) = F(X) + F(Y)
      BY <3>4, SumUnion
    <3>6. QED  BY <3>2, <3>3, <3>4, <3>5
  <2>4. QED  BY <2>2, <2>3
<1> HIDE DEF Q
<1>2. \A T \in SUBSET A : T \in Q
  BY <1>1, Growing
<1>3. Of(A) = S
  OBVIOUS
<1>4. QED  BY <1>2, <1>3 DEF Q

(* What is taken out of a set is taken off its sum. *)
LEMMA SumMinus ==
  ASSUME NEW f, NEW S, IsFiniteSet(S), \A x \in S : f[x] \in Int, NEW R \in SUBSET S
  PROVE  /\ IsFiniteSet(S \ R) /\ SumFunctionOnSet(f, R) \in Int
         /\ SumFunctionOnSet(f, S) \in Int
         /\ SumFunctionOnSet(f, S \ R) = SumFunctionOnSet(f, S) - SumFunctionOnSet(f, R)
<1>1. IsFiniteSet(S \ R) /\ IsFiniteSet(R)
  BY FS_Subset
<1>2. (S \ R) \cap R = {} /\ (S \ R) \cup R = S
  OBVIOUS
<1>3. SumFunctionOnSet(f, S) = SumFunctionOnSet(f, S \ R) + SumFunctionOnSet(f, R)
  BY <1>1, <1>2, SumUnion
<1>4. /\ SumFunctionOnSet(f, S \ R) \in Int /\ SumFunctionOnSet(f, R) \in Int
      /\ SumFunctionOnSet(f, S) \in Int
  BY <1>1, SumType
<1>5. QED  BY <1>1, <1>3, <1>4


(* A sum with one term that counts. *)
LEMMA SumOne ==
  ASSUME NEW f, NEW S, IsFiniteSet(S), NEW z \in S, f[z] \in Int, \A x \in S \ {z} : f[x] = 0
  PROVE  SumFunctionOnSet(f, S) = f[z]
<1>1. \A x \in S : f[x] \in Int
  OBVIOUS
<1>2. SumFunctionOnSet(f, S) = f[z] + SumFunctionOnSet(f, S \ {z})
  BY <1>1, SumRemove
<1>3. IsFiniteSet(S \ {z})
  BY FS_Subset
<1>4. SumFunctionOnSet(f, S \ {z}) = 0
  BY <1>3, SumType
<1>5. QED  BY <1>2, <1>4

(* The sum of nothing. *)
LEMMA SumEmpty ==
  ASSUME NEW f
  PROVE  SumFunctionOnSet(f, {}) = 0
BY FS_EmptySet, SumStep

(* One term that changes. *)
LEMMA SumChange ==
  ASSUME NEW f, NEW g, NEW S, IsFiniteSet(S), NEW z \in S, \A x \in S : f[x] \in Int,
         g[z] \in Int, \A x \in S \ {z} : g[x] = f[x]
  PROVE  /\ SumFunctionOnSet(f, S) \in Int
         /\ SumFunctionOnSet(g, S) = SumFunctionOnSet(f, S) + (g[z] - f[z])
<1>1. \A x \in S : g[x] \in Int
  OBVIOUS
<1>2. /\ SumFunctionOnSet(f, S) = f[z] + SumFunctionOnSet(f, S \ {z})
      /\ SumFunctionOnSet(g, S) = g[z] + SumFunctionOnSet(g, S \ {z})
  BY <1>1, SumRemove
<1>3. IsFiniteSet(S \ {z})
  BY FS_Subset
<1>4. SumFunctionOnSet(f, S \ {z}) = SumFunctionOnSet(g, S \ {z})
  BY <1>3, SumSame
<1>5. SumFunctionOnSet(f, S \ {z}) \in Int /\ SumFunctionOnSet(f, S) \in Int
  BY <1>3, SumType
<1>6. f[z] \in Int /\ g[z] \in Int
  OBVIOUS
<1>7. QED  BY <1>2, <1>4, <1>5, <1>6

(* A sum of larger terms is larger, and no term exceeds a sum of natural numbers. *)
LEMMA SumOrder ==
  ASSUME NEW f, NEW g, NEW S, IsFiniteSet(S), \A x \in S : f[x] \in Int /\ g[x] \in Int /\ f[x] <= g[x]
  PROVE  /\ SumFunctionOnSet(f, S) \in Int /\ SumFunctionOnSet(g, S) \in Int
         /\ SumFunctionOnSet(f, S) <= SumFunctionOnSet(g, S)
<1>1. PICK d : d = [x \in S |-> g[x] - f[x]]
  OBVIOUS
<1>2. \A x \in S : d[x] \in Int /\ d[x] >= 0 /\ g[x] = f[x] + d[x]
  BY <1>1
<1>3. SumFunctionOnSet(g, S) = SumFunctionOnSet(f, S) + SumFunctionOnSet(d, S)
  BY <1>2, SumAdd
<1>4. /\ SumFunctionOnSet(f, S) \in Int /\ SumFunctionOnSet(g, S) \in Int
      /\ SumFunctionOnSet(d, S) \in Int /\ SumFunctionOnSet(d, S) >= 0
  BY <1>2, SumType
<1>5. QED  BY <1>3, <1>4

(* A sum of natural numbers is one, and none of them exceeds it. *)
LEMMA SumBounds ==
  ASSUME NEW f, NEW S, IsFiniteSet(S), \A x \in S : f[x] \in Nat, NEW z \in S
  PROVE  SumFunctionOnSet(f, S) \in Nat /\ f[z] <= SumFunctionOnSet(f, S)
<1>1. \A x \in S : f[x] \in Int /\ f[x] >= 0
  OBVIOUS
<1>2. SumFunctionOnSet(f, S) = f[z] + SumFunctionOnSet(f, S \ {z})
  BY <1>1, SumRemove
<1>3. IsFiniteSet(S \ {z})
  BY FS_Subset
<1>4. SumFunctionOnSet(f, S \ {z}) \in Int /\ SumFunctionOnSet(f, S \ {z}) >= 0 /\ f[z] \in Nat
  BY <1>1, <1>3, SumType
<1>5. QED  BY <1>2, <1>4

(* The same terms under other names. *)
LEMMA SumRenamed ==
  ASSUME NEW f, NEW S, IsFiniteSet(S), NEW g, NEW T, IsFiniteSet(T), \A x \in T : g[x] \in Int,
         NEW name, \A x \in T : name[x] \in S, \A x, y \in T : name[x] = name[y] => x = y,
         \A y \in S : \E x \in T : name[x] = y /\ g[x] = f[y]
  PROVE  SumFunctionOnSet(f, S) = SumFunctionOnSet(g, T)
<1>1. ASSUME NEW y \in S PROVE f[y] = SumFunctionOnSet(g, {x \in T : name[x] = y})
  <2>1. PICK x \in T : name[x] = y /\ g[x] = f[y]
    OBVIOUS
  <2>2. {z \in T : name[z] = y} = {x}
    BY <2>1
  <2>3. IsFiniteSet({x})
    BY FS_Singleton
  <2>4. SumFunctionOnSet(g, {x}) = g[x]
    BY <2>3, SumOne
  <2>5. QED  BY <2>1, <2>2, <2>4
<1>2. Shared(f, S, g, T, name)
  BY <1>1 DEF Shared
<1>3. QED  BY <1>2, SumOwned

-----------------------------------------------------------------------------
(* Loops over a set, one element after the other *)

(* g[T] is where the loop is after the elements of T. *)
IsFold(step, base, S, last, g) ==
  g = [T \in SUBSET S |-> IF T = {} THEN base ELSE step[<<g[T \ {last[T]}], last[T]>>]]

(* A choice from each set with an element. *)
Chooses(last, S) == \A T \in SUBSET S : T # {} => last[T] \in T

(* A loop over a finite set has a run. *)
LEMMA FoldExists ==
  ASSUME NEW S, IsFiniteSet(S), NEW last, Chooses(last, S), NEW step, NEW base
  PROVE  \E g : IsFold(step, base, S, last, g)
<1> DEFINE Up(n) == {T \in SUBSET S : Cardinality(T) <= n}
           Val(g, T) == IF T = {} THEN base ELSE step[<<g[T \ {last[T]}], last[T]>>]
           N == {n \in Nat : \E g : g = [T \in Up(n) |-> Val(g, T)]}
<1>0. \A T \in SUBSET S : Cardinality(T) \in Nat /\ (T # {} => last[T] \in T /\ Cardinality(T \ {last[T]}) = Cardinality(T) - 1)
  <2> SUFFICES ASSUME NEW T \in SUBSET S
               PROVE  Cardinality(T) \in Nat /\ (T # {} => last[T] \in T /\ Cardinality(T \ {last[T]}) = Cardinality(T) - 1)
    OBVIOUS
  <2>1. IsFiniteSet(T)  BY FS_Subset
  <2>2. T # {} => last[T] \in T  BY DEF Chooses
  <2>3. QED  BY <2>1, <2>2, FS_CardinalityType, FS_RemoveElement
<1>1. 0 \in N
  <2>1. \A T \in Up(0) : T = {}
    <3>1. ASSUME NEW T \in Up(0) PROVE T = {}
      <4>1. IsFiniteSet(T) /\ Cardinality(T) \in Nat /\ Cardinality(T) <= 0
        BY <1>0, FS_Subset
      <4>2. QED  BY <4>1, FS_EmptySet
    <3>2. QED  BY <3>1
  <2>2. PICK g : g = [T \in Up(0) |-> base]
    OBVIOUS
  <2>3. g = [T \in Up(0) |-> Val(g, T)]
    BY <2>1, <2>2
  <2>4. QED  BY <2>3
<1>2. ASSUME NEW n \in Nat, n \in N PROVE n + 1 \in N
  <2>1. PICK g : g = [T \in Up(n) |-> Val(g, T)]
    BY <1>2
  <2>2. PICK h : h = [T \in Up(n + 1) |-> IF Cardinality(T) <= n THEN g[T] ELSE step[<<g[T \ {last[T]}], last[T]>>]]
    OBVIOUS
  <2>3. \A T \in Up(n + 1) : h[T] = Val(h, T)
    <3> SUFFICES ASSUME NEW T \in Up(n + 1) PROVE h[T] = Val(h, T)
      OBVIOUS
    <3>0. T \in SUBSET S /\ Cardinality(T) \in Nat /\ Cardinality(T) <= n + 1
      BY <1>0
    <3>1. CASE T = {}
      <4>1. Cardinality(T) <= n  BY <3>1, FS_EmptySet
      <4>2. h[T] = g[T] /\ T \in Up(n)  BY <2>2, <3>0, <4>1
      <4>3. g[T] = base  BY <2>1, <3>1, <4>2
      <4>4. QED  BY <3>1, <4>2, <4>3
    <3>2. CASE T # {}
      <4> DEFINE U == T \ {last[T]}
      <4>1. Cardinality(U) \in Nat /\ Cardinality(U) = Cardinality(T) - 1 /\ U \in SUBSET S
        BY <1>0, <3>0, <3>2
      <4>2. U \in Up(n) /\ U \in Up(n + 1)
        BY <3>0, <4>1
      <4>3. h[U] = g[U]
        BY <2>2, <4>2
      <4>4. h[T] = step[<<g[U], last[T]>>]
        <5>1. CASE Cardinality(T) <= n
          <6>1. T \in Up(n) /\ h[T] = g[T]  BY <2>2, <3>0, <5>1
          <6>2. g[T] = Val(g, T)  BY <2>1, <6>1
          <6>3. QED  BY <3>2, <6>1, <6>2
        <5>2. CASE ~(Cardinality(T) <= n)
          BY <2>2, <5>2
        <5>3. QED  BY <5>1, <5>2
      <4>5. QED  BY <3>2, <4>3, <4>4
    <3>3. QED  BY <3>1, <3>2
  <2>4. h = [T \in Up(n + 1) |-> Val(h, T)]
    BY <2>2, <2>3
  <2>5. \E d : d = [T \in Up(n + 1) |-> Val(d, T)]
    BY <2>4, Zenon
  <2>6. n + 1 \in Nat
    OBVIOUS
  <2>7. QED  BY <2>5, <2>6, Zenon
<1>3. \A n \in Nat : n \in N
  <2> HIDE DEF N
  <2>1. QED  BY <1>1, <1>2, Counting
<1>4. PICK g : g = [T \in Up(Cardinality(S)) |-> Val(g, T)]
  BY <1>3, FS_CardinalityType
<1>5. Up(Cardinality(S)) = SUBSET S
  BY FS_Subset
<1>6. IsFold(step, base, S, last, g)
  BY <1>4, <1>5 DEF IsFold
<1>7. QED  BY <1>6

(* Each step of the loop keeps to Held, a set of pairs (the elements done, the state). *)
StepsHold(step, S, last, Held) ==
  \A T \in SUBSET S : T # {} =>
    \A s : <<T \ {last[T]}, s>> \in Held => <<T, step[<<s, last[T]>>]>> \in Held
HoldsAll(S, Held, g) == \A T \in SUBSET S : <<T, g[T]>> \in Held

(* What holds at the start of a loop, and after a step when it holds before, *)
(* holds throughout its run.                                                 *)
LEMMA FoldHolds ==
  ASSUME NEW S, IsFiniteSet(S), NEW last, Chooses(last, S), NEW step, NEW base, NEW Held,
         <<{}, base>> \in Held, StepsHold(step, S, last, Held)
  PROVE  \E g : IsFold(step, base, S, last, g) /\ HoldsAll(S, Held, g)
<1>1. PICK g : IsFold(step, base, S, last, g)
  BY FoldExists
<1> DEFINE Q == {T \in SUBSET S : <<T, g[T]>> \in Held}
<1>2. ASSUME NEW T \in SUBSET S, \A x \in T : T \ {x} \in Q PROVE T \in Q
  <2>1. g[T] = IF T = {} THEN base ELSE step[<<g[T \ {last[T]}], last[T]>>]
    BY <1>1 DEF IsFold
  <2>2. T # {} => <<T \ {last[T]}, g[T \ {last[T]}]>> \in Held
    BY <1>2 DEF Chooses
  <2>3. T # {} => <<T, step[<<g[T \ {last[T]}], last[T]>>]>> \in Held
    BY <2>2 DEF StepsHold
  <2>4. QED  BY <2>1, <2>3
<1> HIDE DEF Q
<1>3. \A T \in SUBSET S : T \in Q
  BY <1>2, Growing
<1>4. HoldsAll(S, Held, g)
  BY <1>3 DEF Q, HoldsAll
<1>5. QED  BY <1>1, <1>4

StayAlike(S, last, f, g) ==
  /\ f[{}] = g[{}]
  /\ \A T \in SUBSET S : T # {} /\ f[T \ {last[T]}] = g[T \ {last[T]}] => f[T] = g[T]

(* Two loops that start alike and stay alike. *)
LEMMA FoldSame ==
  ASSUME NEW S, IsFiniteSet(S), NEW last, Chooses(last, S), NEW f, NEW g, StayAlike(S, last, f, g)
  PROVE  \A T \in SUBSET S : f[T] = g[T]
<1> DEFINE Q == {T \in SUBSET S : f[T] = g[T]}
<1>1. ASSUME NEW T \in SUBSET S, \A x \in T : T \ {x} \in Q PROVE T \in Q
  <2>1. T # {} => f[T \ {last[T]}] = g[T \ {last[T]}]
    BY <1>1 DEF Chooses
  <2>2. QED  BY <2>1 DEF StayAlike
<1> HIDE DEF Q
<1>2. \A T \in SUBSET S : T \in Q
  BY <1>1, Growing
<1>3. QED  BY <1>2 DEF Q

Total(R, S) == \A x, y \in S : x = y \/ <<x, y>> \in R \/ <<y, x>> \in R
Transitive(R, S) == \A x, y, z \in S : <<x, y>> \in R /\ <<y, z>> \in R => <<x, z>> \in R

(* A finite set with an order has a last element. *)
LEMMA LastExists ==
  ASSUME NEW S, IsFiniteSet(S), NEW R, Total(R, S), Transitive(R, S)
  PROVE  \A T \in SUBSET S : T # {} => \E x \in T : \A y \in T \ {x} : <<y, x>> \in R
<1> DEFINE Q == {T \in SUBSET S : T # {} => \E x \in T : \A y \in T \ {x} : <<y, x>> \in R}
<1>1. ASSUME NEW T \in SUBSET S, \A x \in T : T \ {x} \in Q PROVE T \in Q
  <2> SUFFICES ASSUME T # {} PROVE \E x \in T : \A y \in T \ {x} : <<y, x>> \in R
    OBVIOUS
  <2>1. PICK x \in T : TRUE
    OBVIOUS
  <2>2. CASE T \ {x} = {}
    BY <2>2
  <2>3. CASE T \ {x} # {}
    <3>1. PICK m \in T \ {x} : \A y \in (T \ {x}) \ {m} : <<y, m>> \in R
      BY <1>1, <2>3
    <3>2. CASE <<x, m>> \in R
      <4>1. \A y \in T \ {m} : <<y, m>> \in R
        BY <3>1, <3>2
      <4>2. QED  BY <4>1
    <3>3. CASE <<x, m>> \notin R
      <4>1. <<m, x>> \in R
        BY <3>3 DEF Total
      <4>2. \A y \in T \ {x} : <<y, x>> \in R
        BY <3>1, <4>1 DEF Transitive
      <4>3. QED  BY <4>2
    <3>4. QED  BY <3>2, <3>3
  <2>4. QED  BY <2>2, <2>3
<1> HIDE DEF Q
<1>2. \A T \in SUBSET S : T \in Q
  BY <1>1, Growing
<1>3. QED  BY <1>2 DEF Q

-----------------------------------------------------------------------------
(* Chains of proxies *)

Proxies == [Account -> Account \cup {NoProxy}]
Hop == 0..(Depth + 1)
IsHops(prox, a, hop) ==
  hop = [n \in Hop |-> IF n = 0 THEN a ELSE IF hop[n - 1] = NoProxy THEN NoProxy ELSE prox[hop[n - 1]]]

(* Every account has a chain of proxies, each the proxy of the one before. *)
LEMMA HopsExist ==
  ASSUME NEW prox \in Proxies, NEW a \in Account
  PROVE  \E hop \in [Hop -> Account \cup {NoProxy}] : IsHops(prox, a, hop)
<1> DEFINE X == Account \cup {NoProxy}
           Step(x) == IF x = NoProxy THEN NoProxy ELSE prox[x]
           Q == {m \in Nat : \E f \in [0..m -> X] : f = [n \in 0..m |-> IF n = 0 THEN a ELSE Step(f[n - 1])]}
<1>0. \A x \in X : Step(x) \in X
  BY DEF Proxies
<1>1. 0 \in Q
  <2>1. PICK f : f = [n \in 0..0 |-> a]
    OBVIOUS
  <2>2. f \in [0..0 -> X] /\ f = [n \in 0..0 |-> IF n = 0 THEN a ELSE Step(f[n - 1])]
    BY <2>1
  <2>3. QED  BY <2>2
<1>2. ASSUME NEW m \in Nat, m \in Q PROVE m + 1 \in Q
  <2>1. PICK f \in [0..m -> X] : f = [n \in 0..m |-> IF n = 0 THEN a ELSE Step(f[n - 1])]
    BY <1>2
  <2>2. PICK y : y = Step(f[m])
    OBVIOUS
  <2>3. PICK h : h = [n \in 0..(m + 1) |-> IF n <= m THEN f[n] ELSE y]
    OBVIOUS
  <2>4. y \in X
    BY <1>0, <2>1, <2>2
  <2>5. h \in [0..(m + 1) -> X]
    <3>1. ASSUME NEW k \in 0..(m + 1) PROVE (IF k <= m THEN f[k] ELSE y) \in X
      BY <2>1, <2>4
    <3>2. QED  BY <2>3, <3>1
  <2>6. ASSUME NEW k \in 0..(m + 1) PROVE h[k] = IF k = 0 THEN a ELSE Step(h[k - 1])
    <3>1. CASE k = 0
      <4>1. 0 \in 0..(m + 1) /\ 0 <= m /\ 0 \in 0..m
        OBVIOUS
      <4>2. f[0] = a
        BY <2>1, <4>1
      <4>3. QED  BY <2>3, <3>1, <4>1, <4>2
    <3>2. CASE k # 0 /\ k <= m
      <4>1. k \in 0..m /\ k - 1 \in 0..(m + 1) /\ k - 1 <= m
        BY <3>2
      <4>2. f[k] = Step(f[k - 1])
        BY <2>1, <3>2, <4>1
      <4>3. h[k] = f[k] /\ h[k - 1] = f[k - 1]
        BY <2>3, <3>2, <4>1
      <4>4. QED  BY <3>2, <4>2, <4>3
    <3>3. CASE k = m + 1
      <4>1. m \in 0..(m + 1) /\ m <= m /\ k - 1 = m /\ ~(k <= m) /\ k # 0
        BY <3>3
      <4>2. h[k] = y /\ h[m] = f[m]
        BY <2>3, <4>1
      <4>3. QED  BY <2>2, <4>1, <4>2
    <3>4. QED  BY <3>1, <3>2, <3>3
  <2>7. h = [n \in 0..(m + 1) |-> IF n = 0 THEN a ELSE Step(h[n - 1])]
    BY <2>3, <2>6
  <2>8. \E g \in [0..(m + 1) -> X] : g = [n \in 0..(m + 1) |-> IF n = 0 THEN a ELSE Step(g[n - 1])]
    BY <2>5, <2>7
  <2>9. m + 1 \in Nat
    OBVIOUS
  <2>10. QED  BY <2>8, <2>9
<1>3. \A m \in Nat : m \in Q
  <2> HIDE DEF Q
  <2>1. QED  BY <1>1, <1>2, Counting
<1>4. Depth + 1 \in Nat
  BY DepthAssumption
<1>5. PICK f \in [0..(Depth + 1) -> X] : f = [n \in 0..(Depth + 1) |-> IF n = 0 THEN a ELSE Step(f[n - 1])]
  BY <1>3, <1>4
<1>6. f \in [Hop -> X] /\ IsHops(prox, a, f)
  BY <1>5 DEF IsHops, Hop
<1>7. QED  BY <1>6

(* The chain, hop by hop. *)
LEMMA HopsAre ==
  ASSUME NEW prox \in Proxies, NEW a \in Account
  PROVE  /\ Hops(prox, a) \in [Hop -> Account \cup {NoProxy}] /\ Hops(prox, a)[0] = a
         /\ \A n \in 0..Depth :
              Hops(prox, a)[n + 1] = IF Hops(prox, a)[n] = NoProxy THEN NoProxy ELSE prox[Hops(prox, a)[n]]
<1> DEFINE X == Account \cup {NoProxy}
           Solves(h) == IsHops(prox, a, h)
<1>1. \E h : Solves(h)
  BY HopsExist
<1>2. PICK hop : hop = (CHOOSE h : Solves(h))
  OBVIOUS
<1>3. Solves(hop)
  BY <1>1, <1>2
<1>4. hop = Hops(prox, a)
  BY <1>2 DEF Hops, IsHops, Hop
<1>5. \A n \in Hop : hop[n] = IF n = 0 THEN a ELSE IF hop[n - 1] = NoProxy THEN NoProxy ELSE prox[hop[n - 1]]
  BY <1>3 DEF IsHops
<1>6. DOMAIN hop = Hop /\ hop = [n \in Hop |-> hop[n]]
  BY <1>3 DEF IsHops
<1>7. 0 \in Hop /\ \A n \in 0..Depth : n + 1 \in Hop /\ n + 1 # 0 /\ (n + 1) - 1 = n
  BY DepthAssumption DEF Hop
<1>8. hop[0] = a
  BY <1>5, <1>7
<1>9. \A n \in 0..Depth : hop[n + 1] = IF hop[n] = NoProxy THEN NoProxy ELSE prox[hop[n]]
  BY <1>5, <1>7
<1>10. \A n \in Hop : hop[n] \in X
  <2> DEFINE Q == {n \in Nat : n \in Hop => hop[n] \in X}
  <2>1. 0 \in Q
    BY <1>8
  <2>2. ASSUME NEW n \in Nat, n \in Q PROVE n + 1 \in Q
    <3> SUFFICES ASSUME n + 1 \in Hop PROVE hop[n + 1] \in X
      OBVIOUS
    <3>1. n \in 0..Depth /\ n \in Hop
      BY DepthAssumption DEF Hop
    <3>2. QED  BY <1>9, <2>2, <3>1 DEF Proxies
  <2> HIDE DEF Q
  <2>3. \A n \in Nat : n \in Q
    BY <2>1, <2>2, Counting
  <2>4. QED  BY <2>3, DepthAssumption DEF Q, Hop
<1>11. hop \in [Hop -> X]
  BY <1>6, <1>10
<1>12. QED  BY <1>4, <1>8, <1>9, <1>11

(* Beyond the end of a chain there is nothing. *)
LEMMA HopsEnd ==
  ASSUME NEW prox \in Proxies, NEW b \in Account, NEW m \in Hop, Hops(prox, b)[m] # NoProxy
  PROVE  \A n \in 0..m : Hops(prox, b)[n] # NoProxy
<1> DEFINE hop == Hops(prox, b)
           Q == {k \in Nat : k <= m => hop[m - k] # NoProxy}
<1>0. m \in Nat /\ m <= Depth + 1
  BY DepthAssumption DEF Hop
<1>1. 0 \in Q
  BY <1>0
<1>2. ASSUME NEW k \in Nat, k \in Q PROVE k + 1 \in Q
  <2> SUFFICES ASSUME k + 1 <= m PROVE hop[m - (k + 1)] # NoProxy
    OBVIOUS
  <2>1. PICK n \in 0..Depth : n = m - (k + 1)
    BY <1>0, DepthAssumption
  <2>2. n + 1 = m - k /\ k <= m
    BY <1>0, <2>1
  <2>3. hop[n + 1] # NoProxy
    BY <1>2, <2>2
  <2>4. QED  BY <2>1, <2>3, HopsAre
<1> HIDE DEF Q
<1>3. \A k \in Nat : k \in Q
  BY <1>1, <1>2, Counting
<1>4. ASSUME NEW n \in 0..m PROVE hop[n] # NoProxy
  <2>1. m - n \in Nat /\ m - n <= m /\ m - (m - n) = n
    BY <1>0
  <2>2. m - n \in Q
    BY <1>3, <2>1
  <2>3. QED  BY <2>1, <2>2 DEF Q
<1>5. QED  BY <1>4

(* The chain of b that passes through a goes on as the chain of a. *)
LEMMA HopsJoin ==
  ASSUME NEW prox \in Proxies, NEW a \in Account, NEW b \in Account,
         NEW i \in Hop, Hops(prox, b)[i] = a, NEW j \in Nat, i + j \in Hop
  PROVE  Hops(prox, b)[i + j] = Hops(prox, a)[j]
<1> DEFINE Q == {k \in Nat : i + k \in Hop => Hops(prox, b)[i + k] = Hops(prox, a)[k]}
<1>0. i \in Nat
  BY DEF Hop
<1>1. 0 \in Q
  BY <1>0, HopsAre
<1>2. ASSUME NEW k \in Nat, k \in Q PROVE k + 1 \in Q
  <2> SUFFICES ASSUME i + (k + 1) \in Hop PROVE Hops(prox, b)[i + (k + 1)] = Hops(prox, a)[k + 1]
    OBVIOUS
  <2>1. PICK n \in 0..Depth : n = i + k
    BY <1>0, DepthAssumption DEF Hop
  <2>2. n \in Hop /\ n + 1 = i + (k + 1) /\ k \in 0..Depth
    BY <1>0, <2>1, DepthAssumption DEF Hop
  <2>3. Hops(prox, b)[n] = Hops(prox, a)[k]
    BY <1>2, <2>1, <2>2
  <2>4. /\ Hops(prox, b)[n + 1] = IF Hops(prox, b)[n] = NoProxy THEN NoProxy ELSE prox[Hops(prox, b)[n]]
        /\ Hops(prox, a)[k + 1] = IF Hops(prox, a)[k] = NoProxy THEN NoProxy ELSE prox[Hops(prox, a)[k]]
    BY <2>1, <2>2, HopsAre
  <2>5. QED  BY <2>2, <2>3, <2>4
<1> HIDE DEF Q
<1>3. \A k \in Nat : k \in Q
  BY <1>1, <1>2, Counting
<1>4. QED  BY <1>3 DEF Q

(* Without loops no chain comes back to an account. *)
LEMMA HopsOnce ==
  ASSUME NEW prox \in Proxies, Acyclic(prox), NEW b \in Account, NEW i \in Hop, NEW j \in Hop,
         Hops(prox, b)[i] \in Account, Hops(prox, b)[i] = Hops(prox, b)[j]
  PROVE  i = j
<1>1. ASSUME NEW x \in Account, NEW n \in Hop, n # 0, Hops(prox, x)[n] = x PROVE FALSE
  <2> DEFINE hop == Hops(prox, x)
             S == {hop[m] : m \in 0..(n - 1)}
  <2>0. n \in Nat /\ n - 1 \in 0..Depth /\ n \in 0..n
    BY <1>1, DepthAssumption DEF Hop
  <2>1. \A m \in 0..n : hop[m] # NoProxy
    <3>1. hop[n] # NoProxy
      BY <1>1, VoterAssumption
    <3>2. QED  BY <3>1, HopsEnd
  <2>2. \A m \in 0..n : hop[m] \in Account
    <3>1. \A m \in 0..n : m \in Hop
      BY <2>0, DepthAssumption DEF Hop
    <3>2. QED  BY <2>1, <3>1, HopsAre
  <2>3. S \in SUBSET Account
    BY <2>0, <2>2
  <2>4. x \in S
    <3>1. 0 \in 0..(n - 1)
      BY <2>0
    <3>2. hop[0] = x
      BY HopsAre
    <3>3. QED  BY <3>1, <3>2
  <2>5. ASSUME NEW y \in S PROVE prox[y] \in S
    <3>1. PICK m \in 0..(n - 1) : y = hop[m]
      OBVIOUS
    <3>2. m \in 0..Depth /\ m \in 0..n /\ m + 1 \in 0..n
      BY <2>0, DepthAssumption
    <3>3. prox[y] = hop[m + 1]
      BY <2>1, <3>1, <3>2, HopsAre
    <3>4. CASE m + 1 = n
      BY <1>1, <2>4, <3>3, <3>4
    <3>5. CASE m + 1 # n
      <4>1. m + 1 \in 0..(n - 1)
        BY <2>0, <3>2, <3>5
      <4>2. QED  BY <3>3, <4>1
    <3>6. QED  BY <3>4, <3>5
  <2> HIDE DEF S
  <2>6. QED  BY <2>3, <2>4, <2>5 DEF Acyclic
<1>2. ASSUME NEW m \in Hop, NEW n \in Hop, m < n, Hops(prox, b)[m] \in Account,
             Hops(prox, b)[m] = Hops(prox, b)[n]
      PROVE  FALSE
  <2>1. PICK x \in Account : x = Hops(prox, b)[m]
    BY <1>2
  <2>2. n - m \in Nat /\ n - m # 0 /\ n - m \in Hop /\ m + (n - m) = n
    BY <1>2, DepthAssumption DEF Hop
  <2>3. Hops(prox, b)[m + (n - m)] = Hops(prox, x)[n - m]
    BY <2>1, <2>2, HopsJoin
  <2>4. QED  BY <1>1, <1>2, <2>1, <2>2, <2>3
<1>3. i \in Nat /\ j \in Nat
  BY DEF Hop
<1>4. QED  BY <1>2, <1>3

Cut(prox, a) == [prox EXCEPT ![a] = NoProxy]

(* Without the proxy of a, the chains that passed through a end there. *)
LEMMA HopsCut ==
  ASSUME NEW prox \in Proxies, NEW a \in Account, NEW cut, cut = Cut(prox, a),
         NEW b \in Account
  PROVE  /\ cut \in Proxies
         /\ \A n \in Hop : Hops(cut, b)[n] = IF \E i \in 0..(n - 1) : Hops(prox, b)[i] = a
                                               THEN NoProxy ELSE Hops(prox, b)[n]
<1>1. cut \in Proxies
  BY DEF Proxies, Cut
<1>0. \A n \in 0..Depth : Hops(cut, b)[n + 1] = IF Hops(cut, b)[n] = NoProxy THEN NoProxy ELSE cut[Hops(cut, b)[n]]
  <2>1. ASSUME NEW p \in Proxies
        PROVE \A n \in 0..Depth : Hops(p, b)[n + 1] = IF Hops(p, b)[n] = NoProxy THEN NoProxy ELSE p[Hops(p, b)[n]]
    BY HopsAre
  <2>2. QED  BY <1>1, <2>1, Zenon
<1> DEFINE Passed(n) == \E i \in 0..(n - 1) : Hops(prox, b)[i] = a
           Q == {n \in Nat : n \in Hop => Hops(cut, b)[n] = IF Passed(n) THEN NoProxy ELSE Hops(prox, b)[n]}
<1>2. 0 \in Q
  <2>1. ~Passed(0)
    OBVIOUS
  <2>2. Hops(cut, b)[0] = b /\ Hops(prox, b)[0] = b
    BY <1>1, HopsAre
  <2> HIDE DEF Passed
  <2>3. QED  BY <2>1, <2>2
<1>3. ASSUME NEW n \in Nat, n \in Q PROVE n + 1 \in Q
  <2> SUFFICES ASSUME n + 1 \in Hop
               PROVE  Hops(cut, b)[n + 1] = IF Passed(n + 1) THEN NoProxy ELSE Hops(prox, b)[n + 1]
    OBVIOUS
  <2>1. n \in 0..Depth /\ n \in Hop
    BY DepthAssumption DEF Hop
  <2>2. Hops(cut, b)[n] = IF Passed(n) THEN NoProxy ELSE Hops(prox, b)[n]
    BY <1>3, <2>1
  <2>3. Passed(n + 1) <=> Passed(n) \/ Hops(prox, b)[n] = a
    <3>1. 0..((n + 1) - 1) = 0..(n - 1) \cup {n}
      OBVIOUS
    <3>2. QED  BY <3>1
  <2>4. Hops(cut, b)[n + 1] = IF Hops(cut, b)[n] = NoProxy THEN NoProxy ELSE cut[Hops(cut, b)[n]]
    BY <1>0, <2>1
  <2>5. Hops(prox, b)[n + 1] = IF Hops(prox, b)[n] = NoProxy THEN NoProxy ELSE prox[Hops(prox, b)[n]]
    BY <2>1, HopsAre
  <2>6. Hops(prox, b)[n] \in Account \cup {NoProxy}
    BY <2>1, HopsAre
  <2> HIDE DEF Passed
  <2>7. CASE Passed(n)
    BY <2>2, <2>3, <2>4, <2>7
  <2>8. CASE ~Passed(n) /\ Hops(prox, b)[n] = a
    <3>1. Hops(cut, b)[n] = a /\ a # NoProxy /\ cut[a] = NoProxy
      BY <2>2, <2>8, VoterAssumption DEF Proxies, Cut
    <3>2. QED  BY <2>3, <2>4, <2>8, <3>1
  <2>9. CASE ~Passed(n) /\ Hops(prox, b)[n] # a
    <3>1. Hops(cut, b)[n] = Hops(prox, b)[n]
      BY <2>2, <2>9
    <3>2. Hops(prox, b)[n] \in Account => cut[Hops(prox, b)[n]] = prox[Hops(prox, b)[n]]
      BY <2>9 DEF Proxies, Cut
    <3>3. QED  BY <2>3, <2>4, <2>5, <2>6, <2>9, <3>1, <3>2
  <2>10. QED  BY <2>7, <2>8, <2>9
<1> HIDE DEF Q
<1>4. \A n \in Nat : n \in Q
  BY <1>2, <1>3, Counting
<1>5. \A n \in Hop : Hops(cut, b)[n] = IF Passed(n) THEN NoProxy ELSE Hops(prox, b)[n]
  <2>1. \A n \in Hop : n \in Nat
    BY DEF Hop
  <2> HIDE DEF Passed
  <2>2. QED  BY <1>4, <2>1 DEF Q
<1>6. QED  BY <1>1, <1>5

-----------------------------------------------------------------------------
(* Stakes below an account *)

Stakes == [Account -> Int]
Reach == 0..(Depth - 1)
Deltas == [0..Depth -> Int]
IntTally == [proxied : [Account -> [Reach -> Int]], votes : [Witness -> Int]]

(* Numbers within the depth. *)
LEMMA DepthRanges ==
  /\ Depth \in Nat /\ Depth > 0 /\ 0 \in Hop /\ 0 \in 0..Depth
  /\ \A i \in 0..Depth : i \in Hop /\ i + 1 \in Hop /\ i \in Nat /\ i <= Depth
  /\ \A k \in Reach : /\ k \in Nat /\ k < Depth /\ k \in 0..Depth /\ k + 1 \in 0..Depth /\ k + 1 \in Hop
                      /\ (k + 1) - 1 = k
  /\ \A i \in 0..Depth : i # 0 => i - 1 \in Reach /\ (i - 1) + 1 = i
  /\ IsFiniteSet(0..Depth) /\ IsFiniteSet(Reach) /\ IsFiniteSet(Hop)
<1>1. Depth \in Nat /\ Depth > 0 /\ Depth - 1 \in Int /\ Depth + 1 \in Int /\ 0 \in Int
  BY DepthAssumption
<1>2. IsFiniteSet(0..Depth) /\ IsFiniteSet(Reach) /\ IsFiniteSet(Hop)
  BY <1>1, FS_Interval DEF Reach, Hop
<1>3. QED  BY <1>1, <1>2 DEF Hop, Reach

(* What is below is a number, and none is negative if no stake is. *)
LEMMA BelowType ==
  ASSUME NEW prox, NEW v \in Stakes, NEW x, NEW i
  PROVE  /\ Below(prox, v, x, i) \in Int
         /\ (\A b \in Account : v[b] >= 0) => Below(prox, v, x, i) >= 0
<1> DEFINE S == {b \in Account : Hops(prox, b)[i] = x}
<1>1. IsFiniteSet(S) /\ \A b \in S : v[b] \in Int /\ b \in Account
  <2>1. S \in SUBSET Account
    OBVIOUS
  <2>2. QED  BY <2>1, FS_Subset, VoterAssumption DEF Stakes
<1> HIDE DEF S
<1>2. /\ SumFunctionOnSet(v, S) \in Int
      /\ (\A b \in S : v[b] >= 0) => SumFunctionOnSet(v, S) >= 0
  BY <1>1, SumType
<1>3. QED  BY <1>1, <1>2 DEF Below, S

(* No proxies away is the account itself. *)
LEMMA BelowSelf ==
  ASSUME NEW prox \in Proxies, NEW v \in Stakes, NEW x \in Account
  PROVE  Below(prox, v, x, 0) = v[x]
<1>1. \A b \in Account : Hops(prox, b)[0] = b
  BY HopsAre
<1>2. {b \in Account : Hops(prox, b)[0] = x} = {x}
  BY <1>1
<1>3. IsFiniteSet({x}) /\ v[x] \in Int
  BY FS_Singleton DEF Stakes
<1>4. SumFunctionOnSet(v, {x}) = v[x]
  BY <1>3, SumOne
<1>5. QED  BY <1>2, <1>4 DEF Below

Raised(v, a, n) == [v EXCEPT ![a] = @ + n]

(* A stake that changes changes what is below the proxies of its account. *)
LEMMA BelowStake ==
  ASSUME NEW prox \in Proxies, NEW v \in Stakes, NEW a \in Account, NEW n \in Int,
         NEW new, new = Raised(v, a, n), NEW x \in Account, NEW j \in Hop
  PROVE  /\ new \in Stakes
         /\ Below(prox, new, x, j) = Below(prox, v, x, j) + (IF Hops(prox, a)[j] = x THEN n ELSE 0)
<1> DEFINE S == {b \in Account : Hops(prox, b)[j] = x}
<1>0. new \in Stakes /\ new[a] = v[a] + n /\ v[a] \in Int /\ \A b \in Account \ {a} : new[b] = v[b]
  BY DEF Stakes, Raised
<1>1. IsFiniteSet(S) /\ \A b \in S : v[b] \in Int /\ b \in Account
  <2>1. S \in SUBSET Account
    OBVIOUS
  <2>2. QED  BY <2>1, FS_Subset, VoterAssumption DEF Stakes
<1>2. Below(prox, new, x, j) = SumFunctionOnSet(new, S) /\ Below(prox, v, x, j) = SumFunctionOnSet(v, S)
  BY DEF Below
<1>3. CASE Hops(prox, a)[j] = x
  <2>1. a \in S
    BY <1>3
  <2> HIDE DEF S
  <2>2. \A b \in S \ {a} : new[b] = v[b]
    BY <1>0, <1>1
  <2>3. new[a] \in Int /\ IsFiniteSet(S) /\ \A b \in S : v[b] \in Int
    BY <1>0, <1>1
  <2>4. /\ SumFunctionOnSet(v, S) \in Int
        /\ SumFunctionOnSet(new, S) = SumFunctionOnSet(v, S) + (new[a] - v[a])
    BY <2>1, <2>2, <2>3, SumChange
  <2>5. new[a] - v[a] = n
    BY <1>0
  <2>6. QED  BY <1>0, <1>2, <1>3, <2>4, <2>5
<1>4. CASE Hops(prox, a)[j] # x
  <2>1. a \notin S
    BY <1>4
  <2> HIDE DEF S
  <2>2. \A b \in S : new[b] = v[b]
    BY <1>0, <1>1, <2>1
  <2>3. SumFunctionOnSet(new, S) = SumFunctionOnSet(v, S)
    BY <1>1, <2>2, SumSame
  <2>4. Below(prox, v, x, j) \in Int
    BY BelowType
  <2>5. QED  BY <1>0, <1>2, <1>4, <2>3, <2>4
<1>5. QED  BY <1>3, <1>4

(* Without the proxy of a, what was below a is still below a ... *)
LEMMA BelowSame ==
  ASSUME NEW prox \in Proxies, Acyclic(prox), NEW a \in Account, NEW cut, cut = Cut(prox, a),
         NEW v \in Stakes, NEW i \in Hop
  PROVE  Below(cut, v, a, i) = Below(prox, v, a, i)
<1>1. ASSUME NEW b \in Account PROVE Hops(cut, b)[i] = a <=> Hops(prox, b)[i] = a
  <2>0. \A n \in Hop : Hops(cut, b)[n] = IF \E m \in 0..(n - 1) : Hops(prox, b)[m] = a
                                           THEN NoProxy ELSE Hops(prox, b)[n]
    BY HopsCut
  <2>1. Hops(cut, b)[i] = IF \E n \in 0..(i - 1) : Hops(prox, b)[n] = a THEN NoProxy ELSE Hops(prox, b)[i]
    BY <2>0
  <2>2. a # NoProxy
    BY VoterAssumption
  <2>3. ASSUME Hops(prox, b)[i] = a, NEW n \in 0..(i - 1), Hops(prox, b)[n] = a PROVE FALSE
    <3>1. n \in Hop /\ n # i
      BY DepthAssumption DEF Hop
    <3>2. QED  BY <2>3, <3>1, HopsOnce
  <2>4. QED  BY <2>1, <2>2, <2>3
<1>2. {b \in Account : Hops(cut, b)[i] = a} = {b \in Account : Hops(prox, b)[i] = a}
  BY <1>1
<1>3. QED  BY <1>2 DEF Below

(* ... and leaves the proxies above a. *)
LEMMA BelowCut ==
  ASSUME NEW prox \in Proxies, Acyclic(prox), NEW a \in Account, NEW cut, cut = Cut(prox, a),
         NEW v \in Stakes, NEW x \in Account, NEW k \in 0..Depth
  PROVE  Below(prox, v, x, k + 1) =
           Below(cut, v, x, k + 1)
             + SumFunctionOnSet([d \in 0..k |-> Below(prox, v, a, k - d)], {d \in 0..k : Hops(prox, a)[d + 1] = x})
<1> DEFINE Chain(b) == Hops(prox, b)
           S == {b \in Account : Chain(b)[k + 1] = x}
           S1 == {b \in S : \E i \in 0..k : Chain(b)[i] = a}
           A == {d \in 0..k : Hops(prox, a)[d + 1] = x}
<1>0. /\ k \in Nat /\ k + 1 \in Hop /\ (k + 1) - 1 = k
      /\ \A d \in 0..k : /\ d \in Nat /\ k - d \in 0..k /\ k - d \in Hop /\ d + 1 \in Nat
                         /\ (k - d) + (d + 1) = k + 1 /\ k - (k - d) = d
  BY DepthAssumption DEF Hop
<1>1. S \ S1 = {b \in Account : Hops(cut, b)[k + 1] = x}
  <2>1. ASSUME NEW b \in Account PROVE b \in S \ S1 <=> Hops(cut, b)[k + 1] = x
    <3>0. \A n \in Hop : Hops(cut, b)[n] = IF \E m \in 0..(n - 1) : Hops(prox, b)[m] = a
                                             THEN NoProxy ELSE Hops(prox, b)[n]
      BY HopsCut
    <3>1. Hops(cut, b)[k + 1] = IF \E i \in 0..((k + 1) - 1) : Hops(prox, b)[i] = a THEN NoProxy ELSE Hops(prox, b)[k + 1]
      BY <1>0, <3>0
    <3>2. x # NoProxy
      BY VoterAssumption
    <3>3. QED  BY <1>0, <3>1, <3>2
  <2>2. QED  BY <2>1
<1>2. IsFiniteSet(S) /\ IsFiniteSet(S1) /\ S1 \in SUBSET S /\ \A b \in S : v[b] \in Int
  <2>1. S \in SUBSET Account /\ S1 \in SUBSET S
    OBVIOUS
  <2>2. IsFiniteSet(S) /\ IsFiniteSet(S1)
    BY <2>1, FS_Subset, VoterAssumption
  <2>3. QED  BY <2>1, <2>2 DEF Stakes
<1>3. PICK own : own = [b \in S1 |-> CHOOSE d \in 0..k : Chain(b)[k - d] = a]
  OBVIOUS
<1>4. ASSUME NEW b \in S1 PROVE own[b] \in 0..k /\ Chain(b)[k - own[b]] = a
  <2>1. PICK i \in 0..k : Chain(b)[i] = a
    OBVIOUS
  <2>2. k - i \in 0..k /\ k - (k - i) = i
    BY <1>0
  <2>3. \E d \in 0..k : Chain(b)[k - d] = a
    BY <2>1, <2>2
  <2>4. own[b] = CHOOSE d \in 0..k : Chain(b)[k - d] = a
    BY <1>3
  <2>5. QED  BY <2>3, <2>4
<1>5. ASSUME NEW b \in Account, NEW d \in 0..k, Chain(b)[k - d] = a
      PROVE  Chain(b)[k + 1] = Hops(prox, a)[d + 1]
  <2>1. k - d \in Hop /\ d + 1 \in Nat /\ (k - d) + (d + 1) \in Hop /\ (k - d) + (d + 1) = k + 1
    BY <1>0
  <2>2. Hops(prox, b)[(k - d) + (d + 1)] = Hops(prox, a)[d + 1]
    BY <1>5, <2>1, HopsJoin
  <2>3. QED  BY <2>1, <2>2
<1>6. \A b \in S1 : own[b] \in A
  BY <1>4, <1>5
<1>7. PICK h : h = [d \in 0..k |-> Below(prox, v, a, k - d)]
  OBVIOUS
<1>8. ASSUME NEW d \in A PROVE h[d] = SumFunctionOnSet(v, {b \in S1 : own[b] = d})
  <2>1. ASSUME NEW b \in Account, Chain(b)[k - d] = a PROVE b \in S1 /\ own[b] = d
    <3>1. b \in S
      BY <1>5, <2>1
    <3>2. b \in S1
      BY <1>0, <2>1, <3>1
    <3>3. own[b] \in 0..k /\ Chain(b)[k - own[b]] = a
      BY <1>4, <3>2
    <3>4. k - own[b] \in Hop /\ k - d \in Hop
      BY <1>0, <3>3
    <3>5. k - own[b] = k - d
      BY <2>1, <3>3, <3>4, HopsOnce
    <3>6. QED  BY <1>0, <3>2, <3>3, <3>5
  <2>2. ASSUME NEW b \in S1, own[b] = d PROVE b \in Account /\ Chain(b)[k - d] = a
    BY <1>4, <2>2
  <2>3. {b \in S1 : own[b] = d} = {b \in Account : Chain(b)[k - d] = a}
    BY <2>1, <2>2
  <2>4. h[d] = Below(prox, v, a, k - d)
    BY <1>7
  <2>5. QED  BY <2>3, <2>4 DEF Below
<1>9. Shared(h, A, v, S1, own)
  BY <1>8 DEF Shared
<1>10. IsFiniteSet(A)
  <2>1. A \in SUBSET (0..k) /\ IsFiniteSet(0..k)
    BY <1>0, FS_Interval
  <2>2. QED  BY <2>1, FS_Subset
<1>11. \A b \in S1 : v[b] \in Int
  BY <1>2
<1> HIDE DEF S, S1, A
<1>12. SumFunctionOnSet(h, A) = SumFunctionOnSet(v, S1)
  BY <1>2, <1>6, <1>9, <1>10, <1>11, SumOwned
<1>13. /\ SumFunctionOnSet(v, S1) \in Int /\ SumFunctionOnSet(v, S) \in Int
       /\ SumFunctionOnSet(v, S \ S1) = SumFunctionOnSet(v, S) - SumFunctionOnSet(v, S1)
  BY <1>2, SumMinus
<1>14. Below(prox, v, x, k + 1) = SumFunctionOnSet(v, S) /\ Below(cut, v, x, k + 1) = SumFunctionOnSet(v, S \ S1)
  BY <1>1 DEF Below, S
<1>15. SumFunctionOnSet(v, S) = SumFunctionOnSet(v, S \ S1) + SumFunctionOnSet(v, S1)
  BY <1>13
<1>16. QED  BY <1>7, <1>12, <1>14, <1>15 DEF A

-----------------------------------------------------------------------------
(* The tallies *)

(* A sum with its signs changed. *)
LEMMA SumNegated ==
  ASSUME NEW f, NEW g, NEW S, IsFiniteSet(S), \A x \in S : f[x] \in Int /\ g[x] = -f[x]
  PROVE  SumFunctionOnSet(f, S) \in Int /\ SumFunctionOnSet(g, S) = -SumFunctionOnSet(f, S)
<1>1. PICK h : h = [x \in S |-> 0]
  OBVIOUS
<1>2. \A x \in S : f[x] \in Int /\ g[x] \in Int /\ h[x] \in Int /\ h[x] = f[x] + g[x] /\ h[x] = 0
  BY <1>1
<1>3. SumFunctionOnSet(h, S) = SumFunctionOnSet(f, S) + SumFunctionOnSet(g, S)
  BY <1>2, SumAdd
<1>4. SumFunctionOnSet(h, S) = 0 /\ SumFunctionOnSet(f, S) \in Int /\ SumFunctionOnSet(g, S) \in Int
  BY <1>2, SumType
<1>5. QED  BY <1>3, <1>4

(* What an account adds to its proxies, or votes with. *)
LEMMA StakeType ==
  ASSUME NEW v \in Stakes, NEW t \in IntTally, NEW x \in Account
  PROVE  /\ Stake(v, t, x) \in Deltas /\ Stake(v, t, x)[0] = v[x]
         /\ \A k \in Reach : Stake(v, t, x)[k + 1] = t.proxied[x][k]
         /\ witness_vote_weight(v, t, x) \in Int
         /\ witness_vote_weight(v, t, x) = SumFunctionOnSet(Stake(v, t, x), 0..Depth)
<1> DEFINE s == Stake(v, t, x)
           p == t.proxied[x]
<1>0. v[x] \in Int /\ p \in [Reach -> Int]
  BY DEF Stakes, IntTally
<1>1. ASSUME NEW i \in 0..Depth PROVE s[i] = (IF i = 0 THEN v[x] ELSE p[i - 1]) /\ s[i] \in Int
  <2>1. s[i] = IF i = 0 THEN v[x] ELSE p[i - 1]
    BY DEF Stake
  <2>2. i # 0 => i - 1 \in Reach
    BY DepthRanges
  <2>3. QED  BY <1>0, <2>1, <2>2
<1>2. s \in Deltas
  <2>1. s = [i \in 0..Depth |-> s[i]]
    BY DEF Stake
  <2>2. QED  BY <1>1, <2>1 DEF Deltas
<1>3. s[0] = v[x] /\ \A k \in Reach : s[k + 1] = p[k]
  <2>1. 0 \in 0..Depth /\ \A k \in Reach : k + 1 \in 0..Depth /\ k + 1 # 0 /\ (k + 1) - 1 = k
    BY DepthRanges
  <2>2. QED  BY <1>1, <2>1
<1>4. SumFunctionOnSet(s, 0..Depth) = s[0] + SumFunctionOnSet(s, (0..Depth) \ {0})
  <2>1. \A i \in 0..Depth : s[i] \in Int
    BY <1>1
  <2>2. PICK S : S = 0..Depth
    OBVIOUS
  <2>3. IsFiniteSet(S) /\ 0 \in S
    BY <2>2, DepthRanges
  <2> HIDE DEF s
  <2>4. \A i \in S : s[i] \in Int
    BY <2>1, <2>2
  <2>5. SumFunctionOnSet(s, S) = s[0] + SumFunctionOnSet(s, S \ {0})
    BY <2>3, <2>4, SumRemove
  <2>6. QED  BY <2>2, <2>5
<1>5. SumFunctionOnSet(s, (0..Depth) \ {0}) = SumFunctionOnSet(p, Reach)
  <2>1. PICK name : name = [k \in Reach |-> k + 1]
    OBVIOUS
  <2>2. \A k \in Reach : k \in Nat /\ name[k] = k + 1 /\ name[k] \in (0..Depth) \ {0} /\ p[k] \in Int
    BY <1>0, <2>1, DepthRanges
  <2>3. \A k, l \in Reach : name[k] = name[l] => k = l
    BY <2>2
  <2>4. ASSUME NEW i \in (0..Depth) \ {0} PROVE \E k \in Reach : name[k] = i /\ p[k] = s[i]
    <3>1. i - 1 \in Reach /\ (i - 1) + 1 = i /\ i \in 0..Depth
      BY DepthRanges
    <3>2. name[i - 1] = i /\ p[i - 1] = s[i]
      BY <1>3, <2>2, <3>1
    <3>3. QED  BY <3>1, <3>2
  <2>5. IsFiniteSet((0..Depth) \ {0}) /\ IsFiniteSet(Reach)
    BY DepthRanges, FS_Subset
  <2> HIDE DEF s, p
  <2>6. QED  BY <2>2, <2>3, <2>4, <2>5, SumRenamed
<1>6. witness_vote_weight(v, t, x) = v[x] + SumFunctionOnSet(p, Reach)
  BY DEF witness_vote_weight, Reach
<1>7. SumFunctionOnSet(p, Reach) \in Int
  BY <1>0, DepthRanges, SumType
<1>8. QED  BY <1>0, <1>2, <1>3, <1>4, <1>5, <1>6, <1>7

(* A chain passes its end once. *)
LEMMA RootOnce ==
  ASSUME NEW prox \in Proxies, NEW b \in Account, NEW x \in Account, prox[x] = NoProxy
  PROVE  /\ \A i, j \in Hop : Hops(prox, b)[i] = x /\ Hops(prox, b)[j] = x => i = j
<1>1. ASSUME NEW i \in Hop, NEW j \in Hop, i < j, Hops(prox, b)[i] = x, Hops(prox, b)[j] = x PROVE FALSE
  <2>1. i \in 0..Depth /\ i + 1 \in 0..j
    BY <1>1, DepthAssumption DEF Hop
  <2>2. x # NoProxy
    BY VoterAssumption
  <2>3. Hops(prox, b)[i + 1] = NoProxy
    BY <1>1, <2>1, <2>2, HopsAre
  <2>4. QED  BY <1>1, <2>1, <2>2, <2>3, HopsEnd
<1>2. \A i \in Hop : i \in Nat
  BY DEF Hop
<1>3. QED  BY <1>1, <1>2

(* What gets through to distance d within the depth. *)
Through(delta) == [d \in 0..Depth |-> SumFunctionOnSet(delta, 0..(Depth - d))]

(* At each distance x gains the delta that its own distance d from a leaves. *)
Gains(prox, a, delta, x, old, new) ==
  \A j \in 0..Depth :
    /\ (\A d \in 0..j : Hops(prox, a)[d] # x) => new[j] = old[j]
    /\ \A d \in 0..j : Hops(prox, a)[d] = x => new[j] = old[j] + delta[j - d]

(* The end of a chain gains, over all distances, what gets through to it. *)
LEMMA RootGains ==
  ASSUME NEW prox \in Proxies, NEW a \in Account, NEW x \in Account, prox[x] = NoProxy,
         NEW delta \in Deltas, NEW old \in Deltas, NEW new \in Deltas,
         Gains(prox, a, delta, x, old, new)
  PROVE  /\ SumFunctionOnSet(old, 0..Depth) \in Int
         /\ SumFunctionOnSet(Through(delta), {d \in 0..Depth : Hops(prox, a)[d] = x}) \in Int
         /\ SumFunctionOnSet(new, 0..Depth) =
              SumFunctionOnSet(old, 0..Depth)
                + SumFunctionOnSet(Through(delta), {d \in 0..Depth : Hops(prox, a)[d] = x})
<1> DEFINE hop == Hops(prox, a)
           D == {d \in 0..Depth : hop[d] = x}
           R == 0..Depth
<1>0. /\ IsFiniteSet(R) /\ Depth \in Nat
      /\ \A i \in R : delta[i] \in Int /\ old[i] \in Int /\ new[i] \in Int /\ i \in Nat /\ i <= Depth /\ i \in Hop
  BY DepthRanges DEF Deltas
<1>1. SumFunctionOnSet(old, R) \in Int
  BY <1>0, SumType
<1>2. CASE D = {}
  <2>1. ASSUME NEW j \in R PROVE new[j] = old[j]
    <3>1. \A d \in 0..j : d \in 0..Depth
      BY <1>0
    <3>2. \A d \in 0..j : hop[d] # x
      BY <1>2, <3>1
    <3>3. QED  BY <3>2 DEF Gains
  <2>2. SumFunctionOnSet(new, R) = SumFunctionOnSet(old, R)
    BY <1>0, <2>1, SumSame
  <2>3. SumFunctionOnSet(Through(delta), {}) = 0
    BY SumEmpty
  <2>4. SumFunctionOnSet(Through(delta), D) = 0
    BY <1>2, <2>3
  <2> HIDE DEF D
  <2>5. /\ SumFunctionOnSet(Through(delta), D) \in Int
        /\ SumFunctionOnSet(new, R) = SumFunctionOnSet(old, R) + SumFunctionOnSet(Through(delta), D)
    BY <1>1, <2>2, <2>4
  <2>6. QED  BY <1>1, <2>5 DEF D
<1>3. ASSUME NEW z \in D
      PROVE  /\ SumFunctionOnSet(Through(delta), D) \in Int
             /\ SumFunctionOnSet(new, R) = SumFunctionOnSet(old, R) + SumFunctionOnSet(Through(delta), D)
  <2>0. z \in R /\ z \in Nat /\ z <= Depth /\ hop[z] = x
    BY <1>0
  <2>1. D = {z}
    <3>1. \A d \in D : d \in Hop /\ z \in Hop /\ hop[d] = x /\ hop[z] = x
      BY <1>0
    <3>2. \A d \in D : d = z
      BY <3>1, RootOnce
    <3>3. QED  BY <3>2
  <2>2. PICK g : g = [j \in R |-> IF j >= z THEN delta[j - z] ELSE 0]
    OBVIOUS
  <2>3. ASSUME NEW j \in R PROVE g[j] \in Int /\ new[j] = old[j] + g[j] /\ (j < z => g[j] = 0)
    <3>1. CASE j >= z
      <4>1. z \in 0..j /\ j - z \in R /\ ~(j < z)
        BY <1>0, <2>0, <3>1
      <4>2. g[j] = delta[j - z] /\ new[j] = old[j] + delta[j - z]
        BY <2>0, <2>2, <3>1, <4>1 DEF Gains
      <4>3. QED  BY <1>0, <4>1, <4>2
    <3>2. CASE ~(j >= z)
      <4>1. g[j] = 0
        BY <2>2, <3>2
      <4>2. ASSUME NEW d \in 0..j PROVE hop[d] # x
        <5>1. d \in R /\ d # z
          BY <1>0, <2>0, <3>2
        <5>2. QED  BY <2>1, <5>1
      <4>3. new[j] = old[j]
        BY <4>2 DEF Gains
      <4>4. QED  BY <1>0, <4>1, <4>3
    <3>3. QED  BY <3>1, <3>2
  <2>4. SumFunctionOnSet(new, R) = SumFunctionOnSet(old, R) + SumFunctionOnSet(g, R)
    <3>1. IsFiniteSet(R) /\ \A j \in R : old[j] \in Int /\ g[j] \in Int /\ new[j] = old[j] + g[j]
      BY <1>0, <2>3
    <3> HIDE DEF R
    <3>2. QED  BY <3>1, SumAdd
  <2> DEFINE L == 0..(z - 1)
             U == z..Depth
             T == 0..(Depth - z)
  <2>5. /\ IsFiniteSet(L) /\ IsFiniteSet(U) /\ IsFiniteSet(T) /\ L \cap U = {} /\ L \cup U = R
        /\ \A j \in L \cup U : g[j] \in Int
    <3>1. z - 1 \in Int /\ Depth - z \in Int /\ z \in Int /\ Depth \in Int /\ 0 \in Int
      BY <1>0, <2>0
    <3>2. IsFiniteSet(L) /\ IsFiniteSet(U) /\ IsFiniteSet(T)
      BY <3>1, FS_Interval
    <3>3. L \cap U = {} /\ L \cup U = R
      BY <1>0, <2>0
    <3>4. QED  BY <2>3, <3>2, <3>3
  <2>6. SumFunctionOnSet(g, R) = SumFunctionOnSet(g, L) + SumFunctionOnSet(g, U)
    <3>1. SumFunctionOnSet(g, L \cup U) = SumFunctionOnSet(g, L) + SumFunctionOnSet(g, U)
      BY <2>5, SumUnion
    <3>2. QED  BY <2>5, <3>1
  <2>7. SumFunctionOnSet(g, L) = 0
    <3>1. ASSUME NEW j \in L PROVE g[j] \in Int /\ g[j] = 0
      <4>1. j \in R /\ j < z
        BY <1>0, <2>0
      <4>2. QED  BY <2>3, <4>1
    <3>2. QED  BY <2>5, <3>1, SumType
  <2>8. SumFunctionOnSet(delta, T) = SumFunctionOnSet(g, U)
    <3>1. PICK name : name = [j \in U |-> j - z]
      OBVIOUS
    <3>2. \A j \in U : j \in R /\ j >= z /\ j \in Int /\ name[j] = j - z /\ name[j] \in T /\ g[j] = delta[j - z] /\ g[j] \in Int
      BY <1>0, <2>0, <2>2, <2>3, <3>1
    <3>3. \A j, k \in U : name[j] = name[k] => j = k
      BY <2>0, <3>2
    <3>4. ASSUME NEW i \in T PROVE \E j \in U : name[j] = i /\ g[j] = delta[i]
      <4>1. PICK j : j = i + z
        OBVIOUS
      <4>2. j \in U /\ j - z = i
        BY <1>0, <2>0, <4>1
      <4>3. name[j] = i /\ g[j] = delta[i]
        BY <3>2, <4>2
      <4>4. QED  BY <4>2, <4>3
    <3> HIDE DEF T, U
    <3>5. IsFiniteSet(T) /\ IsFiniteSet(U) /\ \A j \in U : g[j] \in Int
      BY <2>5, <3>2
    <3>6. \A j \in U : name[j] \in T
      BY <3>2
    <3>7. QED  BY <3>3, <3>4, <3>5, <3>6, SumRenamed
  <2>9. Through(delta)[z] = SumFunctionOnSet(delta, T)
    BY <2>0 DEF Through
  <2>10. SumFunctionOnSet(g, U) \in Int /\ SumFunctionOnSet(g, L) \in Int
    BY <2>5, SumType
  <2>11. SumFunctionOnSet(Through(delta), {z}) = Through(delta)[z]
    <3>1. Through(delta)[z] \in Int /\ IsFiniteSet({z})
      BY <2>8, <2>9, <2>10, FS_Singleton
    <3>2. QED  BY <3>1, SumOne
  <2> HIDE DEF L, U, T
  <2>12. SumFunctionOnSet(Through(delta), D) = SumFunctionOnSet(g, U)
    BY <2>1, <2>8, <2>9, <2>11
  <2>13. SumFunctionOnSet(g, R) = SumFunctionOnSet(g, U)
    BY <2>6, <2>7, <2>10
  <2>14. QED  BY <2>4, <2>10, <2>12, <2>13
<1>4. QED  BY <1>1, <1>2, <1>3

(* Each voter for w gains what gets through to it. *)
Follows(prox, a, cast, w, delta, old, new) ==
  \A x \in Voters(prox, cast, w) :
    /\ old[x] \in Int
    /\ new[x] = old[x] + SumFunctionOnSet(Through(delta), {d \in 0..Depth : Hops(prox, a)[d] = x})

(* The votes counted follow the weights of those who cast them. *)
LEMMA VotesFollow ==
  ASSUME NEW prox \in Proxies, NEW a \in Account, NEW cast, NEW w, NEW delta \in Deltas, NEW old, NEW new,
         Follows(prox, a, cast, w, delta, old, new)
  PROVE  LET D == {d \in RootDepths(Hops(prox, a)) : <<Hops(prox, a)[d], w>> \in cast}
         IN  /\ SumFunctionOnSet(Through(delta), D) \in Int
             /\ SumFunctionOnSet(old, Voters(prox, cast, w)) \in Int
             /\ SumFunctionOnSet(new, Voters(prox, cast, w)) =
                  SumFunctionOnSet(old, Voters(prox, cast, w)) + SumFunctionOnSet(Through(delta), D)
<1> DEFINE hop == Hops(prox, a)
           D == {d \in RootDepths(hop) : <<hop[d], w>> \in cast}
           V == Voters(prox, cast, w)
           F == Through(delta)
<1>1. IsFiniteSet(V) /\ \A x \in V : x \in Account /\ prox[x] = NoProxy /\ <<x, w>> \in cast
  <2>1. V \in SUBSET Account
    BY DEF Voters
  <2>2. QED  BY <2>1, FS_Subset, VoterAssumption DEF Voters
<1>2. \A d \in 0..Depth : F[d] \in Int
  <2> SUFFICES ASSUME NEW d \in 0..Depth PROVE F[d] \in Int
    OBVIOUS
  <2>1. F[d] = SumFunctionOnSet(delta, 0..(Depth - d))
    BY DEF Through
  <2>2. IsFiniteSet(0..(Depth - d)) /\ \A i \in 0..(Depth - d) : delta[i] \in Int
    <3>1. Depth \in Nat /\ d \in Nat /\ d <= Depth /\ 0 \in Int /\ Depth - d \in Int
      BY DepthRanges
    <3>2. \A i \in 0..(Depth - d) : i \in 0..Depth
      BY <3>1
    <3>3. QED  BY <3>1, <3>2, FS_Interval DEF Deltas
  <2>3. QED  BY <2>1, <2>2, SumType
<1>3. D \in SUBSET (0..Depth) /\ IsFiniteSet(D)
  <2>1. D \in SUBSET (0..Depth)
    BY DEF RootDepths
  <2>2. QED  BY <2>1, DepthRanges, FS_Subset
<1>4. PICK own : own = [d \in D |-> hop[d]]
  OBVIOUS
<1>5. ASSUME NEW d \in D PROVE own[d] \in V
  <2>1. d \in 0..Depth /\ hop[d] # NoProxy /\ hop[d + 1] = NoProxy /\ <<hop[d], w>> \in cast /\ d \in Hop
    BY DepthRanges DEF RootDepths
  <2>2. hop[d] \in Account /\ prox[hop[d]] = NoProxy
    BY <2>1, HopsAre
  <2>3. own[d] = hop[d]
    BY <1>4
  <2>4. QED  BY <2>1, <2>2, <2>3 DEF Voters
<1>6. PICK h : h = [x \in V |-> SumFunctionOnSet(F, {d \in 0..Depth : hop[d] = x})]
  OBVIOUS
<1>7. ASSUME NEW x \in V PROVE h[x] = SumFunctionOnSet(F, {d \in D : own[d] = x})
  <2>1. ASSUME NEW d \in 0..Depth, hop[d] = x PROVE d \in D /\ own[d] = x
    <3>1. x # NoProxy /\ prox[x] = NoProxy /\ <<x, w>> \in cast
      BY <1>1, VoterAssumption
    <3>2. hop[d + 1] = NoProxy
      BY <2>1, <3>1, HopsAre
    <3>3. d \in D
      BY <2>1, <3>1, <3>2 DEF RootDepths
    <3>4. QED  BY <1>4, <2>1, <3>3
  <2>2. ASSUME NEW d \in D, own[d] = x PROVE d \in 0..Depth /\ hop[d] = x
    BY <1>3, <1>4, <2>2
  <2>3. {d \in 0..Depth : hop[d] = x} = {d \in D : own[d] = x}
    BY <2>1, <2>2
  <2>4. QED  BY <1>6, <2>3
<1>8. Shared(h, V, F, D, own)
  BY <1>7 DEF Shared
<1> HIDE DEF D, V, F
<1>9. SumFunctionOnSet(h, V) = SumFunctionOnSet(F, D)
  <2>1. \A d \in D : F[d] \in Int
    BY <1>2, <1>3
  <2>2. IsFiniteSet(V) /\ IsFiniteSet(D) /\ \A d \in D : own[d] \in V
    BY <1>1, <1>3, <1>5
  <2>3. QED  BY <1>8, <2>1, <2>2, SumOwned
<1>10. \A x \in V : old[x] \in Int /\ h[x] \in Int /\ new[x] = old[x] + h[x]
  <2> SUFFICES ASSUME NEW x \in V PROVE old[x] \in Int /\ h[x] \in Int /\ new[x] = old[x] + h[x]
    OBVIOUS
  <2>1. h[x] = SumFunctionOnSet(F, {d \in 0..Depth : hop[d] = x})
    BY <1>6
  <2>2. old[x] \in Int /\ new[x] = old[x] + SumFunctionOnSet(F, {d \in 0..Depth : hop[d] = x})
    BY DEF V, F, Follows
  <2>3. {d \in 0..Depth : hop[d] = x} \in SUBSET (0..Depth)
    OBVIOUS
  <2>4. IsFiniteSet({d \in 0..Depth : hop[d] = x})
    BY <2>3, DepthRanges, FS_Subset
  <2>5. SumFunctionOnSet(F, {d \in 0..Depth : hop[d] = x}) \in Int
    BY <1>2, <2>4, SumType
  <2>6. QED  BY <2>1, <2>2, <2>5
<1>11. SumFunctionOnSet(new, V) = SumFunctionOnSet(old, V) + SumFunctionOnSet(h, V)
  BY <1>1, <1>10, SumAdd
<1>12. SumFunctionOnSet(old, V) \in Int /\ SumFunctionOnSet(F, D) \in Int
  <2>1. \A d \in D : F[d] \in Int
    BY <1>2, <1>3
  <2>2. QED  BY <1>1, <1>3, <1>10, <2>1, SumType
<1>13. QED  BY <1>9, <1>11, <1>12 DEF D, V, F

(* What the proxy x gains of the stakes k proxies below it. *)
Lift(prox, a, delta, x, k) ==
  SumFunctionOnSet([d \in 0..k |-> delta[k - d]], {d \in 0..k : Hops(prox, a)[d + 1] = x})

(* A single distance at which x is reached decides. *)
LEMMA LiftIs ==
  ASSUME NEW prox \in Proxies, NEW a \in Account, NEW delta \in Deltas, NEW x, NEW k \in Reach
  PROVE  /\ Lift(prox, a, delta, x, k) \in Int
         /\ (\A d \in 0..k : Hops(prox, a)[d + 1] # x) => Lift(prox, a, delta, x, k) = 0
         /\ \A z \in 0..k : Hops(prox, a)[z + 1] = x /\ (\A d \in 0..k : Hops(prox, a)[d + 1] = x => d = z)
                              => Lift(prox, a, delta, x, k) = delta[k - z]
<1> DEFINE D == {d \in 0..k : Hops(prox, a)[d + 1] = x}
<1>1. PICK f : f = [d \in 0..k |-> delta[k - d]]
  OBVIOUS
<1>2. k \in Nat /\ k <= Depth /\ Depth \in Nat
  BY DepthRanges
<1>3. \A d \in 0..k : f[d] = delta[k - d] /\ f[d] \in Int
  <2>1. \A d \in 0..k : k - d \in 0..Depth
    BY <1>2
  <2>2. QED  BY <1>1, <2>1 DEF Deltas
<1>4. IsFiniteSet(D) /\ D \in SUBSET (0..k)
  <2>1. D \in SUBSET (0..k) /\ IsFiniteSet(0..k)
    BY <1>2, FS_Interval
  <2>2. QED  BY <2>1, FS_Subset
<1>5. Lift(prox, a, delta, x, k) = SumFunctionOnSet(f, D)
  BY <1>1 DEF Lift
<1>6. ASSUME \A d \in 0..k : Hops(prox, a)[d + 1] # x PROVE SumFunctionOnSet(f, D) = 0
  <2>1. D = {}
    BY <1>6
  <2>2. QED  BY <2>1, SumEmpty
<1>7. ASSUME NEW z \in 0..k, Hops(prox, a)[z + 1] = x, \A d \in 0..k : Hops(prox, a)[d + 1] = x => d = z
      PROVE  SumFunctionOnSet(f, D) = delta[k - z]
  <2>1. D = {z}
    BY <1>7
  <2>2. IsFiniteSet({z}) /\ f[z] \in Int
    BY <1>3, FS_Singleton
  <2>3. SumFunctionOnSet(f, {z}) = f[z]
    BY <2>2, SumOne
  <2>4. QED  BY <1>3, <2>1, <2>3
<1>8. SumFunctionOnSet(f, D) \in Int
  <2>1. \A d \in D : f[d] \in Int
    BY <1>3, <1>4
  <2>2. QED  BY <1>4, <2>1, SumType
<1> HIDE DEF D
<1>9. QED  BY <1>5, <1>6, <1>7, <1>8

(* adjust_proxied_witness_votes() as it is stated. *)
LEMMA AdjustedIs ==
  ASSUME NEW t, NEW prox, NEW cast, NEW a, NEW delta
  PROVE  /\ \A x \in Account, k \in Reach :
              Adjusted(t, prox, cast, a, delta).proxied[x][k] = t.proxied[x][k] + Lift(prox, a, delta, x, k)
         /\ \A w \in Witness :
              Adjusted(t, prox, cast, a, delta).votes[w] =
                t.votes[w] +
                        SumFunctionOnSet(Through(delta), {d \in RootDepths(Hops(prox, a)) : <<Hops(prox, a)[d], w>> \in cast})
         /\ Adjusted(t, prox, cast, a, delta) =
              [proxied |-> [x \in Account |-> [k \in Reach |-> Adjusted(t, prox, cast, a, delta).proxied[x][k]]],
               votes |-> [w \in Witness |-> Adjusted(t, prox, cast, a, delta).votes[w]]]
BY DEF Adjusted, Lift, Through, Reach

(* The weight of x after an adjustment. *)
LEMMA WeightGains ==
  ASSUME NEW prox \in Proxies, NEW a \in Account, NEW delta \in Deltas, NEW x \in Account, prox[x] = NoProxy,
         NEW old \in Deltas, NEW new \in Deltas,
         new[0] = old[0] + (IF x = a THEN delta[0] ELSE 0),
         x = a => \A i \in 1..Depth : delta[i] = 0,
         \A k \in Reach : new[k + 1] = old[k + 1] + Lift(prox, a, delta, x, k)
  PROVE  /\ SumFunctionOnSet(old, 0..Depth) \in Int
         /\ SumFunctionOnSet(Through(delta), {d \in 0..Depth : Hops(prox, a)[d] = x}) \in Int
         /\ SumFunctionOnSet(new, 0..Depth) =
              SumFunctionOnSet(old, 0..Depth)
                + SumFunctionOnSet(Through(delta), {d \in 0..Depth : Hops(prox, a)[d] = x})
<1> DEFINE hop == Hops(prox, a)
<1>0. hop[0] = a /\ \A i \in 0..Depth : old[i] \in Int /\ new[i] \in Int /\ delta[i] \in Int
  BY HopsAre DEF Deltas
<1>a. \A d, e \in Hop : hop[d] = x /\ hop[e] = x => d = e
  BY RootOnce
<1>1. ASSUME NEW j \in 0..Depth, \A d \in 0..j : hop[d] # x PROVE new[j] = old[j]
  <2>1. CASE j = 0
    <3>1. 0 \in 0..j
      BY <2>1
    <3>2. x # a
      BY <1>0, <1>1, <3>1
    <3>3. QED  BY <1>0, <2>1, <3>2, DepthRanges
  <2>2. CASE j # 0
    <3>1. PICK k \in Reach : j = k + 1
      BY <2>2, DepthRanges
    <3>2. \A d \in 0..k : d + 1 \in 0..j
      BY <3>1, DepthRanges
    <3>3. \A d \in 0..k : hop[d + 1] # x
      BY <1>1, <3>2
    <3>4. Lift(prox, a, delta, x, k) = 0
      BY <3>3, LiftIs
    <3>5. QED  BY <1>0, <3>1, <3>4
  <2>3. QED  BY <2>1, <2>2
<1>2. ASSUME NEW j \in 0..Depth, NEW d \in 0..j, hop[d] = x PROVE new[j] = old[j] + delta[j - d]
  <2>0. j \in Nat /\ d \in Nat /\ d <= j /\ j <= Depth /\ d \in Hop
    BY DepthRanges DEF Hop
  <2>1. CASE j = 0
    <3>1. d = 0
      BY <2>0, <2>1
    <3>2. x = a /\ 0 - 0 = 0
      BY <1>0, <1>2, <3>1
    <3>3. QED  BY <2>1, <3>1, <3>2
  <2>2. CASE j # 0
    <3>1. PICK k \in Reach : j = k + 1
      BY <2>2, DepthRanges
    <3>2. k \in Nat /\ new[j] = old[j] + Lift(prox, a, delta, x, k)
      BY <3>1, DepthRanges
    <3>3. CASE d = 0
      <4>1. x = a
        BY <1>0, <1>2, <3>3
      <4>2. ASSUME NEW e \in 0..k PROVE hop[e + 1] # x
        <5>1. e + 1 \in Hop /\ e + 1 # d
          BY <2>0, <3>1, <3>3, DepthRanges DEF Hop
        <5>2. QED  BY <1>2, <1>a, <2>0, <5>1
      <4>3. Lift(prox, a, delta, x, k) = 0
        BY <4>2, LiftIs
      <4>4. j - d \in 1..Depth
        BY <2>0, <2>2, <3>3
      <4>5. QED  BY <3>2, <4>1, <4>3, <4>4
    <3>4. CASE d # 0
      <4>1. PICK z \in 0..k : d = z + 1
        <5>1. d - 1 \in 0..k /\ d = (d - 1) + 1
          BY <2>0, <3>1, <3>2, <3>4
        <5>2. QED  BY <5>1
      <4>2. ASSUME NEW e \in 0..k, hop[e + 1] = x PROVE e = z
        <5>1. e + 1 \in Hop
          BY <2>0, <3>1, DepthRanges DEF Hop
        <5>2. e + 1 = z + 1
          BY <1>2, <1>a, <2>0, <4>1, <4>2, <5>1
        <5>3. QED  BY <3>2, <5>2
      <4>3. Lift(prox, a, delta, x, k) = delta[k - z]
        BY <1>2, <4>1, <4>2, LiftIs
      <4>4. k - z = j - d
        BY <2>0, <3>1, <3>2, <4>1
      <4>5. QED  BY <3>2, <4>3, <4>4
    <3>5. QED  BY <3>3, <3>4
  <2>3. QED  BY <2>1, <2>2
<1>3. Gains(prox, a, delta, x, old, new)
  BY <1>1, <1>2 DEF Gains
<1>4. QED  BY <1>3, RootGains

(* An adjustment along the proxies prox takes the tallies of one state to    *)
(* those of the next when what is below each account changes by what the     *)
(* adjustment adds, and the votes are cast by the same accounts.             *)
LEMMA Shifted ==
  ASSUME NEW prox \in Proxies, NEW p0 \in Proxies, NEW p1 \in Proxies, NEW v0 \in Stakes, NEW v1 \in Stakes,
         NEW cast, NEW t \in IntTally, Tallied(p0, v0, cast, t), NEW a \in Account, NEW delta \in Deltas,
         \A x \in Account, k \in Reach :
           Below(p1, v1, x, k + 1) = Below(p0, v0, x, k + 1) + Lift(prox, a, delta, x, k),
         \A w \in Witness : /\ Voters(p0, cast, w) = Voters(prox, cast, w)
                            /\ Voters(p1, cast, w) = Voters(prox, cast, w),
         \A w \in Witness : \A x \in Voters(prox, cast, w) :
           /\ v1[x] = v0[x] + (IF x = a THEN delta[0] ELSE 0)
           /\ x = a => \A i \in 1..Depth : delta[i] = 0
  PROVE  /\ Adjusted(t, prox, cast, a, delta) \in IntTally
         /\ Tallied(p1, v1, cast, Adjusted(t, prox, cast, a, delta))
<1>1. PICK t1 : t1 = Adjusted(t, prox, cast, a, delta)
  OBVIOUS
<1>2. ASSUME NEW x \in Account, NEW k \in Reach
      PROVE  /\ t1.proxied[x][k] = Below(p1, v1, x, k + 1) /\ t1.proxied[x][k] \in Int
             /\ t1.proxied[x][k] = t.proxied[x][k] + Lift(prox, a, delta, x, k)
  <2>1. t1.proxied[x][k] = t.proxied[x][k] + Lift(prox, a, delta, x, k)
    BY <1>1, AdjustedIs
  <2>2. t.proxied[x][k] = Below(p0, v0, x, k + 1)
    BY DEF Tallied, Reach
  <2>3. Below(p1, v1, x, k + 1) \in Int
    BY BelowType
  <2>4. QED  BY <2>1, <2>2, <2>3
<1>3. ASSUME NEW w \in Witness
      PROVE  /\ t1.votes[w] = t.votes[w] +
              SumFunctionOnSet(Through(delta), {d \in RootDepths(Hops(prox, a)) : <<Hops(prox, a)[d], w>> \in cast})
             /\ t1.votes[w] \in Int
  <2> DEFINE D == {d \in RootDepths(Hops(prox, a)) : <<Hops(prox, a)[d], w>> \in cast}
  <2>1. t1.votes[w] = t.votes[w] + SumFunctionOnSet(Through(delta), D)
    BY <1>1, AdjustedIs
  <2>2. t.votes[w] \in Int
    BY DEF IntTally
  <2>3. D \in SUBSET (0..Depth)
    BY DEF RootDepths
  <2>4. IsFiniteSet(D)
    BY <2>3, DepthRanges, FS_Subset
  <2>5. ASSUME NEW d \in D PROVE Through(delta)[d] \in Int
    <3>0. d \in 0..Depth
      BY <2>3
    <3>1. Depth \in Nat /\ d \in Nat /\ d <= Depth /\ d \in 0..Depth /\ 0 \in Int /\ Depth - d \in Int
      BY <3>0, DepthAssumption
    <3>2. Through(delta)[d] = SumFunctionOnSet(delta, 0..(Depth - d))
      BY <3>1 DEF Through
    <3>3. \A i \in 0..(Depth - d) : i \in 0..Depth
      BY <3>1
    <3>4. IsFiniteSet(0..(Depth - d)) /\ \A i \in 0..(Depth - d) : delta[i] \in Int
      BY <3>1, <3>3, FS_Interval DEF Deltas
    <3>5. QED  BY <3>2, <3>4, SumType
  <2> HIDE DEF D
  <2>6. SumFunctionOnSet(Through(delta), D) \in Int
    BY <2>4, <2>5, SumType
  <2>7. QED  BY <2>1, <2>2, <2>6 DEF D
<1>4. t1 \in IntTally
  <2>1. t1 = [proxied |-> [x \in Account |-> [k \in Reach |-> t1.proxied[x][k]]], votes |-> [w \in Witness |-> t1.votes[w]]]
    BY <1>1, AdjustedIs
  <2>2. [x \in Account |-> [k \in Reach |-> t1.proxied[x][k]]] \in [Account -> [Reach -> Int]]
    BY <1>2
  <2>3. [w \in Witness |-> t1.votes[w]] \in [Witness -> Int]
    BY <1>3
  <2>4. QED  BY <2>1, <2>2, <2>3 DEF IntTally
<1>5. ASSUME NEW w \in Witness
      PROVE  t1.votes[w] = SumFunctionOnSet([x \in Account |-> witness_vote_weight(v1, t1, x)], Voters(p1, cast, w))
  <2> DEFINE V == Voters(prox, cast, w)
  <2>1. PICK old : old = [x \in Account |-> witness_vote_weight(v0, t, x)]
    OBVIOUS
  <2>2. PICK new : new = [x \in Account |-> witness_vote_weight(v1, t1, x)]
    OBVIOUS
  <2>3. t.votes[w] = SumFunctionOnSet(old, V)
    BY <2>1 DEF Tallied
  <2>4. ASSUME NEW x \in V
        PROVE  /\ old[x] \in Int
               /\ new[x] = old[x] + SumFunctionOnSet(Through(delta), {d \in 0..Depth : Hops(prox, a)[d] = x})
    <3>1. x \in Account /\ prox[x] = NoProxy
      BY DEF Voters
    <3>2. PICK s0 \in Deltas : s0 = Stake(v0, t, x)
      BY <3>1, StakeType
    <3>3. PICK s1 \in Deltas : s1 = Stake(v1, t1, x)
      BY <1>4, <3>1, StakeType
    <3>4. s0[0] = v0[x] /\ s1[0] = v1[x]
      BY <1>4, <3>1, <3>2, <3>3, StakeType
    <3>5. \A k \in Reach : s0[k + 1] = t.proxied[x][k] /\ s1[k + 1] = t1.proxied[x][k]
      BY <1>4, <3>1, <3>2, <3>3, StakeType
    <3>6. \A k \in Reach : s1[k + 1] = s0[k + 1] + Lift(prox, a, delta, x, k)
      BY <1>2, <3>1, <3>5
    <3>7. old[x] = SumFunctionOnSet(s0, 0..Depth) /\ new[x] = SumFunctionOnSet(s1, 0..Depth)
      BY <1>4, <2>1, <2>2, <3>1, <3>2, <3>3, StakeType
    <3>8. s1[0] = s0[0] + (IF x = a THEN delta[0] ELSE 0)
      BY <3>4
    <3>9. x = a => \A i \in 1..Depth : delta[i] = 0
      OBVIOUS
    <3>10. /\ SumFunctionOnSet(s0, 0..Depth) \in Int
           /\ SumFunctionOnSet(s1, 0..Depth) =
                SumFunctionOnSet(s0, 0..Depth)
                  + SumFunctionOnSet(Through(delta), {d \in 0..Depth : Hops(prox, a)[d] = x})
      BY <3>1, <3>6, <3>8, <3>9, WeightGains
    <3>11. QED  BY <3>7, <3>10
  <2>5. SumFunctionOnSet(new, V) =
          SumFunctionOnSet(old, V) +
                  SumFunctionOnSet(Through(delta), {d \in RootDepths(Hops(prox, a)) : <<Hops(prox, a)[d], w>> \in cast})
    <3>1. Follows(prox, a, cast, w, delta, old, new)
      BY <2>4 DEF Follows
    <3>2. QED  BY <3>1, VotesFollow
  <2>6. QED  BY <1>3, <2>2, <2>3, <2>5
<1>6. Tallied(p1, v1, cast, t1)
  BY <1>2, <1>5 DEF Tallied, Reach
<1>7. QED  BY <1>1, <1>4, <1>6

(* What is taken along is what is below. *)
LEMMA StakeIsBelow ==
  ASSUME NEW prox \in Proxies, NEW v \in Stakes, NEW cast, NEW t \in IntTally, Tallied(prox, v, cast, t),
         NEW x \in Account
  PROVE  \A i \in 0..Depth : Stake(v, t, x)[i] = Below(prox, v, x, i)
<1> SUFFICES ASSUME NEW i \in 0..Depth PROVE Stake(v, t, x)[i] = Below(prox, v, x, i)
  OBVIOUS
<1>1. CASE i = 0
  BY <1>1, StakeType, BelowSelf
<1>2. CASE i # 0
  <2>1. PICK k \in Reach : i = k + 1
    BY <1>2, DepthRanges
  <2>2. Stake(v, t, x)[k + 1] = t.proxied[x][k]
    BY StakeType
  <2>3. t.proxied[x][k] = Below(prox, v, x, k + 1)
    BY DEF Tallied, Reach
  <2>4. QED  BY <2>1, <2>2, <2>3
<1>3. QED  BY <1>1, <1>2

(* A stake that changes: its proxies, and the end of the chain, follow. *)
LEMMA TalliedStake ==
  ASSUME NEW prox \in Proxies, NEW v \in Stakes, NEW cast, NEW t \in IntTally, Tallied(prox, v, cast, t),
         NEW a \in Account, NEW n \in Int
  PROVE  /\ Adjusted(t, prox, cast, a, Own(n)) \in IntTally
         /\ Tallied(prox, Raised(v, a, n), cast, Adjusted(t, prox, cast, a, Own(n)))
<1>0. Raised(v, a, n) \in Stakes /\ Own(n) \in Deltas
  <2>1. Raised(v, a, n) \in Stakes
    BY DEF Raised, Stakes
  <2>2. \A i \in 0..Depth : (IF i = 0 THEN n ELSE 0) \in Int
    OBVIOUS
  <2>3. Own(n) \in Deltas
    BY <2>2 DEF Own, Deltas
  <2>4. QED  BY <2>1, <2>3
<1>1. PICK new \in Stakes : new = Raised(v, a, n)
  BY <1>0
<1>2. PICK delta \in Deltas : delta = Own(n)
  BY <1>0
<1>3. delta[0] = n /\ \A i \in 0..Depth : i # 0 => delta[i] = 0
  BY <1>2, DepthRanges DEF Own
<1>4. ASSUME NEW x \in Account, NEW k \in Reach
      PROVE  Below(prox, new, x, k + 1) = Below(prox, v, x, k + 1) + Lift(prox, a, delta, x, k)
  <2> DEFINE D == {d \in 0..k : Hops(prox, a)[d + 1] = x}
  <2>1. PICK f : f = [d \in 0..k |-> delta[k - d]]
    OBVIOUS
  <2>2. k \in Nat /\ k + 1 \in Hop /\ k \in 0..k /\ \A d \in 0..k : k - d \in 0..Depth /\ (d # k => k - d # 0) /\ k - k = 0
    BY DepthRanges
  <2>3. f[k] = n /\ \A d \in 0..k : d # k => f[d] = 0
    BY <1>3, <2>1, <2>2
  <2>4. IsFiniteSet(D) /\ D \in SUBSET (0..k)
    <3>1. D \in SUBSET (0..k) /\ IsFiniteSet(0..k)
      BY <2>2, FS_Interval
    <3>2. QED  BY <3>1, FS_Subset
  <2>5. Lift(prox, a, delta, x, k) = SumFunctionOnSet(f, D)
    BY <2>1 DEF Lift
  <2>6. CASE Hops(prox, a)[k + 1] = x
    <3>1. k \in D /\ f[k] \in Int /\ \A d \in D \ {k} : f[d] = 0
      BY <2>2, <2>3, <2>6
    <3> HIDE DEF D
    <3>2. SumFunctionOnSet(f, D) = f[k]
      BY <2>4, <3>1, SumOne
    <3>3. Below(prox, new, x, k + 1) = Below(prox, v, x, k + 1) + n
      BY <1>1, <2>2, <2>6, BelowStake
    <3>4. QED  BY <2>3, <2>5, <3>2, <3>3
  <2>7. CASE Hops(prox, a)[k + 1] # x
    <3>1. \A d \in D : f[d] \in Int /\ f[d] = 0
      BY <2>3, <2>7
    <3> HIDE DEF D
    <3>2. SumFunctionOnSet(f, D) = 0
      BY <2>4, <3>1, SumType
    <3>3. Below(prox, new, x, k + 1) = Below(prox, v, x, k + 1) + 0
      BY <1>1, <2>2, <2>7, BelowStake
    <3>4. QED  BY <2>5, <3>2, <3>3
  <2>8. QED  BY <2>6, <2>7
<1>5. ASSUME NEW x \in Account
      PROVE  new[x] = v[x] + (IF x = a THEN delta[0] ELSE 0) /\ (x = a => \A i \in 1..Depth : delta[i] = 0)
  <2>1. new[x] = v[x] + (IF x = a THEN n ELSE 0)
    BY <1>1 DEF Raised, Stakes
  <2>2. \A i \in 1..Depth : i \in 0..Depth /\ i # 0
    BY DepthAssumption
  <2>3. QED  BY <1>3, <2>1, <2>2
<1>6. \A w \in Witness : \A x \in Voters(prox, cast, w) :
        new[x] = v[x] + (IF x = a THEN delta[0] ELSE 0) /\ (x = a => \A i \in 1..Depth : delta[i] = 0)
  BY <1>5 DEF Voters
<1>7. Adjusted(t, prox, cast, a, delta) \in IntTally /\ Tallied(prox, new, cast, Adjusted(t, prox, cast, a, delta))
  BY <1>4, <1>6, Shifted
<1>8. QED  BY <1>1, <1>2, <1>7

(* The opposite of a change is a change. *)
LEMMA MinusType ==
  ASSUME NEW delta \in Deltas
  PROVE  Minus(delta) \in Deltas /\ \A i \in 0..Depth : Minus(delta)[i] = -delta[i] /\ delta[i] \in Int
<1>1. DOMAIN delta = 0..Depth /\ \A i \in 0..Depth : delta[i] \in Int /\ -delta[i] \in Int
  BY DEF Deltas
<1>2. Minus(delta) = [i \in 0..Depth |-> -delta[i]]
  BY <1>1 DEF Minus
<1>3. QED  BY <1>1, <1>2 DEF Deltas

(* Taking something along and taking it back. *)
LEMMA LiftMinus ==
  ASSUME NEW prox \in Proxies, NEW a \in Account, NEW delta \in Deltas, NEW x, NEW k \in Reach
  PROVE  Minus(delta) \in Deltas /\ Lift(prox, a, Minus(delta), x, k) = -Lift(prox, a, delta, x, k)
<1> DEFINE D == {d \in 0..k : Hops(prox, a)[d + 1] = x}
<1>1. PICK m \in Deltas : m = Minus(delta)
  BY MinusType
<1>2. \A i \in 0..Depth : m[i] = -delta[i] /\ delta[i] \in Int
  BY <1>1, MinusType
<1>3. PICK f : f = [d \in 0..k |-> delta[k - d]]
  OBVIOUS
<1>4. PICK g : g = [d \in 0..k |-> m[k - d]]
  OBVIOUS
<1>5. k \in Nat /\ \A d \in 0..k : k - d \in 0..Depth
  BY DepthRanges
<1>6. \A d \in D : f[d] \in Int /\ g[d] = -f[d]
  BY <1>2, <1>3, <1>4, <1>5
<1>7. IsFiniteSet(D)
  <2>1. D \in SUBSET (0..k) /\ IsFiniteSet(0..k)
    BY <1>5, FS_Interval
  <2>2. QED  BY <2>1, FS_Subset
<1>8. Lift(prox, a, delta, x, k) = SumFunctionOnSet(f, D) /\ Lift(prox, a, m, x, k) = SumFunctionOnSet(g, D)
  BY <1>3, <1>4 DEF Lift
<1> HIDE DEF D
<1>9. SumFunctionOnSet(g, D) = -SumFunctionOnSet(f, D)
  BY <1>6, <1>7, SumNegated
<1>10. QED  BY <1>1, <1>8, <1>9

(* What goes with a is what is below a, whether a has its proxy or not. *)
LEMMA LiftIsCut ==
  ASSUME NEW prox \in Proxies, Acyclic(prox), NEW a \in Account, NEW cut, cut = Cut(prox, a), NEW v \in Stakes,
         NEW delta \in Deltas, \A i \in 0..Depth : delta[i] = Below(prox, v, a, i),
         NEW x \in Account, NEW k \in Reach
  PROVE  Below(prox, v, x, k + 1) = Below(cut, v, x, k + 1) + Lift(prox, a, delta, x, k)
<1>1. k \in 0..Depth /\ k \in Nat /\ \A d \in 0..k : k - d \in 0..Depth
  BY DepthRanges
<1>2. [d \in 0..k |-> delta[k - d]] = [d \in 0..k |-> Below(prox, v, a, k - d)]
  BY <1>1
<1>3. QED  BY <1>1, <1>2, BelowCut DEF Lift

(* Nobody gets into a loop by losing a proxy. *)
LEMMA CutKeeps ==
  ASSUME NEW prox \in Proxies, Acyclic(prox), NEW a \in Account
  PROVE  Cut(prox, a) \in Proxies /\ Acyclic(Cut(prox, a)) /\ Cut(prox, a)[a] = NoProxy
<1>1. PICK cut : cut = Cut(prox, a)
  OBVIOUS
<1>2. cut \in Proxies /\ cut[a] = NoProxy /\ \A b \in Account : b # a => cut[b] = prox[b]
  BY <1>1 DEF Cut, Proxies
<1>3. ASSUME NEW S \in SUBSET Account, S # {}, \A b \in S : cut[b] \in S PROVE FALSE
  <2>1. a \notin S
    BY <1>2, <1>3, VoterAssumption
  <2>2. \A b \in S : prox[b] \in S
    BY <1>2, <1>3, <2>1
  <2>3. QED  BY <1>3, <2>2 DEF Acyclic
<1>4. Acyclic(cut)
  BY <1>3 DEF Acyclic
<1>5. QED  BY <1>1, <1>2, <1>4

Silent(cast, a) == \A w \in Witness : <<a, w>> \notin cast

(* An account that votes for nobody itself gives up its proxy ... *)
LEMMA TalliedCut ==
  ASSUME NEW prox \in Proxies, Acyclic(prox), NEW v \in Stakes, NEW cast, NEW t \in IntTally,
         Tallied(prox, v, cast, t), NEW a \in Account, Silent(cast, a),
         NEW t1, t1 = Adjusted(t, prox, cast, a, Minus(Stake(v, t, a)))
  PROVE  t1 \in IntTally /\ Tallied(Cut(prox, a), v, cast, t1)
<1>1. PICK cut \in Proxies : cut = Cut(prox, a)
  BY CutKeeps
<1>2. PICK s \in Deltas : s = Stake(v, t, a)
  BY StakeType
<1>3. \A i \in 0..Depth : s[i] = Below(prox, v, a, i)
  BY <1>2, StakeIsBelow
<1>4. PICK m \in Deltas : m = Minus(s)
  BY MinusType
<1>5. ASSUME NEW x \in Account, NEW k \in Reach
      PROVE  Below(cut, v, x, k + 1) = Below(prox, v, x, k + 1) + Lift(prox, a, m, x, k)
  <2>1. Below(prox, v, x, k + 1) = Below(cut, v, x, k + 1) + Lift(prox, a, s, x, k)
    BY <1>1, <1>3, LiftIsCut
  <2>2. Lift(prox, a, m, x, k) = -Lift(prox, a, s, x, k)
    BY <1>4, LiftMinus
  <2>3. Below(cut, v, x, k + 1) \in Int /\ Lift(prox, a, s, x, k) \in Int
    BY BelowType, LiftIs
  <2>4. QED  BY <2>1, <2>2, <2>3
<1>6. ASSUME NEW w \in Witness PROVE Voters(cut, cast, w) = Voters(prox, cast, w) /\ a \notin Voters(prox, cast, w)
  <2>1. \A x \in Account : x # a => cut[x] = prox[x]
    BY <1>1 DEF Cut, Proxies
  <2>2. QED  BY <2>1 DEF Voters, Silent
<1>7. ASSUME NEW w \in Witness, NEW x \in Voters(prox, cast, w)
      PROVE  v[x] = v[x] + (IF x = a THEN m[0] ELSE 0) /\ (x = a => \A i \in 1..Depth : m[i] = 0)
  <2>1. x # a /\ x \in Account
    BY <1>6 DEF Voters
  <2>2. v[x] \in Int
    BY <2>1 DEF Stakes
  <2>3. QED  BY <2>1, <2>2
<1>8. Adjusted(t, prox, cast, a, m) \in IntTally /\ Tallied(cut, v, cast, Adjusted(t, prox, cast, a, m))
  BY <1>5, <1>6, <1>7, Shifted
<1>9. QED  BY <1>1, <1>2, <1>4, <1>8

(* ... or gets one. *)
LEMMA TalliedLink ==
  ASSUME NEW prox \in Proxies, Acyclic(prox), NEW a \in Account, NEW v \in Stakes, NEW cast, NEW t \in IntTally,
         Tallied(Cut(prox, a), v, cast, t), Silent(cast, a),
         NEW t1, t1 = Adjusted(t, prox, cast, a, Stake(v, t, a))
  PROVE  t1 \in IntTally /\ Tallied(prox, v, cast, t1)
<1>1. PICK cut \in Proxies : cut = Cut(prox, a)
  BY CutKeeps
<1>2. PICK s \in Deltas : s = Stake(v, t, a)
  BY StakeType
<1>3. ASSUME NEW i \in 0..Depth PROVE s[i] = Below(prox, v, a, i)
  <2>1. s[i] = Below(cut, v, a, i)
    BY <1>1, <1>2, StakeIsBelow
  <2>2. i \in Hop
    BY DepthRanges
  <2>3. QED  BY <1>1, <2>1, <2>2, BelowSame
<1>4. ASSUME NEW x \in Account, NEW k \in Reach
      PROVE  Below(prox, v, x, k + 1) = Below(cut, v, x, k + 1) + Lift(prox, a, s, x, k)
  BY <1>1, <1>3, LiftIsCut
<1>5. ASSUME NEW w \in Witness PROVE Voters(cut, cast, w) = Voters(prox, cast, w) /\ a \notin Voters(prox, cast, w)
  <2>1. \A x \in Account : x # a => cut[x] = prox[x]
    BY <1>1 DEF Cut, Proxies
  <2>2. QED  BY <2>1 DEF Voters, Silent
<1>6. ASSUME NEW w \in Witness, NEW x \in Voters(prox, cast, w)
      PROVE  v[x] = v[x] + (IF x = a THEN s[0] ELSE 0) /\ (x = a => \A i \in 1..Depth : s[i] = 0)
  <2>1. x # a /\ x \in Account
    BY <1>5 DEF Voters
  <2>2. v[x] \in Int
    BY <2>1 DEF Stakes
  <2>3. QED  BY <2>1, <2>2
<1>7. Tallied(cut, v, cast, t)
  BY <1>1
<1>8. Adjusted(t, prox, cast, a, s) \in IntTally /\ Tallied(prox, v, cast, Adjusted(t, prox, cast, a, s))
  BY <1>4, <1>5, <1>6, <1>7, Shifted
<1>9. QED  BY <1>2, <1>8

(* A root that votes for nobody any more takes its weight from its witnesses. *)
LEMMA TalliedDrop ==
  ASSUME NEW prox \in Proxies, NEW v \in Stakes, NEW cast, NEW t \in IntTally,
         Tallied(prox, v, cast, t), NEW a \in Account, prox[a] = NoProxy,
         NEW t1, t1 = Adjusted(t, prox, cast, a, Minus(Stake(v, t, a)))
  PROVE  t1 \in IntTally /\ Tallied(prox, v, Without(cast, a), t1)
<1> DEFINE hop == Hops(prox, a)
<1>1. PICK s \in Deltas : s = Stake(v, t, a)
  BY StakeType
<1>2. PICK m \in Deltas : m = Minus(s)
  BY MinusType
<1>0. t1 = Adjusted(t, prox, cast, a, m)
  BY <1>1, <1>2
<1>3. hop[0] = a /\ a # NoProxy
  BY HopsAre, VoterAssumption
<1>4. ASSUME NEW d \in 0..Depth PROVE hop[d + 1] = NoProxy
  <2>0. hop[0 + 1] = NoProxy
    BY <1>3, DepthRanges, HopsAre
  <2>1. 0 + 1 \in 0..(d + 1) /\ d + 1 \in Hop
    BY DepthRanges
  <2>2. QED  BY <2>0, <2>1, HopsEnd
<1>5. ASSUME NEW x \in Account, NEW k \in Reach PROVE t1.proxied[x][k] = t.proxied[x][k] /\ t.proxied[x][k] \in Int
  <2>1. t1.proxied[x][k] = t.proxied[x][k] + Lift(prox, a, m, x, k)
    BY <1>0, AdjustedIs
  <2>2. \A d \in 0..k : d \in 0..Depth
    BY DepthRanges
  <2>3. \A d \in 0..k : hop[d + 1] # x
    BY <1>4, <2>2, VoterAssumption
  <2>4. Lift(prox, a, m, x, k) = 0
    BY <2>3, LiftIs
  <2>5. t.proxied[x][k] \in Int
    BY DEF IntTally
  <2>6. QED  BY <2>1, <2>4, <2>5
<1>6. RootDepths(hop) = {0}
  <2>1. ASSUME NEW d \in 0..Depth, d # 0 PROVE hop[d] = NoProxy
    <3>1. d - 1 \in 0..Depth /\ (d - 1) + 1 = d
      BY <2>1, DepthRanges
    <3>2. QED  BY <1>4, <3>1
  <2>2. 0 \in 0..Depth
    BY DepthRanges
  <2>3. QED  BY <1>3, <1>4, <2>1, <2>2 DEF RootDepths
<1>7. PICK weight : weight = [x \in Account |-> witness_vote_weight(v, t, x)]
  OBVIOUS
<1>8. \A x \in Account : weight[x] \in Int
  BY <1>7, StakeType
<1>9. Through(m)[0] = -weight[a]
  <2>1. Through(m)[0] = SumFunctionOnSet(m, 0..Depth)
    <3>1. 0 \in 0..Depth /\ Depth - 0 = Depth
      BY DepthRanges
    <3>2. QED  BY <3>1 DEF Through
  <2>2. \A i \in 0..Depth : s[i] \in Int /\ m[i] = -s[i]
    BY <1>2, MinusType
  <2>3. SumFunctionOnSet(m, 0..Depth) = -SumFunctionOnSet(s, 0..Depth)
    BY <2>2, DepthRanges, SumNegated
  <2>4. weight[a] = SumFunctionOnSet(s, 0..Depth)
    BY <1>1, <1>7, StakeType
  <2>5. QED  BY <2>1, <2>3, <2>4
<1>10. ASSUME NEW w \in Witness
       PROVE  t1.votes[w] = SumFunctionOnSet(weight, Voters(prox, Without(cast, a), w)) /\ t1.votes[w] \in Int
  <2> DEFINE V == Voters(prox, cast, w)
             D == {d \in RootDepths(hop) : <<hop[d], w>> \in cast}
  <2>1. t1.votes[w] = t.votes[w] + SumFunctionOnSet(Through(m), D)
    BY <1>0, AdjustedIs
  <2>2. t.votes[w] = SumFunctionOnSet(weight, V)
    BY <1>7 DEF Tallied
  <2>3. Voters(prox, Without(cast, a), w) = V \ {a}
    BY DEF Voters, Without
  <2>4. IsFiniteSet(V) /\ \A x \in V : weight[x] \in Int
    <3>1. V \in SUBSET Account
      BY DEF Voters
    <3>2. QED  BY <1>8, <3>1, FS_Subset, VoterAssumption
  <2>5. IsFiniteSet(V \ {a}) /\ SumFunctionOnSet(weight, V) \in Int /\ SumFunctionOnSet(weight, V \ {a}) \in Int
    <3>1. IsFiniteSet(V \ {a}) /\ \A x \in V \ {a} : weight[x] \in Int
      BY <2>4, FS_Subset
    <3> HIDE DEF V
    <3>2. QED  BY <2>4, <3>1, SumType
  <2>6. CASE <<a, w>> \in cast
    <3>1. D = {0}
      BY <1>3, <1>6, <2>6
    <3>2. SumFunctionOnSet(Through(m), {0}) = Through(m)[0]
      <4>0. weight[a] \in Int
        BY <1>8
      <4>a. -weight[a] \in Int
        BY <4>0
      <4>b. Through(m)[0] \in Int
        BY <1>9, <4>a
      <4>1. IsFiniteSet({0}) /\ Through(m)[0] \in Int
        BY <4>b, FS_Singleton
      <4>2. QED  BY <4>1, SumOne
    <3>3. a \in V
      BY <2>6 DEF Voters
    <3> HIDE DEF V
    <3>4. SumFunctionOnSet(weight, V) = weight[a] + SumFunctionOnSet(weight, V \ {a})
      BY <2>4, <3>3, SumRemove
    <3>5. SumFunctionOnSet(Through(m), D) = -weight[a] /\ weight[a] \in Int
      BY <1>8, <1>9, <3>1, <3>2
    <3> HIDE DEF D
    <3>6. QED  BY <2>1, <2>2, <2>3, <2>5, <3>4, <3>5
  <2>7. CASE <<a, w>> \notin cast
    <3>1. D = {}
      BY <1>3, <1>6, <2>7
    <3>2. SumFunctionOnSet(Through(m), D) = 0
      BY <3>1, SumEmpty
    <3>3. V \ {a} = V
      BY <2>7 DEF Voters
    <3>4. SumFunctionOnSet(weight, Voters(prox, Without(cast, a), w)) = SumFunctionOnSet(weight, V)
      BY <2>3, <3>3
    <3> HIDE DEF V, D
    <3>5. QED  BY <2>1, <2>2, <2>5, <3>2, <3>4
  <2>8. QED  BY <2>6, <2>7
<1>11. t1 \in IntTally
  <2>1. t1 = [proxied |-> [x \in Account |-> [k \in Reach |-> t1.proxied[x][k]]], votes |-> [w \in Witness |-> t1.votes[w]]]
    BY <1>0, AdjustedIs
  <2>2. [x \in Account |-> [k \in Reach |-> t1.proxied[x][k]]] \in [Account -> [Reach -> Int]]
    BY <1>5
  <2>3. [w \in Witness |-> t1.votes[w]] \in [Witness -> Int]
    BY <1>10
  <2>4. QED  BY <2>1, <2>2, <2>3 DEF IntTally
<1>12. ASSUME NEW x \in Account PROVE witness_vote_weight(v, t1, x) = weight[x]
  <2>1. t1.proxied[x] \in [Reach -> Int] /\ t.proxied[x] \in [Reach -> Int]
    BY <1>11 DEF IntTally
  <2>2. t1.proxied[x] = t.proxied[x]
    BY <1>5, <2>1
  <2>3. QED  BY <1>7, <2>2 DEF witness_vote_weight
<1>13. [x \in Account |-> witness_vote_weight(v, t1, x)] = weight
  BY <1>7, <1>12
<1>14. \A x \in Account, k \in 0..(Depth - 1) : t1.proxied[x][k] = Below(prox, v, x, k + 1)
  BY <1>5 DEF Tallied, Reach
<1>15. QED  BY <1>10, <1>11, <1>13, <1>14 DEF Tallied

(* Functions with the same values are the same. *)
LEMMA SameFunction ==
  ASSUME NEW S, NEW T, NEW f \in [S -> T], NEW g \in [S -> T], \A x \in S : f[x] = g[x]
  PROVE  f = g
OBVIOUS

Cast == SUBSET (Account \X Witness)

(* Both at once: a has no proxy and no votes any more. *)
LEMMA TalliedRemoved ==
  ASSUME NEW prox \in Proxies, Acyclic(prox), NEW v \in Stakes, NEW cast \in Cast, ProxiesSilent(prox, cast),
         NEW t \in IntTally, Tallied(prox, v, cast, t), NEW a \in Account,
         NEW t1, t1 = Adjusted(t, prox, cast, a, Minus(Stake(v, t, a)))
  PROVE  /\ t1 \in IntTally /\ Tallied(Cut(prox, a), v, Without(cast, a), t1)
         /\ Stake(v, t1, a) = Stake(v, t, a)
<1>1. t1 \in IntTally /\ Tallied(Cut(prox, a), v, Without(cast, a), t1)
  <2>1. CASE prox[a] = NoProxy
    <3>1. Cut(prox, a) = prox
      BY <2>1 DEF Cut, Proxies
    <3>2. QED  BY <2>1, <3>1, TalliedDrop
  <2>2. CASE prox[a] # NoProxy
    <3>1. Silent(cast, a)
      BY <2>2 DEF Silent, ProxiesSilent
    <3>2. Without(cast, a) = cast
      <4>1. ASSUME NEW c \in cast PROVE c[1] # a
        <5>1. PICK x \in Account, w \in Witness : c = <<x, w>>
          BY DEF Cast
        <5>2. x # a
          BY <3>1, <5>1 DEF Silent
        <5>3. QED  BY <5>1, <5>2
      <4>2. QED  BY <4>1 DEF Without
    <3>3. QED  BY <3>1, <3>2, TalliedCut
  <2>3. QED  BY <2>1, <2>2
<1>2. PICK cut \in Proxies : cut = Cut(prox, a)
  BY CutKeeps
<1>3. ASSUME NEW i \in 0..Depth PROVE Stake(v, t1, a)[i] = Stake(v, t, a)[i]
  <2>1. Stake(v, t1, a)[i] = Below(cut, v, a, i) /\ Stake(v, t, a)[i] = Below(prox, v, a, i)
    BY <1>1, <1>2, StakeIsBelow
  <2>2. i \in Hop
    BY DepthRanges
  <2>3. Below(cut, v, a, i) = Below(prox, v, a, i)
    BY <1>2, <2>2, BelowSame
  <2>4. QED  BY <2>1, <2>3
<1>4. Stake(v, t1, a) \in Deltas /\ Stake(v, t, a) \in Deltas
  BY <1>1, StakeType
<1>5. Stake(v, t1, a) = Stake(v, t, a)
  <2>1. PICK f \in Deltas : f = Stake(v, t1, a)
    BY <1>4
  <2>2. PICK g \in Deltas : g = Stake(v, t, a)
    BY <1>4
  <2>3. \A i \in 0..Depth : f[i] = g[i]
    BY <1>3, <2>1, <2>2
  <2>4. f = g
    <3>1. PICK R : R = 0..Depth
      OBVIOUS
    <3>2. f \in [R -> Int] /\ g \in [R -> Int] /\ \A i \in R : f[i] = g[i]
      BY <2>3, <3>1 DEF Deltas
    <3>3. QED  BY <3>2, SameFunction
  <2>5. QED  BY <2>1, <2>2, <2>4
<1>6. QED  BY <1>1, <1>5

(* A proxy whose own chain ends, and avoids a, closes no loop. *)
LEMMA LinkKeeps ==
  ASSUME NEW prox \in Proxies, Acyclic(prox), NEW a \in Account, NEW q \in Account, q # a,
         \A n \in 1..(Depth + 1) : Hops(prox, q)[n] # a,
         NEW e \in Hop, Hops(prox, q)[e] = NoProxy,
         NEW moved, moved = [prox EXCEPT ![a] = q]
  PROVE  moved \in Proxies /\ Acyclic(moved) /\ Cut(moved, a) = Cut(prox, a)
<1>1. moved \in Proxies /\ moved[a] = q /\ \A b \in Account : b # a => moved[b] = prox[b]
  BY DEF Proxies
<1>2. Cut(moved, a) = Cut(prox, a)
  BY DEF Cut, Proxies
<1>3. ASSUME NEW S \in SUBSET Account, S # {}, \A b \in S : moved[b] \in S PROVE FALSE
  <2>1. CASE a \notin S
    <3>1. \A b \in S : prox[b] \in S
      BY <1>1, <1>3, <2>1
    <3>2. QED  BY <1>3, <3>1 DEF Acyclic
  <2>2. CASE a \in S
    <3> DEFINE hop == Hops(prox, q)
               Q == {n \in Nat : n \in Hop => hop[n] \in S}
    <3>0. hop[0] = q /\ \A n \in 0..Depth : hop[n + 1] = IF hop[n] = NoProxy THEN NoProxy ELSE prox[hop[n]]
      BY HopsAre
    <3>1. 0 \in Q
      BY <1>1, <1>3, <2>2, <3>0
    <3>2. ASSUME NEW n \in Nat, n \in Q PROVE n + 1 \in Q
      <4> SUFFICES ASSUME n + 1 \in Hop PROVE hop[n + 1] \in S
        OBVIOUS
      <4>1. n \in 0..Depth /\ n \in Hop /\ (n # 0 => n \in 1..(Depth + 1))
        BY DepthAssumption DEF Hop
      <4>2. hop[n] \in S /\ hop[n] # a /\ hop[n] # NoProxy
        BY <3>0, <3>2, <4>1, VoterAssumption
      <4>3. hop[n + 1] = prox[hop[n]]
        BY <3>0, <4>1, <4>2
      <4>4. QED  BY <1>1, <1>3, <4>2, <4>3
    <3> HIDE DEF Q
    <3>3. \A n \in Nat : n \in Q
      BY <3>1, <3>2, Counting
    <3>4. e \in Nat
      BY DEF Hop
    <3>5. hop[e] \in S
      BY <3>3, <3>4 DEF Q
    <3>6. QED  BY <3>5, VoterAssumption
  <2>3. QED  BY <2>1, <2>2
<1>4. Acyclic(moved)
  BY <1>3 DEF Acyclic
<1>5. QED  BY <1>1, <1>2, <1>4

(* Every stake has a last place within the depth. *)
LEMMA PlaceExists ==
  ASSUME NEW prox \in Proxies, NEW b \in Account
  PROVE  \E m \in 0..Depth : /\ Hops(prox, b)[m] \in Account
                             /\ m # Depth => Hops(prox, b)[m + 1] = NoProxy
<1> SUFFICES ASSUME ~\E m \in 0..Depth : /\ Hops(prox, b)[m] \in Account
                                         /\ m # Depth => Hops(prox, b)[m + 1] = NoProxy
             PROVE  FALSE
  OBVIOUS
<1> DEFINE hop == Hops(prox, b)
           Q == {m \in Nat : m <= Depth => hop[m] \in Account}
<1>0. hop[0] = b /\ \A n \in Hop : hop[n] \in Account \cup {NoProxy}
  BY HopsAre
<1>1. 0 \in Q
  BY <1>0
<1>2. ASSUME NEW m \in Nat, m \in Q PROVE m + 1 \in Q
  <2> SUFFICES ASSUME m + 1 <= Depth PROVE hop[m + 1] \in Account
    OBVIOUS
  <2>1. m \in 0..Depth /\ m # Depth /\ m + 1 \in Hop
    BY DepthAssumption DEF Hop
  <2>2. hop[m] \in Account
    BY <1>2, <2>1
  <2>3. QED  BY <1>0, <2>1, <2>2
<1> HIDE DEF Q
<1>3. \A m \in Nat : m \in Q
  BY <1>1, <1>2, Counting
<1>4. Depth \in Nat /\ Depth \in 0..Depth
  BY DepthAssumption
<1>5. hop[Depth] \in Account
  BY <1>3, <1>4 DEF Q
<1>6. QED  BY <1>4, <1>5

(* All places together hold all stakes. *)
LEMMA AllAccounted ==
  ASSUME NEW prox \in Proxies, NEW v \in Stakes, NEW cast, NEW t \in IntTally, Tallied(prox, v, cast, t)
  PROVE  SumFunctionOnSet(v, Account) =
           SumFunction([a \in Account |-> IF prox[a] = NoProxy THEN witness_vote_weight(v, t, a)
                                          ELSE t.proxied[a][Depth - 1]])
<1> DEFINE At(b, m) == Hops(prox, b)[m]
           Last(b, m) == At(b, m) \in Account /\ (m # Depth => At(b, m + 1) = NoProxy)
<1>1. PICK far : far = [b \in Account |-> CHOOSE m \in 0..Depth : Last(b, m)]
  OBVIOUS
<1>2. ASSUME NEW b \in Account PROVE far[b] \in 0..Depth /\ Last(b, far[b])
  <2>1. \E m \in 0..Depth : Last(b, m)
    BY PlaceExists
  <2>2. far[b] = CHOOSE m \in 0..Depth : Last(b, m)
    BY <1>1
  <2> HIDE DEF Last
  <2>3. QED  BY <2>1, <2>2
<1>3. PICK own : own = [b \in Account |-> At(b, far[b])]
  OBVIOUS
<1>4. \A b \in Account : own[b] = At(b, far[b]) /\ own[b] \in Account
  BY <1>2, <1>3
<1>5. PICK h : h = [a \in Account |-> IF prox[a] = NoProxy THEN witness_vote_weight(v, t, a) ELSE t.proxied[a][Depth - 1]]
  OBVIOUS
<1>6. \A b \in Account, m \in Hop, n \in Hop : n <= m /\ At(b, m) # NoProxy => At(b, n) # NoProxy
  <2> SUFFICES ASSUME NEW b \in Account, NEW m \in Hop, NEW n \in Hop, n <= m, At(b, m) # NoProxy
               PROVE  At(b, n) # NoProxy
    OBVIOUS
  <2>1. n \in 0..m
    BY DEF Hop
  <2>2. QED  BY <2>1, HopsEnd
<1>7. \A b \in Account, n \in 0..Depth : At(b, n) \in Account => At(b, n + 1) = prox[At(b, n)]
  BY HopsAre, VoterAssumption
<1>8. ASSUME NEW a \in Account, prox[a] # NoProxy PROVE h[a] = SumFunctionOnSet(v, {b \in Account : own[b] = a})
  <2>1. ASSUME NEW b \in Account PROVE own[b] = a <=> At(b, Depth) = a
    <3>0. Depth \in 0..Depth /\ Depth \in Hop /\ far[b] \in 0..Depth /\ far[b] \in Hop /\ far[b] + 1 \in Hop
      BY <1>2, DepthRanges
    <3>1. CASE far[b] = Depth
      BY <1>4, <3>1
    <3>2. CASE far[b] # Depth
      <4>1. At(b, far[b] + 1) = NoProxy /\ far[b] + 1 <= Depth
        BY <1>2, <3>0, <3>2, DepthRanges
      <4>2. At(b, Depth) # a
        BY <1>6, <3>0, <4>1, VoterAssumption
      <4>3. own[b] # a
        BY <1>4, <1>7, <1>8, <3>0, <4>1
      <4>4. QED  BY <4>2, <4>3
    <3>3. QED  BY <3>1, <3>2
  <2>2. {b \in Account : own[b] = a} = {b \in Account : At(b, Depth) = a}
    BY <2>1
  <2>3. Depth - 1 \in 0..(Depth - 1) /\ (Depth - 1) + 1 = Depth
    BY DepthAssumption
  <2>4. h[a] = t.proxied[a][Depth - 1]
    BY <1>5, <1>8
  <2>5. t.proxied[a][Depth - 1] = Below(prox, v, a, Depth)
    BY <2>3 DEF Tallied
  <2>6. QED  BY <2>2, <2>4, <2>5 DEF Below
<1>9. ASSUME NEW a \in Account, prox[a] = NoProxy PROVE h[a] = SumFunctionOnSet(v, {b \in Account : own[b] = a})
  <2> DEFINE S == {b \in Account : own[b] = a}
  <2>1. ASSUME NEW b \in Account, NEW i \in 0..Depth, At(b, i) = a PROVE far[b] = i
    <3>0. i \in Hop /\ i + 1 \in Hop /\ far[b] \in 0..Depth /\ far[b] \in Hop /\ far[b] + 1 \in Hop /\ i \in Nat /\ far[b] \in Nat
      BY <1>2, DepthRanges
    <3>1. At(b, i + 1) = NoProxy /\ At(b, i) # NoProxy
      BY <1>7, <1>9, <2>1, VoterAssumption
    <3>2. ~(far[b] < i)
      <4>1. ASSUME far[b] < i PROVE FALSE
        <5>1. far[b] + 1 <= i /\ far[b] # Depth
          BY <3>0, <4>1, DepthRanges
        <5>2. At(b, far[b] + 1) = NoProxy
          BY <1>2, <5>1
        <5>3. QED  BY <1>6, <3>0, <3>1, <5>1, <5>2
      <4>2. QED  BY <4>1
    <3>3. ~(i < far[b])
      <4>1. ASSUME i < far[b] PROVE FALSE
        <5>1. i + 1 <= far[b]
          BY <3>0, <4>1
        <5>2. At(b, far[b]) # NoProxy
          BY <1>2, VoterAssumption
        <5>3. QED  BY <1>6, <3>0, <3>1, <5>1, <5>2
      <4>2. QED  BY <4>1
    <3>4. QED  BY <3>0, <3>2, <3>3
  <2>2. PICK s \in Deltas : s = Stake(v, t, a)
    BY StakeType
  <2>3. ASSUME NEW i \in 0..Depth PROVE s[i] = SumFunctionOnSet(v, {b \in S : far[b] = i})
    <3>1. {b \in S : far[b] = i} = {b \in Account : At(b, i) = a}
      BY <1>4, <2>1
    <3>2. s[i] = Below(prox, v, a, i)
      BY <2>2, StakeIsBelow
    <3>3. QED  BY <3>1, <3>2 DEF Below
  <2>0. PICK R : R = 0..Depth
    OBVIOUS
  <2>4. Shared(s, R, v, S, far)
    BY <2>0, <2>3 DEF Shared
  <2>5. /\ IsFiniteSet(S) /\ IsFiniteSet(R) /\ (\A b \in S : v[b] \in Int) /\ (\A b \in S : far[b] \in R)
    <3>1. S \in SUBSET Account
      OBVIOUS
    <3>2. QED  BY <1>2, <2>0, <3>1, DepthRanges, FS_Subset, VoterAssumption DEF Stakes
  <2> HIDE DEF S
  <2>6. SumFunctionOnSet(s, 0..Depth) = SumFunctionOnSet(v, S)
    <3>1. SumFunctionOnSet(s, R) = SumFunctionOnSet(v, S)
      BY <2>4, <2>5, SumOwned
    <3>2. QED  BY <2>0, <3>1
  <2>7. h[a] = SumFunctionOnSet(s, 0..Depth)
    BY <1>5, <1>9, <2>2, StakeType
  <2>8. QED  BY <2>6, <2>7 DEF S
<1>10. Shared(h, Account, v, Account, own)
  BY <1>8, <1>9 DEF Shared
<1>11. IsFiniteSet(Account) /\ (\A b \in Account : v[b] \in Int) /\ (\A b \in Account : own[b] \in Account)
  BY <1>4, VoterAssumption DEF Stakes
<1>12. SumFunctionOnSet(h, Account) = SumFunctionOnSet(v, Account)
  BY <1>10, <1>11, SumOwned
<1>13. SumFunction(h) = SumFunctionOnSet(h, Account)
  BY <1>5 DEF SumFunction
<1>14. QED  BY <1>5, <1>12, <1>13

(* The fund *)

(* Products keep the order. *)
LEMMA MulMonotone ==
  ASSUME NEW a \in Nat, NEW b \in Nat, NEW c \in Nat, a <= b
  PROVE  a * c <= b * c
<1>1. PICK d \in Nat : b = a + d
  <2>1. b - a \in Nat /\ b = a + (b - a)
    OBVIOUS
  <2>2. QED  BY <2>1
<1>2. b * c = a * c + d * c
  BY <1>1
<1>3. d * c \in Nat /\ a * c \in Nat
  OBVIOUS
<1>4. QED  BY <1>2, <1>3

(* And so it can be read off them. *)
LEMMA MulCancels ==
  ASSUME NEW a \in Nat, NEW b \in Nat, NEW c \in Nat \ {0}, a * c <= b * c
  PROVE  a <= b
<1> SUFFICES ASSUME b < a PROVE FALSE
  OBVIOUS
<1>1. b + 1 \in Nat /\ b + 1 <= a
  OBVIOUS
<1>2. (b + 1) * c <= a * c
  BY <1>1, MulMonotone
<1>3. (b + 1) * c = b * c + c
  OBVIOUS
<1>4. b * c \in Nat /\ a * c \in Nat
  OBVIOUS
<1>5. QED  BY <1>2, <1>3, <1>4

(* Division rounds down. *)
LEMMA DivDown ==
  ASSUME NEW x \in Nat, NEW d \in Nat \ {0}
  PROVE  /\ x \div d \in Nat /\ (x \div d) * d <= x /\ x < (x \div d) * d + d
         /\ \A k \in Nat : k <= x \div d <=> k * d <= x
<1>1. PICK q \in Nat : q = x \div d
  OBVIOUS
<1>2. q * d <= x /\ x < q * d + d
  BY <1>1
<1>3. ASSUME NEW k \in Nat PROVE k <= q <=> k * d <= x
  <2>0. k * d \in Nat /\ q * d \in Nat /\ (q + 1) * d = q * d + d
    OBVIOUS
  <2>1. ASSUME k <= q PROVE k * d <= x
    <3>1. k * d <= q * d
      BY <2>1, MulMonotone
    <3>2. QED  BY <1>2, <2>0, <3>1
  <2>2. ASSUME k * d <= x, ~(k <= q) PROVE FALSE
    <3>1. q + 1 \in Nat /\ q + 1 <= k
      BY <2>2
    <3>2. (q + 1) * d <= k * d
      BY <3>1, MulMonotone
    <3>3. QED  BY <1>2, <2>0, <2>2, <3>2
  <2>3. QED  BY <2>1, <2>2
<1>4. QED  BY <1>1, <1>2, <1>3

(* A value that is kept twice is kept, also where nothing is left. *)
LEMMA ValueChain ==
  ASSUME NEW f0 \in Nat, NEW s0 \in Nat, NEW f1 \in Nat, NEW s1 \in Nat, NEW f2 \in Nat, NEW s2 \in Nat,
         f1 * s0 >= f0 * s1, f2 * s1 >= f1 * s2, s1 = 0 => s2 = 0
  PROVE  f2 * s0 >= f0 * s2
<1>1. CASE s1 = 0
  <2>1. s2 = 0 /\ f2 * s0 \in Nat /\ f0 * 0 = 0
    BY <1>1
  <2>2. QED  BY <2>1
<1>2. CASE s1 # 0
  <2>1. /\ f1 * s0 \in Nat /\ f0 * s1 \in Nat /\ f2 * s1 \in Nat /\ f1 * s2 \in Nat
        /\ f2 * s0 \in Nat /\ f0 * s2 \in Nat /\ s1 \in Nat \ {0}
    BY <1>2
  <2>2. (f1 * s2) * s0 <= (f2 * s1) * s0
    BY <2>1, MulMonotone
  <2>3. (f0 * s1) * s2 <= (f1 * s0) * s2
    BY <2>1, MulMonotone
  <2>4. (f1 * s2) * s0 = (f1 * s0) * s2 /\ (f2 * s1) * s0 = (f2 * s0) * s1 /\ (f0 * s1) * s2 = (f0 * s2) * s1
    OBVIOUS
  <2>5. (f0 * s2) * s1 \in Nat /\ (f2 * s0) * s1 \in Nat /\ (f1 * s0) * s2 \in Nat
    BY <2>1
  <2>6. (f0 * s2) * s1 <= (f2 * s0) * s1
    BY <2>2, <2>3, <2>4, <2>5
  <2>7. QED  BY <2>1, <2>6, MulCancels
<1>3. QED  BY <1>1, <1>2

(* What is left of a division by the rate. *)
LEMMA ModLeft ==
  ASSUME NEW w \in Nat, NEW d \in Nat \ {0}, w % d = 0, NEW r \in Nat, r < d
  PROVE  (w + r) % d = r /\ (w + d) % d = 0
<1>1. PICK q \in Int : w = d * q
  <2>1. PICK k \in Int : k = w \div d
    OBVIOUS
  <2>2. w = d * k + (w % d)
    BY <2>1
  <2>3. w = d * k
    BY <2>2
  <2>4. QED  BY <2>3
<1>2. (d * q + r) % d = r
  OBVIOUS
<1>3. (d * (q + 1) + 0) % d = 0
  OBVIOUS
<1>4. d * (q + 1) + 0 = d * q + d
  OBVIOUS
<1>5. QED  BY <1>1, <1>2, <1>3, <1>4

(* A sum of multiples. *)
LEMMA SumScaled ==
  ASSUME NEW f, NEW g, NEW S, IsFiniteSet(S), NEW c \in Int, \A x \in S : f[x] \in Int /\ g[x] = c * f[x]
  PROVE  SumFunctionOnSet(f, S) \in Int /\ SumFunctionOnSet(g, S) = c * SumFunctionOnSet(f, S)
<1> DEFINE F(T) == SumFunctionOnSet(f, T)
           G(T) == SumFunctionOnSet(g, T)
           Q == {T \in SUBSET S : F(T) \in Int /\ G(T) = c * F(T)}
<1>1. ASSUME NEW T \in SUBSET S, \A x \in T : T \ {x} \in Q PROVE T \in Q
  <2>1. IsFiniteSet(T)
    BY FS_Subset
  <2>2. CASE T = {}
    <3>1. F(T) = 0 /\ G(T) = 0
      BY <2>1, <2>2, SumStep
    <3> HIDE DEF F, G
    <3>2. QED  BY <3>1
  <2>3. CASE T # {}
    <3>1. PICK x \in T : x = Some(T)
      BY <2>3 DEF Some
    <3>2. F(T) = f[x] + F(T \ {x}) /\ G(T) = g[x] + G(T \ {x})
      BY <2>1, <2>3, <3>1, SumStep
    <3>3. F(T \ {x}) \in Int /\ G(T \ {x}) = c * F(T \ {x}) /\ f[x] \in Int /\ g[x] = c * f[x]
      BY <1>1
    <3> HIDE DEF F, G
    <3>4. c * f[x] + c * F(T \ {x}) = c * (f[x] + F(T \ {x}))
      BY <3>3
    <3>5. F(T) \in Int /\ G(T) = c * F(T)
      BY <3>2, <3>3, <3>4
    <3>6. QED  BY <3>5
  <2>4. QED  BY <2>2, <2>3
<1> HIDE DEF Q
<1>2. \A T \in SUBSET S : T \in Q
  BY <1>1, Growing
<1>3. QED  BY <1>2 DEF Q

(* The parts of an instalment are not more than the instalment. *)
LEMMA PartsFit ==
  ASSUME NEW mine, IsFiniteSet(mine), \A r \in mine : r.percent \in Nat,
         SumFunction([r \in mine |-> r.percent]) <= Full, NEW n \in Nat, NEW parts,
         parts = [r \in mine |-> Part(n, r)]
  PROVE  /\ \A r \in mine : parts[r] \in Nat /\ parts[r] = Part(n, r)
         /\ SumFunctionOnSet(parts, mine) \in Nat /\ SumFunctionOnSet(parts, mine) <= n
<1>0. Full \in Nat \ {0}
  BY WithdrawAssumption
<1>1. PICK f : f = [r \in mine |-> r.percent]
  OBVIOUS
<1>2. SumFunctionOnSet(f, mine) <= Full
  BY <1>1 DEF SumFunction
<1>3. PICK g : g = [r \in mine |-> n * f[r]]
  OBVIOUS
<1>4. PICK h : h = [r \in mine |-> Full * parts[r]]
  OBVIOUS
<1>5. ASSUME NEW r \in mine
      PROVE  /\ f[r] \in Nat /\ g[r] = n * f[r] /\ g[r] \in Nat /\ parts[r] = Part(n, r)
             /\ parts[r] \in Nat /\ h[r] = Full * parts[r] /\ h[r] \in Nat /\ h[r] <= g[r]
  <2>1. f[r] = r.percent /\ f[r] \in Nat /\ g[r] = n * f[r] /\ n * f[r] \in Nat /\ parts[r] = Part(n, r)
    BY <1>1, <1>3
  <2>2. Part(n, r) = (n * f[r]) \div Full
    BY <2>1 DEF Part
  <2>3. parts[r] \in Nat /\ parts[r] * Full <= n * f[r]
    BY <1>0, <2>1, <2>2, DivDown
  <2>4. h[r] = Full * parts[r] /\ Full * parts[r] = parts[r] * Full /\ Full * parts[r] \in Nat
    BY <1>0, <1>4, <2>3
  <2>5. QED  BY <2>1, <2>3, <2>4
<1>6. SumFunctionOnSet(f, mine) \in Int /\ SumFunctionOnSet(g, mine) = n * SumFunctionOnSet(f, mine)
  <2>1. n \in Int /\ \A r \in mine : f[r] \in Int /\ g[r] = n * f[r]
    BY <1>5
  <2>2. QED  BY <2>1, SumScaled
<1>7. SumFunctionOnSet(parts, mine) \in Int /\ SumFunctionOnSet(h, mine) = Full * SumFunctionOnSet(parts, mine)
  <2>1. Full \in Int /\ \A r \in mine : parts[r] \in Int /\ h[r] = Full * parts[r]
    BY <1>0, <1>5
  <2>2. QED  BY <2>1, SumScaled
<1>8. SumFunctionOnSet(h, mine) <= SumFunctionOnSet(g, mine)
  <2>1. \A r \in mine : h[r] \in Int /\ g[r] \in Int /\ h[r] <= g[r]
    BY <1>5
  <2>2. QED  BY <2>1, SumOrder
<1>9. SumFunctionOnSet(parts, mine) >= 0 /\ SumFunctionOnSet(f, mine) >= 0
  <2>1. \A r \in mine : parts[r] \in Int /\ parts[r] >= 0 /\ f[r] \in Int /\ f[r] >= 0
    BY <1>5
  <2>2. QED  BY <2>1, SumType
<1>10. PICK p \in Nat : p = SumFunctionOnSet(parts, mine)
  BY <1>7, <1>9
<1>11. PICK q \in Nat : q = SumFunctionOnSet(f, mine)
  BY <1>6, <1>9
<1>12. q * n <= Full * n
  BY <1>0, <1>2, <1>11, MulMonotone
<1>13. Full * p <= n * q
  BY <1>6, <1>7, <1>8, <1>10, <1>11
<1>14. Full * p = p * Full /\ n * q = q * n /\ Full * n = n * Full /\ p * Full \in Nat /\ n * q \in Nat /\ n * Full \in Nat
  BY <1>0
<1>15. p * Full <= n * Full
  BY <1>12, <1>13, <1>14
<1>16. p <= n
  BY <1>0, <1>15, MulCancels
<1>17. QED  BY <1>5, <1>10, <1>16

(* What n GBC buy, of a fund that is not empty while there are shares. *)
LEMMA BoughtIs ==
  ASSUME NEW st, st.fund \in Nat, st.shares \in Nat, st.shares > 0 => st.fund > 0, NEW n \in Nat
  PROVE  /\ Bought(st, n) \in Nat
         /\ st.shares + Bought(st, n) > 0 => st.fund + n > 0
         /\ st.shares > 0 => (st.fund + n) * st.shares >= st.fund * (st.shares + Bought(st, n))
<1>0. InitialRate \in Nat \ {0}
  BY WithdrawAssumption
<1>1. PICK f \in Nat : f = st.fund
  OBVIOUS
<1>2. PICK s \in Nat : s = st.shares
  OBVIOUS
<1>3. CASE s = 0
  <2>1. Bought(st, n) = n * InitialRate
    BY <1>2, <1>3 DEF Bought
  <2>2. n * InitialRate \in Nat /\ (n = 0 => n * InitialRate = 0)
    BY <1>0
  <2>3. QED  BY <1>1, <1>2, <1>3, <2>1, <2>2
<1>4. CASE s # 0
  <2>1. f \in Nat \ {0}
    BY <1>1, <1>2, <1>4
  <2>2. Bought(st, n) = (n * s) \div f
    BY <1>1, <1>2, <1>4, <2>1 DEF Bought
  <2>3. PICK b \in Nat : b = (n * s) \div f /\ b * f <= n * s
    <3>1. n * s \in Nat
      OBVIOUS
    <3>2. QED  BY <2>1, <3>1, DivDown
  <2>4. (f + n) * s = f * s + n * s /\ f * (s + b) = f * s + b * f /\ f * s \in Nat /\ n * s \in Nat /\ b * f \in Nat
    OBVIOUS
  <2>5. (f + n) * s >= f * (s + b)
    BY <2>3, <2>4
  <2>6. f + n > 0
    BY <2>1
  <2>7. QED  BY <1>1, <1>2, <2>2, <2>3, <2>5, <2>6
<1>5. QED  BY <1>3, <1>4

(* What n of the shares sell for. *)
LEMMA SoldIs ==
  ASSUME NEW st, st.fund \in Nat, st.shares \in Nat, st.shares > 0 => st.fund > 0, NEW n \in Nat, n <= st.shares
  PROVE  /\ Sold(st, n) \in Nat /\ Sold(st, n) <= st.fund
         /\ st.shares - n > 0 => st.fund - Sold(st, n) > 0
         /\ (st.fund - Sold(st, n)) * st.shares >= st.fund * (st.shares - n)
<1>0. InitialRate \in Nat \ {0}
  BY WithdrawAssumption
<1>1. PICK f \in Nat : f = st.fund
  OBVIOUS
<1>2. PICK s \in Nat : s = st.shares
  OBVIOUS
<1>3. CASE s = 0
  <2>1. n = 0
    BY <1>2, <1>3
  <2>2. Sold(st, n) = 0 \div InitialRate
    BY <1>2, <1>3, <2>1 DEF Sold
  <2>3. 0 \div InitialRate = 0
    BY <1>0
  <2>4. QED  BY <1>1, <1>2, <1>3, <2>1, <2>2, <2>3
<1>4. CASE s # 0
  <2>1. f \in Nat \ {0} /\ s \in Nat \ {0}
    BY <1>1, <1>2, <1>4
  <2>2. Sold(st, n) = (n * f) \div s
    BY <1>1, <1>2, <1>4, <2>1 DEF Sold
  <2>3. PICK g \in Nat : g = (n * f) \div s /\ g * s <= n * f
    <3>1. n * f \in Nat
      OBVIOUS
    <3>2. QED  BY <2>1, <3>1, DivDown
  <2>4. n <= s
    BY <1>2
  <2>5. n * f <= s * f /\ s * f = f * s /\ n * f \in Nat /\ f * s \in Nat /\ g * s \in Nat
    BY <2>4, MulMonotone
  <2>6. g <= f
    <3>1. g * s <= f * s
      BY <2>3, <2>5
    <3>2. QED  BY <2>1, <3>1, MulCancels
  <2>7. (f - g) * s = f * s - g * s /\ f * (s - n) = f * s - n * f
    OBVIOUS
  <2>8. (f - g) * s >= f * (s - n)
    BY <2>3, <2>5, <2>7
  <2>9. s - n > 0 => f - g > 0
    <3>1. ASSUME s - n > 0, ~(f - g > 0) PROVE FALSE
      <4>1. f - g = 0
        BY <2>6, <3>1
      <4>2. (f - g) * s = 0
        BY <4>1
      <4>3. s - n \in Nat \ {0}
        BY <2>4, <3>1
      <4>4. 1 <= s - n /\ f * 1 = f /\ 1 \in Nat
        BY <4>3
      <4>5. 1 * f <= (s - n) * f
        BY <4>3, <4>4, MulMonotone
      <4>6. 1 * f = f /\ (s - n) * f = f * (s - n)
        BY <4>3
      <4>7. QED  BY <2>1, <2>8, <4>2, <4>5, <4>6
    <3>2. QED  BY <3>1
  <2>10. QED  BY <1>1, <1>2, <2>2, <2>3, <2>6, <2>8, <2>9
<1>5. QED  BY <1>3, <1>4

(* The steps of a block *)

State == [vesting : [Account -> Nat], balance : [Account -> Nat], fund : Nat, shares : Nat, supply : Nat,
          tally : IntTally, power_down : [Account -> PowerDown], fits : BOOLEAN]

(* st is sound but for extra shares that are still to leave a stake, and for *)
(* liquid GBC that are still to go somewhere.                                *)
Good(st, extra, liquid) ==
  /\ SumFunctionOnSet(st.vesting, Account) = st.shares + extra
  /\ st.supply = st.fund + SumFunctionOnSet(st.balance, Account) + liquid
  /\ st.shares > 0 => st.fund > 0
  /\ Tallied(proxy, st.vesting, votes, st.tally)

(* Stakes and balances are numbers, and one that changes changes the sum. *)
LEMMA RaisedIs ==
  ASSUME NEW v \in [Account -> Nat], NEW a \in Account, NEW n \in Int, v[a] + n >= 0
  PROVE  /\ v \in Stakes /\ Raised(v, a, n) \in [Account -> Nat]
         /\ Raised(v, a, n)[a] = v[a] + n /\ \A x \in Account \ {a} : Raised(v, a, n)[x] = v[x]
         /\ SumFunctionOnSet(v, Account) \in Nat
         /\ SumFunctionOnSet(Raised(v, a, n), Account) = SumFunctionOnSet(v, Account) + n
<1>1. /\ v \in Stakes /\ Raised(v, a, n) \in [Account -> Nat]
      /\ Raised(v, a, n)[a] = v[a] + n /\ \A x \in Account \ {a} : Raised(v, a, n)[x] = v[x]
  BY DEF Raised, Stakes
<1>2. IsFiniteSet(Account)
  BY VoterAssumption
<1>3. SumFunctionOnSet(v, Account) \in Nat
  BY <1>2, SumBounds
<1>4. PICK w : w = Raised(v, a, n)
  OBVIOUS
<1>5. w[a] \in Int /\ w[a] = v[a] + n /\ v[a] \in Int /\ \A x \in Account \ {a} : w[x] = v[x]
  BY <1>1, <1>4
<1>6. \A x \in Account : v[x] \in Int
  OBVIOUS
<1>7. SumFunctionOnSet(w, Account) = SumFunctionOnSet(v, Account) + (w[a] - v[a])
  BY <1>2, <1>5, <1>6, SumChange
<1>8. QED  BY <1>1, <1>3, <1>4, <1>5, <1>7

(* A stake that changes. *)
LEMMA VestedGood ==
  ASSUME proxy \in Proxies, NEW st \in State, NEW extra \in Int, NEW liquid \in Int, Good(st, extra, liquid),
         NEW a \in Account, NEW n \in Int, st.vesting[a] + n >= 0, NEW s, s = Vested(st, a, n)
  PROVE  /\ s \in State /\ Good(s, extra + n, liquid) /\ s.vesting = Raised(st.vesting, a, n)
         /\ s.balance = st.balance /\ s.fund = st.fund /\ s.shares = st.shares /\ s.supply = st.supply
         /\ s.power_down = st.power_down
<1>1. PICK t : t = Adjusted(st.tally, proxy, votes, a, Own(n))
  OBVIOUS
<1>2. /\ st.vesting \in [Account -> Nat] /\ st.balance \in [Account -> Nat] /\ st.fund \in Nat /\ st.shares \in Nat
      /\ st.supply \in Nat /\ st.tally \in IntTally /\ st.power_down \in [Account -> PowerDown] /\ st.fits \in BOOLEAN
  BY DEF State
<1>3. PICK w : w = Raised(st.vesting, a, n)
  OBVIOUS
<1>4. /\ st.vesting \in Stakes /\ w \in [Account -> Nat] /\ SumFunctionOnSet(st.vesting, Account) \in Nat
      /\ SumFunctionOnSet(w, Account) = SumFunctionOnSet(st.vesting, Account) + n
  BY <1>2, <1>3, RaisedIs
<1>5. t \in IntTally /\ Tallied(proxy, w, votes, t)
  <2>1. Tallied(proxy, st.vesting, votes, st.tally)
    BY DEF Good
  <2>2. QED  BY <1>1, <1>2, <1>3, <1>4, <2>1, TalliedStake
<1>6. s = [st EXCEPT !.vesting = w, !.tally = t, !.fits = @ /\ Fits(t, st.shares)]
  BY <1>1, <1>3 DEF Vested, Raised, State
<1>7. Fits(t, st.shares) \in BOOLEAN
  BY DEF Fits
<1>8. s \in State
  BY <1>2, <1>4, <1>5, <1>6, <1>7 DEF State
<1>9. /\ s.vesting = w /\ s.tally = t /\ s.balance = st.balance /\ s.fund = st.fund /\ s.shares = st.shares
      /\ s.supply = st.supply /\ s.power_down = st.power_down
  BY <1>6 DEF State
<1>10. Good(s, extra + n, liquid)
  BY <1>2, <1>4, <1>5, <1>9 DEF Good
<1>11. QED  BY <1>3, <1>8, <1>9, <1>10

(* Shares that are sold.  What is left has not lost value. *)
LEMMA PaidGood ==
  ASSUME NEW st \in State, NEW extra \in Int, NEW liquid \in Int, Good(st, extra, liquid),
         NEW a \in Account, NEW n \in Nat, n <= st.shares, NEW s, s = Paid(st, a, n)
  PROVE  /\ s \in State /\ Good(s, extra + n, liquid) /\ s.vesting = st.vesting
         /\ s.shares = st.shares - n /\ s.power_down = st.power_down
         /\ s.fund * st.shares >= st.fund * s.shares
<1>1. /\ st.vesting \in [Account -> Nat] /\ st.balance \in [Account -> Nat] /\ st.fund \in Nat /\ st.shares \in Nat
      /\ st.supply \in Nat /\ st.tally \in IntTally /\ st.power_down \in [Account -> PowerDown] /\ st.fits \in BOOLEAN
  BY DEF State
<1>2. PICK g \in Nat : /\ g = Sold(st, n) /\ g <= st.fund /\ (st.shares - n > 0 => st.fund - g > 0)
                       /\ (st.fund - g) * st.shares >= st.fund * (st.shares - n)
  <2>1. st.shares > 0 => st.fund > 0
    BY DEF Good
  <2>2. QED  BY <1>1, <2>1, SoldIs
<1>3. PICK w : w = Raised(st.balance, a, g)
  OBVIOUS
<1>4. /\ w \in [Account -> Nat] /\ SumFunctionOnSet(st.balance, Account) \in Nat
      /\ SumFunctionOnSet(w, Account) = SumFunctionOnSet(st.balance, Account) + g
  <2>1. g \in Int /\ st.balance[a] + g >= 0
    BY <1>1
  <2>2. QED  BY <1>1, <1>3, <2>1, RaisedIs
<1>5. s = [st EXCEPT !.balance = w, !.fund = st.fund - g, !.shares = st.shares - n]
  BY <1>2, <1>3 DEF Paid, Raised, State
<1>6. st.fund - g \in Nat /\ st.shares - n \in Nat
  BY <1>1, <1>2
<1>7. s \in State
  BY <1>1, <1>4, <1>5, <1>6 DEF State
<1>8. /\ s.vesting = st.vesting /\ s.tally = st.tally /\ s.balance = w /\ s.fund = st.fund - g
      /\ s.shares = st.shares - n /\ s.supply = st.supply /\ s.power_down = st.power_down
  BY <1>5 DEF State
<1>9. Good(s, extra + n, liquid)
  <2>1. SumFunctionOnSet(s.vesting, Account) = s.shares + (extra + n)
    BY <1>1, <1>8 DEF Good
  <2>2. s.supply = s.fund + SumFunctionOnSet(s.balance, Account) + liquid
    BY <1>1, <1>4, <1>8 DEF Good
  <2>3. s.shares > 0 => s.fund > 0
    BY <1>2, <1>8
  <2>4. QED  BY <1>8, <2>1, <2>2, <2>3 DEF Good
<1>10. QED  BY <1>2, <1>7, <1>8, <1>9

(* create_vesting(): the shares that others hold keep their value. *)
LEMMA CreateGood ==
  ASSUME proxy \in Proxies, NEW st \in State, NEW liquid \in Nat, Good(st, 0, liquid),
         NEW a \in Account, NEW s, s = create_vesting(st, a, liquid)
  PROVE  /\ s \in State /\ Good(s, 0, 0) /\ s.power_down = st.power_down /\ s.balance = st.balance
         /\ s.supply = st.supply
         /\ \A x \in Account : s.vesting[x] >= st.vesting[x]
         /\ s.shares >= st.shares
         /\ st.shares > 0 => s.fund * st.shares >= st.fund * s.shares
<1>1. /\ st.vesting \in [Account -> Nat] /\ st.balance \in [Account -> Nat] /\ st.fund \in Nat /\ st.shares \in Nat
      /\ st.supply \in Nat /\ st.tally \in IntTally /\ st.power_down \in [Account -> PowerDown] /\ st.fits \in BOOLEAN
  BY DEF State
<1>2. PICK n \in Nat : /\ n = Bought(st, liquid) /\ (st.shares + n > 0 => st.fund + liquid > 0)
                       /\ (st.shares > 0 => (st.fund + liquid) * st.shares >= st.fund * (st.shares + n))
  <2>1. st.shares > 0 => st.fund > 0
    BY DEF Good
  <2>2. QED  BY <1>1, <2>1, BoughtIs
<1>3. PICK m : m = [st EXCEPT !.fund = st.fund + liquid, !.shares = st.shares + n]
  OBVIOUS
<1>4. /\ m \in State /\ m.vesting = st.vesting /\ m.balance = st.balance /\ m.fund = st.fund + liquid
      /\ m.shares = st.shares + n /\ m.supply = st.supply /\ m.tally = st.tally /\ m.power_down = st.power_down
  <2>1. st.fund + liquid \in Nat /\ st.shares + n \in Nat
    BY <1>1
  <2>2. PICK f \in Nat : f = st.fund + liquid
    BY <2>1
  <2>3. PICK k \in Nat : k = st.shares + n
    BY <2>1
  <2>4. m = [st EXCEPT !.fund = f, !.shares = k]
    BY <1>3, <2>2, <2>3
  <2>5. m \in State
    BY <1>1, <2>4 DEF State
  <2>6. /\ m.vesting = st.vesting /\ m.balance = st.balance /\ m.fund = f
        /\ m.shares = k /\ m.supply = st.supply /\ m.tally = st.tally /\ m.power_down = st.power_down
    BY <2>4 DEF State
  <2>7. QED  BY <2>2, <2>3, <2>5, <2>6
<1>5. s = Vested(m, a, n)
  BY <1>2, <1>3 DEF create_vesting, State
<1>6. SumFunctionOnSet(st.balance, Account) \in Nat
  <2>1. IsFiniteSet(Account) /\ \A x \in Account : st.balance[x] \in Nat
    BY <1>1, VoterAssumption
  <2>2. QED  BY <2>1, SumBounds, SumType
<1>7. Good(m, -n, 0)
  <2>1. SumFunctionOnSet(m.vesting, Account) = m.shares + (-n)
    BY <1>1, <1>4 DEF Good
  <2>2. m.supply = m.fund + SumFunctionOnSet(m.balance, Account) + 0
    BY <1>1, <1>4, <1>6 DEF Good
  <2>3. m.shares > 0 => m.fund > 0
    BY <1>2, <1>4
  <2>4. QED  BY <1>4, <2>1, <2>2, <2>3 DEF Good
<1>8. -n \in Int /\ n \in Int /\ 0 \in Int /\ m.vesting[a] + n >= 0
  BY <1>1, <1>4
<1>9. /\ s \in State /\ Good(s, (-n) + n, 0) /\ s.vesting = Raised(m.vesting, a, n)
      /\ s.balance = m.balance /\ s.fund = m.fund /\ s.shares = m.shares /\ s.supply = m.supply
      /\ s.power_down = m.power_down
  BY <1>4, <1>5, <1>7, <1>8, VestedGood
<1>10. (-n) + n = 0
  OBVIOUS
<1>11. \A x \in Account : s.vesting[x] >= st.vesting[x]
  <2>1. \A x \in Account : st.vesting[x] \in Nat
    BY <1>1
  <2>2. s.vesting[a] = st.vesting[a] + n /\ \A x \in Account \ {a} : s.vesting[x] = st.vesting[x]
    BY <1>1, <1>4, <1>8, <1>9, RaisedIs
  <2>3. QED  BY <2>1, <2>2
<1>12. QED  BY <1>1, <1>2, <1>4, <1>9, <1>10, <1>11

(* The stake of an account without a proxy and without votes is in no tally. *)
LEMMA TalliedApart ==
  ASSUME NEW prox \in Proxies, NEW v \in Stakes, NEW cast, NEW t \in IntTally, Tallied(prox, v, cast, t),
         NEW a \in Account, prox[a] = NoProxy, Silent(cast, a), NEW n \in Int
  PROVE  Tallied(prox, Raised(v, a, n), cast, t)
<1>1. PICK t1 : t1 = Adjusted(t, prox, cast, a, Own(n))
  OBVIOUS
<1>2. t1 \in IntTally /\ Tallied(prox, Raised(v, a, n), cast, t1)
  BY <1>1, TalliedStake
<1>3. \A d \in 0..Depth : Hops(prox, a)[d + 1] = NoProxy
  <2>1. Hops(prox, a)[0] = a /\ a # NoProxy
    BY HopsAre, VoterAssumption
  <2>2. 0 \in 0..Depth /\ 0 + 1 = 1
    BY DepthAssumption
  <2>3. Hops(prox, a)[1] = NoProxy
    <3>1. Hops(prox, a)[0 + 1] = IF Hops(prox, a)[0] = NoProxy THEN NoProxy ELSE prox[Hops(prox, a)[0]]
      BY <2>2, HopsAre
    <3>2. QED  BY <2>1, <2>2, <3>1
  <2>4. SUFFICES ASSUME NEW d \in 0..Depth, Hops(prox, a)[d + 1] # NoProxy PROVE FALSE
    OBVIOUS
  <2>5. d + 1 \in Hop /\ 1 \in 0..(d + 1)
    BY DepthAssumption DEF Hop
  <2>6. QED  BY <2>3, <2>4, <2>5, HopsEnd
<1>4. Own(n) \in Deltas
  BY DEF Own, Deltas
<1>5. ASSUME NEW x \in Account, NEW k \in Reach PROVE t1.proxied[x][k] = t.proxied[x][k]
  <2>1. \A d \in 0..k : Hops(prox, a)[d + 1] # x
    <3>1. \A d \in 0..k : d \in 0..Depth
      BY DepthAssumption DEF Reach
    <3>2. QED  BY <1>3, <3>1, VoterAssumption
  <2>2. Lift(prox, a, Own(n), x, k) = 0
    BY <1>4, <2>1, LiftIs
  <2>3. t1.proxied[x][k] = t.proxied[x][k] + Lift(prox, a, Own(n), x, k)
    BY <1>1, AdjustedIs
  <2>4. t.proxied[x][k] \in Int
    BY DEF IntTally
  <2>5. QED  BY <2>2, <2>3, <2>4
<1>6. ASSUME NEW w \in Witness PROVE t1.votes[w] = t.votes[w]
  <2>1. {d \in RootDepths(Hops(prox, a)) : <<Hops(prox, a)[d], w>> \in cast} = {}
    <3>1. ASSUME NEW d \in RootDepths(Hops(prox, a)), <<Hops(prox, a)[d], w>> \in cast PROVE FALSE
      <4>1. d \in 0..Depth /\ Hops(prox, a)[d] # NoProxy
        BY DEF RootDepths
      <4>2. CASE d = 0
        BY <3>1, <4>2, HopsAre DEF Silent
      <4>3. CASE d # 0
        <5>1. d - 1 \in 0..Depth /\ (d - 1) + 1 = d
          BY <4>1, <4>3, DepthAssumption
        <5>2. QED  BY <1>3, <4>1, <5>1
      <4>4. QED  BY <4>2, <4>3
    <3>2. QED  BY <3>1
  <2>2. t1.votes[w] = t.votes[w] + SumFunctionOnSet(Through(Own(n)), {})
    <3>1. t1.votes[w] = t.votes[w] + SumFunctionOnSet(Through(Own(n)),
                                       {d \in RootDepths(Hops(prox, a)) : <<Hops(prox, a)[d], w>> \in cast})
      BY <1>1, AdjustedIs
    <3>2. QED  BY <2>1, <3>1
  <2>3. t.votes[w] \in Int
    BY DEF IntTally
  <2>4. QED  BY <2>2, <2>3, SumEmpty
<1>7. t1.proxied = t.proxied
  <2>1. \A x \in Account : t1.proxied[x] = t.proxied[x]
    <3>1. SUFFICES ASSUME NEW x \in Account PROVE t1.proxied[x] = t.proxied[x]
      OBVIOUS
    <3>2. t1.proxied[x] \in [Reach -> Int] /\ t.proxied[x] \in [Reach -> Int]
      BY <1>2 DEF IntTally
    <3>3. QED  BY <1>5, <3>2, SameFunction
  <2>2. t1.proxied \in [Account -> [Reach -> Int]] /\ t.proxied \in [Account -> [Reach -> Int]]
    BY <1>2 DEF IntTally
  <2>3. QED  BY <2>1, <2>2, SameFunction
<1>8. t1.votes = t.votes
  <2>1. t1.votes \in [Witness -> Int] /\ t.votes \in [Witness -> Int]
    BY <1>2 DEF IntTally
  <2>2. QED  BY <1>6, <2>1, SameFunction
<1>9. t1 = t
  <2>1. t1 = [proxied |-> t1.proxied, votes |-> t1.votes] /\ t = [proxied |-> t.proxied, votes |-> t.votes]
    BY <1>2 DEF IntTally
  <2>2. QED  BY <1>7, <1>8, <2>1
<1>10. QED  BY <1>2, <1>9

(* The null account's stake is burned.  The shares of the others keep their value. *)
LEMMA NullGood ==
  ASSUME proxy \in Proxies, NEW st \in State, Good(st, 0, 0),
         proxy[NullAccount] = NoProxy, Silent(votes, NullAccount), NEW s, s = NullCleared(st)
  PROVE  /\ s \in State /\ Good(s, 0, 0) /\ s.power_down = st.power_down
         /\ \A x \in Account \ {NullAccount} : s.vesting[x] = st.vesting[x]
         /\ s.vesting[NullAccount] = 0
         /\ s.shares = st.shares - st.vesting[NullAccount]
         /\ s.fund * st.shares >= st.fund * s.shares
<1>1. /\ st.vesting \in [Account -> Nat] /\ st.balance \in [Account -> Nat] /\ st.fund \in Nat /\ st.shares \in Nat
      /\ st.supply \in Nat /\ st.tally \in IntTally /\ st.power_down \in [Account -> PowerDown] /\ st.fits \in BOOLEAN
  BY DEF State
<1>2. NullAccount \in Account /\ IsFiniteSet(Account)
  BY NullAssumption, VoterAssumption
<1>3. PICK n \in Nat : n = st.vesting[NullAccount]
  BY <1>1, <1>2
<1>4. PICK b \in Nat : b = st.balance[NullAccount]
  BY <1>1, <1>2
<1>5. n <= st.shares /\ b <= SumFunctionOnSet(st.balance, Account) /\ SumFunctionOnSet(st.balance, Account) \in Nat
  <2>1. n <= SumFunctionOnSet(st.vesting, Account) /\ SumFunctionOnSet(st.vesting, Account) \in Nat
    BY <1>1, <1>2, <1>3, SumBounds
  <2>2. SumFunctionOnSet(st.vesting, Account) = st.shares + 0
    BY DEF Good
  <2>3. QED  BY <1>1, <1>2, <1>4, <2>1, <2>2, SumBounds
<1>6. PICK g \in Nat : /\ g = (IF st.vesting[NullAccount] > 0 THEN Sold(st, st.vesting[NullAccount]) ELSE 0)
                       /\ g <= st.fund /\ (st.shares - n > 0 => st.fund - g > 0)
                       /\ (st.fund - g) * st.shares >= st.fund * (st.shares - n)
  <2>1. st.shares > 0 => st.fund > 0
    BY DEF Good
  <2>2. CASE n > 0
    <3>1. /\ Sold(st, n) \in Nat /\ Sold(st, n) <= st.fund
          /\ st.shares - n > 0 => st.fund - Sold(st, n) > 0
          /\ (st.fund - Sold(st, n)) * st.shares >= st.fund * (st.shares - n)
      BY <1>1, <1>5, <2>1, SoldIs
    <3>2. QED  BY <1>3, <2>2, <3>1
  <2>3. CASE n = 0
    <3>1. st.fund - 0 = st.fund /\ st.shares - 0 = st.shares /\ st.fund * st.shares \in Nat
      BY <1>1
    <3>2. (st.fund - 0) * st.shares >= st.fund * (st.shares - 0)
      BY <3>1
    <3>3. 0 \in Nat /\ 0 <= st.fund /\ (st.shares - n > 0 => st.fund - 0 > 0)
      BY <1>1, <2>1, <2>3
    <3>4. QED  BY <1>3, <2>3, <3>2, <3>3
  <2>4. QED  BY <2>2, <2>3
<1>7. PICK v : v = Raised(st.vesting, NullAccount, -n)
  OBVIOUS
<1>8. PICK c : c = Raised(st.balance, NullAccount, -b)
  OBVIOUS
<1>9. /\ st.vesting \in Stakes /\ v \in [Account -> Nat] /\ v[NullAccount] = 0
      /\ \A x \in Account \ {NullAccount} : v[x] = st.vesting[x]
      /\ SumFunctionOnSet(v, Account) = SumFunctionOnSet(st.vesting, Account) + (-n)
      /\ SumFunctionOnSet(st.vesting, Account) \in Nat
  <2>1. -n \in Int /\ st.vesting[NullAccount] + (-n) >= 0 /\ st.vesting[NullAccount] + (-n) = 0
    BY <1>1, <1>3
  <2>2. QED  BY <1>1, <1>2, <1>7, <2>1, RaisedIs
<1>10. /\ c \in [Account -> Nat] /\ c[NullAccount] = 0
       /\ \A x \in Account \ {NullAccount} : c[x] = st.balance[x]
       /\ SumFunctionOnSet(c, Account) = SumFunctionOnSet(st.balance, Account) + (-b)
  <2>1. -b \in Int /\ st.balance[NullAccount] + (-b) >= 0 /\ st.balance[NullAccount] + (-b) = 0
    BY <1>1, <1>4
  <2>2. QED  BY <1>1, <1>2, <1>8, <2>1, RaisedIs
<1>11. [st.vesting EXCEPT ![NullAccount] = 0] = v
  <2>1. PICK u : u = [st.vesting EXCEPT ![NullAccount] = 0]
    OBVIOUS
  <2>2. u \in [Account -> Nat] /\ \A x \in Account : u[x] = v[x]
    BY <1>1, <1>9, <2>1
  <2>3. QED  BY <1>9, <2>1, <2>2, SameFunction
<1>12. [st.balance EXCEPT ![NullAccount] = 0] = c
  <2>1. PICK u : u = [st.balance EXCEPT ![NullAccount] = 0]
    OBVIOUS
  <2>2. u \in [Account -> Nat] /\ \A x \in Account : u[x] = c[x]
    BY <1>1, <1>10, <2>1
  <2>3. QED  BY <1>10, <2>1, <2>2, SameFunction
<1>13. PICK sup \in Nat : sup = st.supply - g - b
  <2>1. st.supply = st.fund + SumFunctionOnSet(st.balance, Account) + 0
    BY DEF Good
  <2>2. st.supply - g - b \in Nat
    BY <1>1, <1>5, <1>6, <2>1
  <2>3. QED  BY <2>2
<1>14. PICK f \in Nat : f = st.fund - g
  <2>1. st.fund - g \in Nat
    BY <1>1, <1>6
  <2>2. QED  BY <2>1
<1>15. PICK k \in Nat : k = st.shares - n
  <2>1. st.shares - n \in Nat
    BY <1>1, <1>5
  <2>2. QED  BY <2>1
<1>16. s = [st EXCEPT !.supply = sup, !.fund = f, !.shares = k, !.vesting = v, !.balance = c]
  <2>1. s = [st EXCEPT !.supply = st.supply - g - st.balance[NullAccount], !.fund = st.fund - g,
                 !.shares = st.shares - st.vesting[NullAccount],
                 !.vesting = [st.vesting EXCEPT ![NullAccount] = 0], !.balance = [st.balance EXCEPT ![NullAccount] = 0]]
    BY <1>6 DEF NullCleared, State
  <2>2. QED  BY <1>3, <1>4, <1>11, <1>12, <1>13, <1>14, <1>15, <2>1
<1>17. s \in State
  BY <1>1, <1>9, <1>10, <1>16 DEF State
<1>18. /\ s.vesting = v /\ s.tally = st.tally /\ s.balance = c /\ s.fund = f
       /\ s.shares = k /\ s.supply = sup /\ s.power_down = st.power_down
  BY <1>16 DEF State
<1>19. Good(s, 0, 0)
  <2>1. SumFunctionOnSet(s.vesting, Account) = s.shares + 0
    BY <1>1, <1>9, <1>15, <1>18 DEF Good
  <2>2. s.supply = s.fund + SumFunctionOnSet(s.balance, Account) + 0
    BY <1>1, <1>5, <1>10, <1>13, <1>14, <1>18 DEF Good
  <2>3. s.shares > 0 => s.fund > 0
    BY <1>6, <1>14, <1>15, <1>18
  <2>4. Tallied(proxy, v, votes, st.tally)
    <3>1. Tallied(proxy, st.vesting, votes, st.tally) /\ -n \in Int
      BY DEF Good
    <3>2. QED  BY <1>1, <1>2, <1>7, <1>9, <3>1, TalliedApart
  <2>5. QED  BY <1>18, <2>1, <2>2, <2>3, <2>4 DEF Good
<1>20. QED  BY <1>3, <1>6, <1>9, <1>14, <1>15, <1>17, <1>18, <1>19

(* process_funds() *)
LEMMA FundedGood ==
  ASSUME proxy \in Proxies, NEW st \in State, Good(st, 0, 0), NEW a \in Account, NEW r \in Nat \X Nat,
         NEW s, s = Funded(st, a, r)
  PROVE  /\ s \in State /\ Good(s, 0, 0) /\ s.power_down = st.power_down
         /\ \A x \in Account : s.vesting[x] >= st.vesting[x]
         /\ st.shares > 0 => s.fund * st.shares >= st.fund * s.shares
<1>1. /\ st.vesting \in [Account -> Nat] /\ st.balance \in [Account -> Nat] /\ st.fund \in Nat /\ st.shares \in Nat
      /\ st.supply \in Nat /\ st.tally \in IntTally /\ st.power_down \in [Account -> PowerDown] /\ st.fits \in BOOLEAN
  BY DEF State
<1>2. PICK x \in Nat : x = r[1]
  OBVIOUS
<1>3. PICK y \in Nat : y = r[2]
  OBVIOUS
<1>4. PICK sup \in Nat : sup = st.supply + x + y
  BY <1>1
<1>5. PICK f \in Nat : f = st.fund + x
  BY <1>1
<1>6. PICK m : m = [st EXCEPT !.supply = sup, !.fund = f]
  OBVIOUS
<1>7. m \in State
  BY <1>1, <1>6 DEF State
<1>8. /\ m.vesting = st.vesting /\ m.balance = st.balance /\ m.fund = f
      /\ m.shares = st.shares /\ m.supply = sup /\ m.tally = st.tally /\ m.power_down = st.power_down
  BY <1>6 DEF State
<1>9. s = create_vesting(m, a, y)
  <2>1. s = create_vesting([st EXCEPT !.supply = st.supply + x + y, !.fund = st.fund + x], a, y)
    BY <1>2, <1>3 DEF Funded, State
  <2>2. QED  BY <1>4, <1>5, <1>6, <2>1
<1>10. SumFunctionOnSet(st.balance, Account) \in Nat
  <2>1. IsFiniteSet(Account) /\ \A z \in Account : st.balance[z] \in Nat
    BY <1>1, VoterAssumption
  <2>2. QED  BY <2>1, SumBounds, SumType
<1>11. Good(m, 0, y)
  <2>1. SumFunctionOnSet(m.vesting, Account) = m.shares + 0
    BY <1>8 DEF Good
  <2>2. m.supply = m.fund + SumFunctionOnSet(m.balance, Account) + y
    BY <1>1, <1>4, <1>5, <1>8, <1>10 DEF Good
  <2>3. m.shares > 0 => m.fund > 0
    BY <1>1, <1>5, <1>8 DEF Good
  <2>4. QED  BY <1>8, <2>1, <2>2, <2>3 DEF Good
<1>12. /\ s \in State /\ Good(s, 0, 0) /\ s.power_down = m.power_down
       /\ \A z \in Account : s.vesting[z] >= m.vesting[z]
       /\ m.shares > 0 => s.fund * m.shares >= m.fund * s.shares
  BY <1>7, <1>9, <1>11, CreateGood
<1>13. ASSUME st.shares > 0 PROVE s.fund * st.shares >= st.fund * s.shares
  <2>1. s.fund * st.shares >= f * s.shares
    BY <1>8, <1>12, <1>13
  <2>2. s.fund \in Nat /\ s.shares \in Nat
    BY <1>12 DEF State
  <2>3. st.fund * s.shares <= f * s.shares
    BY <1>1, <1>5, <2>2, MulMonotone
  <2>4. st.fund * s.shares \in Nat /\ f * s.shares \in Nat /\ s.fund * st.shares \in Nat
    BY <1>1, <2>2
  <2>5. QED  BY <2>1, <2>3, <2>4
<1>14. QED  BY <1>8, <1>12, <1>13

(* A route is served: its part leaves the account by way of a sale, or stays *)
(* in the stakes once more until the instalment leaves the account's.        *)
LEMMA ServedGood ==
  ASSUME proxy \in Proxies, NEW st \in State, NEW extra \in Nat, Good(st, extra, 0),
         NEW r \in Route, NEW n \in Nat, Part(n, r) \in Nat, NEW a \in Account, n <= st.vesting[a],
         extra + Part(n, r) <= n, NEW s, s = Served(st, n, r)
  PROVE  /\ s \in State /\ Good(s, extra + Part(n, r), 0) /\ s.power_down = st.power_down
         /\ \A x \in Account : s.vesting[x] >= st.vesting[x]
         /\ s.shares <= st.shares
         /\ s.fund * st.shares >= st.fund * s.shares
<1>1. /\ st.vesting \in [Account -> Nat] /\ st.fund \in Nat /\ st.shares \in Nat
  BY DEF State
<1>2. PICK m \in Nat : m = Part(n, r)
  OBVIOUS
<1>3. r.to \in Account /\ IsFiniteSet(Account) /\ extra \in Int /\ m \in Int /\ 0 \in Int
  BY VoterAssumption DEF Route
<1>4. \A x \in Account : st.vesting[x] \in Nat
  BY <1>1
<1>5. st.fund * st.shares \in Nat
  BY <1>1
<1>6. CASE ~r.auto_vest
  <2>1. m <= st.shares
    <3>1. st.vesting[a] <= SumFunctionOnSet(st.vesting, Account)
      BY <1>3, <1>4, SumBounds
    <3>2. SumFunctionOnSet(st.vesting, Account) = st.shares + extra
      BY DEF Good
    <3>3. QED  BY <1>1, <1>2, <1>4, <3>1, <3>2
  <2>2. s = Paid(st, r.to, m)
    BY <1>2, <1>6 DEF Served
  <2>3. /\ s \in State /\ Good(s, extra + m, 0) /\ s.vesting = st.vesting
        /\ s.shares = st.shares - m /\ s.power_down = st.power_down
        /\ s.fund * st.shares >= st.fund * s.shares
    BY <1>3, <2>1, <2>2, PaidGood
  <2>4. s.shares <= st.shares
    BY <1>1, <2>3
  <2>5. \A x \in Account : s.vesting[x] >= st.vesting[x]
    BY <1>4, <2>3
  <2>6. QED  BY <1>2, <2>3, <2>4, <2>5
<1>7. CASE r.auto_vest /\ m > 0
  <2>1. s = Vested(st, r.to, m) /\ st.vesting[r.to] + m >= 0
    BY <1>2, <1>3, <1>4, <1>7 DEF Served
  <2>2. /\ s \in State /\ Good(s, extra + m, 0) /\ s.vesting = Raised(st.vesting, r.to, m)
        /\ s.fund = st.fund /\ s.shares = st.shares /\ s.power_down = st.power_down
    BY <1>3, <2>1, VestedGood
  <2>3. s.vesting[r.to] = st.vesting[r.to] + m /\ \A x \in Account \ {r.to} : s.vesting[x] = st.vesting[x]
    BY <1>1, <1>3, <2>1, <2>2, RaisedIs
  <2>4. \A x \in Account : s.vesting[x] >= st.vesting[x]
    BY <1>3, <1>4, <2>3
  <2>5. s.shares <= st.shares /\ s.fund * st.shares >= st.fund * s.shares
    BY <1>1, <1>5, <2>2
  <2>6. QED  BY <1>2, <2>2, <2>4, <2>5
<1>8. CASE r.auto_vest /\ m = 0
  <2>1. s = st /\ extra + m = extra
    BY <1>2, <1>8 DEF Served
  <2>2. \A x \in Account : s.vesting[x] >= st.vesting[x]
    BY <1>4, <2>1
  <2>3. s.shares <= st.shares /\ s.fund * st.shares >= st.fund * s.shares
    BY <1>1, <1>5, <2>1
  <2>4. QED  BY <1>2, <2>1, <2>2, <2>3
<1>9. r.auto_vest \in BOOLEAN /\ (m = 0 \/ m > 0)
  BY DEF Route
<1>10. QED  BY <1>6, <1>7, <1>8, <1>9

(* The routes of an account have an order. *)
LEMMA LastRouteIs ==
  ASSUME NEW mine \in SUBSET Route, IsFiniteSet(mine), \A r, s \in mine : r.to = s.to => r = s
  PROVE  \A R \in SUBSET mine : R # {} => LastRoute(R) \in R
<1> DEFINE B == {p \in Route \X Route : RouteBefore(p[1], p[2])}
<1>1. \A r, s \in Route : <<r, s>> \in B <=> RouteBefore(r, s)
  OBVIOUS
<1> HIDE DEF B
<1>2. \A r \in Route : r.to \in Nat /\ r.auto_vest \in BOOLEAN
  BY VoterAssumption DEF Route
<1>3. Total(B, mine)
  <2>1. SUFFICES ASSUME NEW r \in mine, NEW s \in mine, r # s PROVE <<r, s>> \in B \/ <<s, r>> \in B
    BY DEF Total
  <2>2. r.to # s.to /\ r \in Route /\ s \in Route
    BY <2>1
  <2>3. RouteBefore(r, s) \/ RouteBefore(s, r)
    BY <1>2, <2>2 DEF RouteBefore
  <2>4. QED  BY <1>1, <2>2, <2>3
<1>4. Transitive(B, mine)
  <2>1. SUFFICES ASSUME NEW r \in mine, NEW s \in mine, NEW q \in mine, <<r, s>> \in B, <<s, q>> \in B
                 PROVE  <<r, q>> \in B
    BY DEF Transitive
  <2>2. r \in Route /\ s \in Route /\ q \in Route
    OBVIOUS
  <2>3. RouteBefore(r, s) /\ RouteBefore(s, q)
    BY <1>1, <2>1, <2>2
  <2>4. RouteBefore(r, q)
    BY <1>2, <2>2, <2>3 DEF RouteBefore
  <2>5. QED  BY <1>1, <2>2, <2>4
<1>5. SUFFICES ASSUME NEW R \in SUBSET mine, R # {} PROVE LastRoute(R) \in R
  OBVIOUS
<1>6. PICK r \in R : \A s \in R \ {r} : <<s, r>> \in B
  BY <1>3, <1>4, <1>5, LastExists
<1>7. \A s \in R \ {r} : RouteBefore(s, r)
  BY <1>1, <1>6
<1>8. QED  BY <1>7 DEF LastRoute

(* What is so once the routes R have been served, from st on. *)
RoutedSound(st, parts, R, s) ==
  /\ Good(s, SumFunctionOnSet(parts, R), 0) /\ s.power_down = st.power_down
  /\ \A x \in Account : s.vesting[x] >= st.vesting[x]
  /\ s.shares <= st.shares
  /\ s.fund * st.shares >= st.fund * s.shares

(* All routes of an account. *)
LEMMA RoutedGood ==
  ASSUME proxy \in Proxies, NEW st \in State, Good(st, 0, 0), NEW a \in Account, NEW n \in Nat, n <= st.vesting[a],
         NEW mine \in SUBSET Route, IsFiniteSet(mine), \A r, s \in mine : r.to = s.to => r = s,
         NEW parts, \A r \in mine : parts[r] \in Nat /\ parts[r] = Part(n, r),
         SumFunctionOnSet(parts, mine) <= n
  PROVE  Routed(st, n, mine)[mine] \in State /\ RoutedSound(st, parts, mine, Routed(st, n, mine)[mine])
<1> DEFINE step == [p \in State \X mine |-> Served(p[1], n, p[2])]
           last == [R \in SUBSET mine |-> LastRoute(R)]
           All == {p \in (SUBSET mine) \X State : RoutedSound(st, parts, p[1], p[2])}
<1>0. /\ st.vesting \in [Account -> Nat] /\ st.fund \in Nat /\ st.shares \in Nat
  BY DEF State
<1>1. \A R \in SUBSET mine : R # {} => last[R] = LastRoute(R) /\ last[R] \in R
  BY LastRouteIs
<1>2. \A s \in State, r \in mine : step[<<s, r>>] = Served(s, n, r)
  OBVIOUS
<1>3. \A R \in SUBSET mine : \A s : <<R, s>> \in All <=> s \in State /\ RoutedSound(st, parts, R, s)
  OBVIOUS
<1> HIDE DEF step, last, All
<1>4. <<{}, st>> \in All
  <2>1. SumFunctionOnSet(parts, {}) = 0
    BY SumEmpty
  <2>2. \A x \in Account : st.vesting[x] >= st.vesting[x]
    BY <1>0
  <2>3. st.shares <= st.shares /\ st.fund * st.shares >= st.fund * st.shares
    BY <1>0
  <2>4. RoutedSound(st, parts, {}, st)
    BY <2>1, <2>2, <2>3 DEF RoutedSound
  <2>5. {} \in SUBSET mine
    OBVIOUS
  <2>6. QED  BY <1>3, <2>4, <2>5
<1>5. ASSUME NEW R \in SUBSET mine, R # {}, NEW s, <<R \ {last[R]}, s>> \in All
      PROVE  <<R, step[<<s, last[R]>>]>> \in All
  <2>1. PICK r \in R : r = last[R]
    BY <1>1, <1>5
  <2>2. r \in mine /\ r \in Route /\ R \ {r} \in SUBSET mine
    BY <2>1
  <2>3. s \in State /\ RoutedSound(st, parts, R \ {r}, s)
    BY <1>3, <1>5, <2>1, <2>2
  <2>4. PICK s1 : s1 = Served(s, n, r)
    OBVIOUS
  <2>5. step[<<s, last[R]>>] = s1
    BY <1>2, <2>1, <2>2, <2>3, <2>4
  <2>6. IsFiniteSet(R) /\ IsFiniteSet(R \ {r}) /\ \A x \in R : parts[x] \in Int /\ parts[x] \in Nat
    BY FS_Subset
  <2>7. PICK e \in Nat : e = SumFunctionOnSet(parts, R \ {r})
    <3>1. /\ SumFunctionOnSet(parts, R \ {r}) \in Int
          /\ (\A x \in R \ {r} : parts[x] >= 0) => SumFunctionOnSet(parts, R \ {r}) >= 0
      <4>1. \A x \in R \ {r} : parts[x] \in Int
        BY <2>6
      <4>2. QED  BY <2>6, <4>1, SumType
    <3>2. \A x \in R \ {r} : parts[x] >= 0
      BY <2>6
    <3>3. QED  BY <3>1, <3>2
  <2>8. SumFunctionOnSet(parts, R) = parts[r] + e
    BY <2>1, <2>6, <2>7, SumRemove
  <2>9. parts[r] = Part(n, r) /\ parts[r] \in Nat
    BY <2>2
  <2>10. SumFunctionOnSet(parts, R) <= n
    <3>1. \A x \in mine : parts[x] \in Int
      OBVIOUS
    <3>2. /\ IsFiniteSet(mine \ R) /\ SumFunctionOnSet(parts, R) \in Int /\ SumFunctionOnSet(parts, mine) \in Int
          /\ SumFunctionOnSet(parts, mine \ R) = SumFunctionOnSet(parts, mine) - SumFunctionOnSet(parts, R)
      BY <3>1, SumMinus
    <3>3. SumFunctionOnSet(parts, mine \ R) >= 0
      <4>1. \A x \in mine \ R : parts[x] \in Int /\ parts[x] >= 0
        OBVIOUS
      <4>2. QED  BY <3>2, <4>1, SumType
    <3>4. QED  BY <3>2, <3>3
  <2>11. /\ s.vesting \in [Account -> Nat] /\ s.fund \in Nat /\ s.shares \in Nat
    BY <2>3 DEF State
  <2>12. n <= s.vesting[a] /\ e + Part(n, r) <= n
    <3>1. s.vesting[a] >= st.vesting[a] /\ s.vesting[a] \in Nat /\ st.vesting[a] \in Nat
      BY <1>0, <2>3, <2>11 DEF RoutedSound
    <3>2. QED  BY <2>8, <2>9, <2>10, <3>1
  <2>13. Good(s, e, 0)
    BY <2>3, <2>7 DEF RoutedSound
  <2>14. /\ s1 \in State /\ Good(s1, e + Part(n, r), 0) /\ s1.power_down = s.power_down
         /\ \A x \in Account : s1.vesting[x] >= s.vesting[x]
         /\ s1.shares <= s.shares
         /\ s1.fund * s.shares >= s.fund * s1.shares
    BY <2>2, <2>3, <2>4, <2>9, <2>12, <2>13, ServedGood
  <2>15. /\ s1.vesting \in [Account -> Nat] /\ s1.fund \in Nat /\ s1.shares \in Nat
    BY <2>14 DEF State
  <2>16. s1.fund * st.shares >= st.fund * s1.shares
    <3>1. s.fund * st.shares >= st.fund * s.shares /\ (s.shares = 0 => s1.shares = 0)
      BY <2>3, <2>11, <2>14, <2>15 DEF RoutedSound
    <3>2. QED  BY <1>0, <2>11, <2>14, <2>15, <3>1, ValueChain
  <2>17. s1.shares <= st.shares
    BY <1>0, <2>3, <2>11, <2>14, <2>15 DEF RoutedSound
  <2>18. \A x \in Account : s1.vesting[x] >= st.vesting[x]
    <3>1. SUFFICES ASSUME NEW x \in Account PROVE s1.vesting[x] >= st.vesting[x]
      OBVIOUS
    <3>2. s.vesting[x] >= st.vesting[x] /\ s1.vesting[x] >= s.vesting[x]
      BY <2>3, <2>14 DEF RoutedSound
    <3>3. s.vesting[x] \in Nat /\ s1.vesting[x] \in Nat /\ st.vesting[x] \in Nat
      BY <1>0, <2>11, <2>15
    <3>4. QED  BY <3>2, <3>3
  <2>19. e + Part(n, r) = SumFunctionOnSet(parts, R)
    BY <2>8, <2>9
  <2>20. RoutedSound(st, parts, R, s1)
    BY <2>3, <2>14, <2>16, <2>17, <2>18, <2>19 DEF RoutedSound
  <2>21. QED  BY <1>3, <2>5, <2>14, <2>20
<1>6. Chooses(last, mine)
  BY <1>1 DEF Chooses
<1>7. StepsHold(step, mine, last, All)
  BY <1>5 DEF StepsHold
<1>8. PICK g : IsFold(step, st, mine, last, g) /\ HoldsAll(mine, All, g)
  BY <1>4, <1>6, <1>7, FoldHolds
<1>9. \A R \in SUBSET mine : g[R] \in State /\ RoutedSound(st, parts, R, g[R])
  BY <1>3, <1>8 DEF HoldsAll
<1>10. \A R \in SUBSET mine : g[R] = IF R = {} THEN st ELSE Served(g[R \ {LastRoute(R)}], n, LastRoute(R))
  <2>1. SUFFICES ASSUME NEW R \in SUBSET mine
                 PROVE  g[R] = IF R = {} THEN st ELSE Served(g[R \ {LastRoute(R)}], n, LastRoute(R))
    OBVIOUS
  <2>2. g[R] = IF R = {} THEN st ELSE step[<<g[R \ {last[R]}], last[R]>>]
    BY <1>8 DEF IsFold
  <2>3. CASE R # {}
    <3>1. last[R] = LastRoute(R) /\ last[R] \in mine /\ R \ {last[R]} \in SUBSET mine
      BY <1>1, <2>3
    <3>2. step[<<g[R \ {last[R]}], last[R]>>] = Served(g[R \ {last[R]}], n, last[R])
      BY <1>2, <1>9, <3>1
    <3>3. QED  BY <2>2, <2>3, <3>1, <3>2
  <2>4. QED  BY <2>2, <2>3
<1> DEFINE Solves(f) == f = [R \in SUBSET mine |-> IF R = {} THEN st ELSE Served(f[R \ {LastRoute(R)}], n, LastRoute(R))]
<1>11. Solves(g)
  <2>1. g = [R \in SUBSET mine |-> g[R]]
    BY <1>8 DEF IsFold
  <2>2. QED  BY <1>10, <2>1
<1>12. Routed(st, n, mine) = CHOOSE f : Solves(f)
  BY DEF Routed
<1>13. PICK f : f = Routed(st, n, mine)
  OBVIOUS
<1>14. Solves(f)
  <2> HIDE DEF Solves
  <2>1. QED  BY <1>11, <1>12, <1>13
<1>15. \A R \in SUBSET mine : f[R] = g[R]
  <2>1. \A R \in SUBSET mine : f[R] = IF R = {} THEN st ELSE Served(f[R \ {LastRoute(R)}], n, LastRoute(R))
    BY <1>14
  <2> HIDE DEF Solves
  <2>2. f[{}] = g[{}]
    BY <1>10, <2>1
  <2>3. ASSUME NEW R \in SUBSET mine, R # {}, f[R \ {last[R]}] = g[R \ {last[R]}] PROVE f[R] = g[R]
    <3>1. last[R] = LastRoute(R)
      BY <1>1, <2>3
    <3>2. f[R] = Served(f[R \ {last[R]}], n, last[R])
      BY <2>1, <2>3, <3>1
    <3>3. g[R] = Served(g[R \ {last[R]}], n, last[R])
      BY <1>10, <2>3, <3>1
    <3>4. QED  BY <2>3, <3>2, <3>3
  <2>4. StayAlike(mine, last, f, g)
    BY <2>2, <2>3 DEF StayAlike
  <2>5. QED  BY <1>6, <2>4, FoldSame
<1>16. QED  BY <1>9, <1>13, <1>15

(* An account has what it delegated and what it is still to withdraw; a      *)
(* withdrawal is complete or has an instalment ahead, and it runs in whole   *)
(* instalments.                                                              *)
Promised(st, a) == delegated[a] + (st.power_down[a].to_withdraw - st.power_down[a].withdrawn) <= st.vesting[a]
Exact(p, t) == IF p.rate = 0 THEN p.withdrawn = p.to_withdraw /\ p.next = Never
               ELSE p.withdrawn < p.to_withdraw /\ t < p.next
Whole(p) == p.rate # 0 => p.withdrawn % p.rate = 0

(* What an instalment is. *)
LEMMA InstalmentIs ==
  ASSUME NEW st \in State, NEW a \in Account, NEW p, p = st.power_down[a], NEW n, n = Instalment(st, a),
         p.rate # 0, p.withdrawn < p.to_withdraw, Whole(p), p.to_withdraw - p.withdrawn <= st.vesting[a]
  PROVE  /\ n \in Nat /\ n > 0 /\ n <= p.to_withdraw - p.withdrawn /\ n <= st.vesting[a]
         /\ n = p.to_withdraw - p.withdrawn \/ n = p.rate
<1>1. /\ p.rate \in Nat \ {0} /\ p.to_withdraw \in Nat /\ p.withdrawn \in Nat /\ st.vesting[a] \in Nat
  BY DEF State, PowerDown
<1>2. PICK left \in Nat : left = p.to_withdraw - p.withdrawn
  BY <1>1
<1>3. left > 0 /\ p.to_withdraw = p.withdrawn + left /\ left <= st.vesting[a]
  BY <1>1, <1>2
<1>4. n = LET m == IF left < p.rate THEN p.to_withdraw % p.rate ELSE p.rate
          IN  IF m < st.vesting[a] THEN m ELSE st.vesting[a]
  BY <1>2 DEF Instalment
<1>5. CASE left < p.rate
  <2>1. p.to_withdraw % p.rate = left
    <3>1. p.withdrawn % p.rate = 0
      BY <1>1 DEF Whole
    <3>2. (p.withdrawn + left) % p.rate = left
      BY <1>1, <1>5, <3>1, ModLeft
    <3>3. QED  BY <1>3, <3>2
  <2>2. n = left
    BY <1>1, <1>3, <1>4, <1>5, <2>1
  <2>3. QED  BY <1>2, <1>3, <2>2
<1>6. CASE ~(left < p.rate)
  <2>1. n = p.rate
    BY <1>1, <1>3, <1>4, <1>6
  <2>2. QED  BY <1>1, <1>2, <1>3, <1>6, <2>1
<1>7. QED  BY <1>5, <1>6

(* What a withdrawal is after an instalment. *)
LEMMA AfterIs ==
  ASSUME NEW p \in PowerDown, NEW t \in Nat, p.next = t, p.rate # 0, p.withdrawn < p.to_withdraw, Whole(p),
         NEW n \in Nat, n <= p.to_withdraw - p.withdrawn, n = p.to_withdraw - p.withdrawn \/ n = p.rate,
         NEW d \in Nat, NEW left \in Nat, d + (p.to_withdraw - p.withdrawn) <= left + n,
         NEW q, q = PowerDownAfter(p, n, left)
  PROVE  /\ q \in PowerDown /\ Exact(q, t) /\ Whole(q)
         /\ d + (q.to_withdraw - q.withdrawn) <= left
<1>1. p.rate \in Nat \ {0} /\ p.to_withdraw \in Nat /\ p.withdrawn \in Nat /\ p.next \in Nat
  BY DEF PowerDown
<1>2. Interval \in Nat \ {0} /\ Never \in Nat
  BY WithdrawAssumption, TimeAssumption
<1>3. PICK w \in Nat : w = p.withdrawn + n
  BY <1>1
<1>4. CASE w >= p.to_withdraw \/ left = 0
  <2>1. w = p.to_withdraw
    BY <1>1, <1>3, <1>4
  <2>2. q = [p EXCEPT !.withdrawn = w, !.rate = 0, !.next = Never]
    BY <1>1, <1>3, <1>4 DEF PowerDownAfter, PowerDown
  <2>3. q \in PowerDown /\ q.rate = 0 /\ q.next = Never /\ q.withdrawn = w /\ q.to_withdraw = p.to_withdraw
    <3>0. q = [rate |-> 0, next |-> Never, to_withdraw |-> p.to_withdraw, withdrawn |-> w]
      BY <2>2 DEF PowerDown
    <3>1. q \in PowerDown
      BY <1>1, <1>2, <3>0 DEF PowerDown
    <3>2. q.rate = 0 /\ q.next = Never /\ q.withdrawn = w /\ q.to_withdraw = p.to_withdraw
      BY <3>0
    <3>3. QED  BY <3>1, <3>2
  <2>4. d <= left
    BY <1>1, <1>3, <2>1
  <2>5. QED  BY <1>1, <2>1, <2>3, <2>4 DEF Exact, Whole
<1>5. CASE ~(w >= p.to_withdraw \/ left = 0)
  <2>1. n = p.rate
    BY <1>1, <1>3, <1>5
  <2>2. PICK x \in Nat : x = p.next + Interval
    BY <1>1, <1>2
  <2>3. q = [p EXCEPT !.withdrawn = w, !.next = x]
    BY <1>1, <1>3, <1>5, <2>2 DEF PowerDownAfter, PowerDown
  <2>4. q \in PowerDown /\ q.rate = p.rate /\ q.next = x /\ q.withdrawn = w /\ q.to_withdraw = p.to_withdraw
    BY <2>3 DEF PowerDown
  <2>5. w % p.rate = 0
    <3>1. p.withdrawn % p.rate = 0 /\ 0 \in Nat /\ 0 < p.rate
      BY <1>1 DEF Whole
    <3>2. (p.withdrawn + p.rate) % p.rate = 0
      BY <1>1, <3>1, ModLeft
    <3>3. QED  BY <1>3, <2>1, <3>2
  <2>6. t < x
    BY <1>2, <2>2
  <2>7. w < p.to_withdraw
    BY <1>1, <1>5
  <2>8. d + (p.to_withdraw - w) <= left
    BY <1>1, <1>3
  <2>9. QED  BY <1>1, <2>4, <2>5, <2>6, <2>7, <2>8 DEF Exact, Whole
<1>6. QED  BY <1>4, <1>5

(* The withdrawal of account a, due at t, can take its instalment from st. *)
Ready(st, a, t) ==
  LET p == st.power_down[a]
  IN  p.next = t /\ p.rate # 0 /\ p.withdrawn < p.to_withdraw /\ Whole(p) /\ Promised(st, a)

(* One account's instalment. *)
LEMMA WithdrawnGood ==
  ASSUME proxy \in Proxies, routes \subseteq Route, RoutesInv, delegated \in [Account -> Nat],
         NEW st \in State, Good(st, 0, 0), NEW a \in Account, NEW t \in Nat, Ready(st, a, t),
         NEW s, s = Withdrawn(st, a)
  PROVE  /\ s \in State /\ Good(s, 0, 0)
         /\ \A x \in Account : Promised(st, x) => Promised(s, x)
         /\ \A x \in Account \ {a} : s.power_down[x] = st.power_down[x]
         /\ Exact(s.power_down[a], t) /\ Whole(s.power_down[a])
         /\ s.shares <= st.shares /\ s.fund * st.shares >= st.fund * s.shares
<1>1. /\ st.vesting \in [Account -> Nat] /\ st.fund \in Nat /\ st.shares \in Nat
      /\ st.power_down \in [Account -> PowerDown]
  BY DEF State
<1>2. PICK p \in PowerDown : p = st.power_down[a]
  BY <1>1
<1>3. p.rate \in Nat /\ p.to_withdraw \in Nat /\ p.withdrawn \in Nat /\ delegated[a] \in Nat /\ st.vesting[a] \in Nat
  BY <1>1, <1>2 DEF PowerDown
<1>4. /\ p.next = t /\ p.rate # 0 /\ p.withdrawn < p.to_withdraw /\ Whole(p)
      /\ delegated[a] + (p.to_withdraw - p.withdrawn) <= st.vesting[a]
  BY <1>2 DEF Ready, Promised
<1>5. PICK n : n = Instalment(st, a)
  OBVIOUS
<1>6. /\ n \in Nat /\ n > 0 /\ n <= p.to_withdraw - p.withdrawn /\ n <= st.vesting[a]
      /\ n = p.to_withdraw - p.withdrawn \/ n = p.rate
  <2>1. p.to_withdraw - p.withdrawn <= st.vesting[a]
    BY <1>3, <1>4
  <2>2. QED  BY <1>2, <1>4, <1>5, <2>1, InstalmentIs
<1>7. PICK mine : mine = RoutesOf(routes, a)
  OBVIOUS
<1>8. /\ mine \in SUBSET Route /\ IsFiniteSet(mine) /\ \A r \in mine : r.percent \in Nat
      /\ \A r, q \in mine : r.to = q.to => r = q
      /\ SumFunction([r \in mine |-> r.percent]) <= Full
  <2>1. mine \subseteq routes /\ \A r \in mine : r.from = a
    BY <1>7 DEF RoutesOf
  <2>2. IsFiniteSet(mine)
    BY <2>1, FS_Subset DEF RoutesInv
  <2>3. \A r \in mine : r.percent \in Nat
    BY <2>1, WithdrawAssumption DEF Route
  <2>4. QED  BY <1>7, <2>1, <2>2, <2>3 DEF RoutesInv
<1>9. PICK parts : parts = [r \in mine |-> Part(n, r)]
  OBVIOUS
<1>10. /\ \A r \in mine : parts[r] \in Nat /\ parts[r] = Part(n, r)
       /\ SumFunctionOnSet(parts, mine) \in Nat /\ SumFunctionOnSet(parts, mine) <= n
  BY <1>6, <1>8, <1>9, PartsFit
<1>11. PICK e \in Nat : e = SumFunctionOnSet(parts, mine)
  BY <1>10
<1>12. PICK routed : routed = Routed(st, n, mine)[mine]
  OBVIOUS
<1>13. routed \in State /\ RoutedSound(st, parts, mine, routed)
  BY <1>6, <1>8, <1>10, <1>12, RoutedGood
<1>14. /\ routed.vesting \in [Account -> Nat] /\ routed.fund \in Nat /\ routed.shares \in Nat
       /\ Good(routed, e, 0) /\ routed.power_down = st.power_down
       /\ \A x \in Account : routed.vesting[x] >= st.vesting[x]
       /\ routed.shares <= st.shares /\ routed.fund * st.shares >= st.fund * routed.shares
  BY <1>11, <1>13 DEF State, RoutedSound
<1>15. PICK rest \in Nat : rest = n - SumFunction(parts)
  <2>1. SumFunction(parts) = e
    BY <1>9, <1>11 DEF SumFunction
  <2>2. n - e \in Nat
    BY <1>6, <1>10, <1>11
  <2>3. QED  BY <2>1, <2>2
<1>16. e + rest = n
  <2>1. SumFunction(parts) = e
    BY <1>9, <1>11 DEF SumFunction
  <2>2. QED  BY <1>6, <1>15, <2>1
<1>17. rest <= routed.shares
  <2>1. IsFiniteSet(Account) /\ \A x \in Account : routed.vesting[x] \in Nat
    BY <1>14, VoterAssumption
  <2>2. routed.vesting[a] <= SumFunctionOnSet(routed.vesting, Account)
    BY <2>1, SumBounds
  <2>3. SumFunctionOnSet(routed.vesting, Account) = routed.shares + e
    BY <1>14 DEF Good
  <2>4. routed.vesting[a] >= st.vesting[a] /\ routed.vesting[a] \in Nat
    BY <1>14, <2>1
  <2>5. QED  BY <1>3, <1>6, <1>14, <1>16, <2>2, <2>3, <2>4
<1>18. PICK paid : paid = Paid(routed, a, rest)
  OBVIOUS
<1>19. /\ paid \in State /\ Good(paid, n, 0) /\ paid.vesting = routed.vesting
       /\ paid.shares = routed.shares - rest /\ paid.power_down = routed.power_down
       /\ paid.fund * routed.shares >= routed.fund * paid.shares
  <2>1. e \in Int /\ 0 \in Int
    OBVIOUS
  <2>2. /\ paid \in State /\ Good(paid, e + rest, 0) /\ paid.vesting = routed.vesting
        /\ paid.shares = routed.shares - rest /\ paid.power_down = routed.power_down
        /\ paid.fund * routed.shares >= routed.fund * paid.shares
    BY <1>13, <1>14, <1>17, <1>18, <2>1, PaidGood
  <2>3. QED  BY <1>16, <2>2
<1>20. PICK sold : sold = Vested(paid, a, -n)
  OBVIOUS
<1>21. /\ sold \in State /\ Good(sold, 0, 0) /\ sold.vesting = Raised(routed.vesting, a, -n)
       /\ sold.fund = paid.fund /\ sold.shares = paid.shares /\ sold.power_down = st.power_down
  <2>1. n \in Int /\ -n \in Int /\ 0 \in Int /\ n + (-n) = 0 /\ paid.vesting[a] + (-n) >= 0
    <3>1. paid.vesting[a] >= st.vesting[a] /\ paid.vesting[a] \in Nat
      BY <1>14, <1>19
    <3>2. QED  BY <1>3, <1>6, <3>1
  <2>2. /\ sold \in State /\ Good(sold, n + (-n), 0) /\ sold.vesting = Raised(paid.vesting, a, -n)
        /\ sold.fund = paid.fund /\ sold.shares = paid.shares /\ sold.power_down = paid.power_down
    BY <1>19, <1>20, <2>1, VestedGood
  <2>3. QED  BY <1>14, <1>19, <2>1, <2>2
<1>22. /\ sold.vesting \in [Account -> Nat] /\ sold.vesting[a] + n >= st.vesting[a]
       /\ \A x \in Account \ {a} : sold.vesting[x] >= st.vesting[x]
  <2>1. -n \in Int /\ routed.vesting[a] + (-n) >= 0 /\ routed.vesting[a] >= st.vesting[a] /\ routed.vesting[a] \in Nat
    BY <1>3, <1>6, <1>14
  <2>2. /\ sold.vesting \in [Account -> Nat] /\ sold.vesting[a] = routed.vesting[a] + (-n)
        /\ \A x \in Account \ {a} : sold.vesting[x] = routed.vesting[x]
    BY <1>14, <1>21, <2>1, RaisedIs
  <2>3. sold.vesting[a] + n = routed.vesting[a]
    BY <1>6, <2>1, <2>2
  <2>4. QED  BY <1>14, <2>1, <2>2, <2>3
<1>23. PICK q : q = PowerDownAfter(p, n, sold.vesting[a])
  OBVIOUS
<1>24. /\ q \in PowerDown /\ Exact(q, t) /\ Whole(q)
       /\ delegated[a] + (q.to_withdraw - q.withdrawn) <= sold.vesting[a]
  <2>1. sold.vesting[a] \in Nat
    BY <1>22
  <2>2. delegated[a] + (p.to_withdraw - p.withdrawn) <= sold.vesting[a] + n
    BY <1>3, <1>4, <1>6, <1>22, <2>1
  <2>3. QED  BY <1>3, <1>4, <1>6, <1>23, <2>1, <2>2, AfterIs
<1>25. PICK pd : pd = [st.power_down EXCEPT ![a] = q]
  OBVIOUS
<1>26. pd \in [Account -> PowerDown] /\ pd[a] = q /\ \A x \in Account \ {a} : pd[x] = st.power_down[x]
  BY <1>1, <1>24, <1>25
<1>27. s = [sold EXCEPT !.power_down = pd]
  <2>1. s = [sold EXCEPT !.power_down[a] = PowerDownAfter(@, n, sold.vesting[a])]
    BY <1>5, <1>6, <1>7, <1>9, <1>12, <1>15, <1>18, <1>20 DEF Withdrawn
  <2>2. s = [sold EXCEPT !.power_down = [sold.power_down EXCEPT ![a] = PowerDownAfter(sold.power_down[a], n, sold.vesting[a])]]
    BY <1>1, <1>21, <2>1 DEF State
  <2>3. QED  BY <1>2, <1>21, <1>23, <1>25, <2>2
<1>28. s \in State /\ s.vesting = sold.vesting /\ s.balance = sold.balance /\ s.fund = sold.fund /\ s.shares = sold.shares
       /\ s.supply = sold.supply /\ s.tally = sold.tally /\ s.power_down = pd
  <2>1. s \in State
    BY <1>21, <1>26, <1>27 DEF State
  <2>2. QED  BY <1>21, <1>27, <2>1 DEF State
<1>29. Good(s, 0, 0)
  BY <1>21, <1>28 DEF Good
<1>30. \A x \in Account : Promised(st, x) => Promised(s, x)
  <2>1. SUFFICES ASSUME NEW x \in Account, Promised(st, x) PROVE Promised(s, x)
    OBVIOUS
  <2>2. CASE x = a
    BY <1>24, <1>26, <1>28, <2>2 DEF Promised
  <2>3. CASE x # a
    <3>1. /\ s.power_down[x] = st.power_down[x] /\ s.vesting[x] >= st.vesting[x]
          /\ s.vesting[x] \in Nat /\ st.vesting[x] \in Nat /\ delegated[x] \in Nat
      BY <1>1, <1>22, <1>26, <1>28, <2>3
    <3>2. st.power_down[x].to_withdraw \in Nat /\ st.power_down[x].withdrawn \in Nat
      BY <1>1 DEF PowerDown
    <3>3. QED  BY <2>1, <3>1, <3>2 DEF Promised
  <2>4. QED  BY <2>2, <2>3
<1>31. s.shares <= st.shares /\ s.fund * st.shares >= st.fund * s.shares
  <2>1. paid.fund \in Nat /\ paid.shares \in Nat
    BY <1>19 DEF State
  <2>2. routed.shares = 0 => paid.shares = 0
    BY <1>14, <1>19, <2>1
  <2>3. paid.fund * st.shares >= st.fund * paid.shares
    BY <1>1, <1>14, <1>19, <2>1, <2>2, ValueChain
  <2>4. paid.shares <= st.shares
    BY <1>1, <1>14, <1>19, <2>1
  <2>5. QED  BY <1>21, <1>28, <2>3, <2>4
<1>32. QED  BY <1>24, <1>26, <1>28, <1>29, <1>30, <1>31

(* The withdrawals that are due have an order. *)
LEMMA LastDueIs ==
  ASSUME power_down \in [Account -> PowerDown]
  PROVE  \A D \in SUBSET Account : D # {} => LastDue(D) \in D
<1> DEFINE B == {p \in Account \X Account : BySchedule(p[1], p[2])}
<1>1. \A a, b \in Account : <<a, b>> \in B <=> BySchedule(a, b)
  OBVIOUS
<1> HIDE DEF B
<1>2. \A a \in Account : a \in Nat /\ power_down[a].next \in Nat
  BY VoterAssumption DEF PowerDown
<1>3. Total(B, Account)
  <2>1. SUFFICES ASSUME NEW a \in Account, NEW b \in Account, a # b PROVE <<a, b>> \in B \/ <<b, a>> \in B
    BY DEF Total
  <2>2. BySchedule(a, b) \/ BySchedule(b, a)
    BY <1>2, <2>1 DEF BySchedule
  <2>3. QED  BY <1>1, <2>2
<1>4. Transitive(B, Account)
  <2>1. SUFFICES ASSUME NEW a \in Account, NEW b \in Account, NEW c \in Account, <<a, b>> \in B, <<b, c>> \in B
                 PROVE  <<a, c>> \in B
    BY DEF Transitive
  <2>2. BySchedule(a, b) /\ BySchedule(b, c)
    BY <1>1, <2>1
  <2>3. BySchedule(a, c)
    BY <1>2, <2>2 DEF BySchedule
  <2>4. QED  BY <1>1, <2>3
<1>5. SUFFICES ASSUME NEW D \in SUBSET Account, D # {} PROVE LastDue(D) \in D
  OBVIOUS
<1>6. PICK a \in D : \A b \in D \ {a} : <<b, a>> \in B
  <2>1. IsFiniteSet(Account)
    BY VoterAssumption
  <2>2. QED  BY <1>3, <1>4, <1>5, <2>1, LastExists
<1>7. \A b \in D \ {a} : BySchedule(b, a)
  BY <1>1, <1>6
<1>8. QED  BY <1>7 DEF LastDue

(* What is so once the withdrawals of the accounts D have had their instalments. *)
WithdrawalsSound(st, t, D, s) ==
  /\ Good(s, 0, 0) /\ \A x \in Account : Promised(s, x)
  /\ \A x \in Account \ D : s.power_down[x] = st.power_down[x]
  /\ \A x \in D : Exact(s.power_down[x], t) /\ Whole(s.power_down[x])
  /\ s.shares <= st.shares /\ s.fund * st.shares >= st.fund * s.shares

(* All withdrawals that are due. *)
LEMMA WithdrawalsGood ==
  ASSUME proxy \in Proxies, routes \subseteq Route, RoutesInv, delegated \in [Account -> Nat],
         power_down \in [Account -> PowerDown],
         NEW st \in State, Good(st, 0, 0), \A x \in Account : Promised(st, x), NEW t \in Nat,
         NEW due \in SUBSET Account, \A x \in due : Ready(st, x, t)
  PROVE  Withdrawals(st, due)[due] \in State /\ WithdrawalsSound(st, t, due, Withdrawals(st, due)[due])
<1> DEFINE step == [p \in State \X due |-> Withdrawn(p[1], p[2])]
           last == [D \in SUBSET due |-> LastDue(D)]
           All == {p \in (SUBSET due) \X State : WithdrawalsSound(st, t, p[1], p[2])}
<1>0. /\ st.fund \in Nat /\ st.shares \in Nat
  BY DEF State
<1>1. \A D \in SUBSET due : D # {} => last[D] = LastDue(D) /\ last[D] \in D
  BY LastDueIs
<1>2. \A s \in State, a \in due : step[<<s, a>>] = Withdrawn(s, a)
  OBVIOUS
<1>3. \A D \in SUBSET due : \A s : <<D, s>> \in All <=> s \in State /\ WithdrawalsSound(st, t, D, s)
  OBVIOUS
<1> HIDE DEF step, last, All
<1>4. <<{}, st>> \in All
  <2>1. st.shares <= st.shares /\ st.fund * st.shares >= st.fund * st.shares
    BY <1>0
  <2>2. WithdrawalsSound(st, t, {}, st)
    BY <2>1 DEF WithdrawalsSound
  <2>3. {} \in SUBSET due
    OBVIOUS
  <2>4. QED  BY <1>3, <2>2, <2>3
<1>5. ASSUME NEW D \in SUBSET due, D # {}, NEW s, <<D \ {last[D]}, s>> \in All
      PROVE  <<D, step[<<s, last[D]>>]>> \in All
  <2>1. PICK a \in D : a = last[D]
    BY <1>1, <1>5
  <2>2. a \in due /\ a \in Account /\ D \ {a} \in SUBSET due
    BY <2>1
  <2>3. s \in State /\ WithdrawalsSound(st, t, D \ {a}, s)
    BY <1>3, <1>5, <2>1, <2>2
  <2>4. PICK s1 : s1 = Withdrawn(s, a)
    OBVIOUS
  <2>5. step[<<s, last[D]>>] = s1
    BY <1>2, <2>1, <2>2, <2>3, <2>4
  <2>6. Good(s, 0, 0) /\ Ready(s, a, t)
    <3>1. s.power_down[a] = st.power_down[a] /\ Promised(s, a)
      BY <2>2, <2>3 DEF WithdrawalsSound
    <3>2. Ready(st, a, t)
      BY <2>2
    <3>3. QED  BY <2>3, <3>1, <3>2 DEF Ready, WithdrawalsSound
  <2>7. /\ s1 \in State /\ Good(s1, 0, 0)
        /\ \A x \in Account : Promised(s, x) => Promised(s1, x)
        /\ \A x \in Account \ {a} : s1.power_down[x] = s.power_down[x]
        /\ Exact(s1.power_down[a], t) /\ Whole(s1.power_down[a])
        /\ s1.shares <= s.shares /\ s1.fund * s.shares >= s.fund * s1.shares
    BY <2>2, <2>3, <2>4, <2>6, WithdrawnGood
  <2>8. s.fund \in Nat /\ s.shares \in Nat /\ s1.fund \in Nat /\ s1.shares \in Nat
    BY <2>3, <2>7 DEF State
  <2>9. s1.fund * st.shares >= st.fund * s1.shares
    <3>1. s.fund * st.shares >= st.fund * s.shares /\ (s.shares = 0 => s1.shares = 0)
      BY <2>3, <2>7, <2>8 DEF WithdrawalsSound
    <3>2. QED  BY <1>0, <2>7, <2>8, <3>1, ValueChain
  <2>10. s1.shares <= st.shares
    BY <1>0, <2>3, <2>7, <2>8 DEF WithdrawalsSound
  <2>11. \A x \in Account : Promised(s1, x)
    BY <2>3, <2>7 DEF WithdrawalsSound
  <2>12. \A x \in Account \ D : s1.power_down[x] = st.power_down[x]
    BY <2>1, <2>3, <2>7 DEF WithdrawalsSound
  <2>13. \A x \in D : Exact(s1.power_down[x], t) /\ Whole(s1.power_down[x])
    <3>1. SUFFICES ASSUME NEW x \in D PROVE Exact(s1.power_down[x], t) /\ Whole(s1.power_down[x])
      OBVIOUS
    <3>2. CASE x = a
      BY <2>7, <3>2
    <3>3. CASE x # a
      <4>1. s1.power_down[x] = s.power_down[x] /\ Exact(s.power_down[x], t) /\ Whole(s.power_down[x])
        BY <2>3, <2>7, <3>3 DEF WithdrawalsSound
      <4>2. QED  BY <4>1
    <3>4. QED  BY <3>2, <3>3
  <2>14. WithdrawalsSound(st, t, D, s1)
    BY <2>7, <2>9, <2>10, <2>11, <2>12, <2>13 DEF WithdrawalsSound
  <2>15. QED  BY <1>3, <2>5, <2>7, <2>14
<1>6. Chooses(last, due) /\ IsFiniteSet(due)
  <2>1. IsFiniteSet(due)
    BY VoterAssumption, FS_Subset
  <2>2. QED  BY <1>1, <2>1 DEF Chooses
<1>7. StepsHold(step, due, last, All)
  BY <1>5 DEF StepsHold
<1>8. PICK g : IsFold(step, st, due, last, g) /\ HoldsAll(due, All, g)
  BY <1>4, <1>6, <1>7, FoldHolds
<1>9. \A D \in SUBSET due : g[D] \in State /\ WithdrawalsSound(st, t, D, g[D])
  BY <1>3, <1>8 DEF HoldsAll
<1>10. \A D \in SUBSET due : g[D] = IF D = {} THEN st ELSE Withdrawn(g[D \ {LastDue(D)}], LastDue(D))
  <2>1. SUFFICES ASSUME NEW D \in SUBSET due
                 PROVE  g[D] = IF D = {} THEN st ELSE Withdrawn(g[D \ {LastDue(D)}], LastDue(D))
    OBVIOUS
  <2>2. g[D] = IF D = {} THEN st ELSE step[<<g[D \ {last[D]}], last[D]>>]
    BY <1>8 DEF IsFold
  <2>3. CASE D # {}
    <3>1. last[D] = LastDue(D) /\ last[D] \in due /\ D \ {last[D]} \in SUBSET due
      BY <1>1, <2>3
    <3>2. step[<<g[D \ {last[D]}], last[D]>>] = Withdrawn(g[D \ {last[D]}], last[D])
      BY <1>2, <1>9, <3>1
    <3>3. QED  BY <2>2, <2>3, <3>1, <3>2
  <2>4. QED  BY <2>2, <2>3
<1> DEFINE Solves(f) == f = [D \in SUBSET due |-> IF D = {} THEN st ELSE Withdrawn(f[D \ {LastDue(D)}], LastDue(D))]
<1>11. Solves(g)
  <2>1. g = [D \in SUBSET due |-> g[D]]
    BY <1>8 DEF IsFold
  <2>2. QED  BY <1>10, <2>1
<1>12. Withdrawals(st, due) = CHOOSE f : Solves(f)
  BY DEF Withdrawals
<1>13. PICK f : f = Withdrawals(st, due)
  OBVIOUS
<1>14. Solves(f)
  <2> HIDE DEF Solves
  <2>1. QED  BY <1>11, <1>12, <1>13
<1>15. \A D \in SUBSET due : f[D] = g[D]
  <2>1. \A D \in SUBSET due : f[D] = IF D = {} THEN st ELSE Withdrawn(f[D \ {LastDue(D)}], LastDue(D))
    BY <1>14
  <2> HIDE DEF Solves
  <2>2. f[{}] = g[{}]
    BY <1>10, <2>1
  <2>3. ASSUME NEW D \in SUBSET due, D # {}, f[D \ {last[D]}] = g[D \ {last[D]}] PROVE f[D] = g[D]
    <3>1. last[D] = LastDue(D)
      BY <1>1, <2>3
    <3>2. f[D] = Withdrawn(f[D \ {last[D]}], last[D])
      BY <2>1, <2>3, <3>1
    <3>3. g[D] = Withdrawn(g[D \ {last[D]}], last[D])
      BY <1>10, <2>3, <3>1
    <3>4. QED  BY <2>3, <3>2, <3>3
  <2>4. StayAlike(due, last, f, g)
    BY <2>2, <2>3 DEF StayAlike
  <2>5. QED  BY <1>6, <2>4, FoldSame
<1>16. QED  BY <1>9, <1>13, <1>15

(* Tallies of stakes are numbers. *)
LEMMA TallyNat ==
  ASSUME NEW prox \in Proxies, NEW v \in [Account -> Nat], NEW cast, NEW t \in IntTally, Tallied(prox, v, cast, t)
  PROVE  t \in Tally
<1>1. v \in Stakes /\ \A b \in Account : v[b] >= 0
  BY DEF Stakes
<1>2. ASSUME NEW x \in Account, NEW k \in Reach PROVE t.proxied[x][k] \in Nat
  <2>1. Below(prox, v, x, k + 1) \in Int /\ Below(prox, v, x, k + 1) >= 0
    BY <1>1, BelowType
  <2>2. t.proxied[x][k] = Below(prox, v, x, k + 1)
    BY DEF Tallied, Reach
  <2>3. QED  BY <2>1, <2>2
<1>3. ASSUME NEW x \in Account PROVE witness_vote_weight(v, t, x) \in Nat
  <2>1. PICK f : f = t.proxied[x]
    OBVIOUS
  <2>2. \A k \in Reach : f[k] \in Int /\ f[k] >= 0
    BY <1>2, <2>1
  <2>3. IsFiniteSet(Reach)
    BY DepthRanges
  <2>4. SumFunctionOnSet(f, Reach) \in Int /\ SumFunctionOnSet(f, Reach) >= 0
    BY <2>2, <2>3, SumType
  <2>5. witness_vote_weight(v, t, x) = v[x] + SumFunctionOnSet(f, Reach)
    BY <2>1 DEF witness_vote_weight, Reach
  <2>6. v[x] \in Nat
    OBVIOUS
  <2>7. QED  BY <2>4, <2>5, <2>6
<1>4. ASSUME NEW w \in Witness PROVE t.votes[w] \in Nat
  <2>1. PICK f : f = [x \in Account |-> witness_vote_weight(v, t, x)]
    OBVIOUS
  <2>2. PICK S : S = Voters(prox, cast, w)
    OBVIOUS
  <2>3. S \subseteq Account
    BY <2>2 DEF Voters
  <2>4. IsFiniteSet(S) /\ \A x \in S : f[x] \in Int /\ f[x] >= 0
    <3>1. IsFiniteSet(S)
      BY <2>3, VoterAssumption, FS_Subset
    <3>2. QED  BY <1>3, <2>1, <2>3, <3>1
  <2>5. SumFunctionOnSet(f, S) \in Int /\ SumFunctionOnSet(f, S) >= 0
    BY <2>4, SumType
  <2>6. t.votes[w] = SumFunctionOnSet(f, S)
    BY <2>1, <2>2 DEF Tallied
  <2>7. QED  BY <2>5, <2>6
<1>5. t.proxied \in [Account -> [Reach -> Nat]]
  <2>1. t.proxied \in [Account -> [Reach -> Int]]
    BY DEF IntTally
  <2>2. QED  BY <1>2, <2>1
<1>6. t.votes \in [Witness -> Nat]
  <2>1. t.votes \in [Witness -> Int]
    BY DEF IntTally
  <2>2. QED  BY <1>4, <2>1
<1>7. t = [proxied |-> t.proxied, votes |-> t.votes]
  BY DEF IntTally
<1>8. QED  BY <1>5, <1>6, <1>7 DEF Tally, Reach

(* Requests have an order. *)
LEMMA LatestIs ==
  ASSUME NEW due \in SUBSET (Nat \X Account), IsFiniteSet(due)
  PROVE  \A D \in SUBSET due : D # {} => Latest(D) \in D
<1> DEFINE B == {p \in due \X due : Earlier(p[1], p[2])}
<1>1. \A a, b \in due : <<a, b>> \in B <=> Earlier(a, b)
  OBVIOUS
<1> HIDE DEF B
<1>2. \A a \in due : a = <<a[1], a[2]>> /\ a[1] \in Nat /\ a[2] \in Nat
  <2>1. Account \subseteq Nat
    BY VoterAssumption
  <2>2. SUFFICES ASSUME NEW a \in due PROVE a = <<a[1], a[2]>> /\ a[1] \in Nat /\ a[2] \in Nat
    OBVIOUS
  <2>3. a \in Nat \X Account
    OBVIOUS
  <2>4. a = <<a[1], a[2]>> /\ a[1] \in Nat /\ a[2] \in Account
    BY <2>3
  <2>5. QED  BY <2>1, <2>4
<1>3. Total(B, due)
  <2>1. SUFFICES ASSUME NEW a \in due, NEW b \in due, a # b PROVE <<a, b>> \in B \/ <<b, a>> \in B
    BY DEF Total
  <2>2. a[1] # b[1] \/ a[2] # b[2]
    BY <1>2, <2>1
  <2>3. Earlier(a, b) \/ Earlier(b, a)
    BY <1>2, <2>2 DEF Earlier
  <2>4. QED  BY <1>1, <2>3
<1>4. Transitive(B, due)
  <2>1. SUFFICES ASSUME NEW a \in due, NEW b \in due, NEW c \in due, <<a, b>> \in B, <<b, c>> \in B
                 PROVE  <<a, c>> \in B
    BY DEF Transitive
  <2>2. Earlier(a, b) /\ Earlier(b, c)
    BY <1>1, <2>1
  <2>3. Earlier(a, c)
    BY <1>2, <2>2 DEF Earlier
  <2>4. QED  BY <1>1, <2>3
<1>5. SUFFICES ASSUME NEW D \in SUBSET due, D # {} PROVE Latest(D) \in D
  OBVIOUS
<1>6. PICK a \in D : \A b \in D \ {a} : <<b, a>> \in B
  BY <1>3, <1>4, <1>5, LastExists
<1>7. \A b \in D \ {a} : Earlier(b, a)
  BY <1>1, <1>6
<1>8. QED  BY <1>7 DEF Latest

Book == [proxy : Proxies, tally : IntTally, votes : Cast]
Gone(D) == {r[2] : r \in D}

(* What is so once the requests D have been processed, from the book start on. *)
DeclinedSound(v, start, D, book) ==
  /\ Tallied(book.proxy, v, book.votes, book.tally) /\ Acyclic(book.proxy)
  /\ \A a \in Account : book.proxy[a] = IF a \in Gone(D) THEN NoProxy ELSE start.proxy[a]
  /\ book.votes = {x \in start.votes : x[1] \notin Gone(D)}

(* All requests that are due. *)
LEMMA DeclinedGood ==
  ASSUME NEW v \in Stakes, NEW start \in Book, Tallied(start.proxy, v, start.votes, start.tally),
         Acyclic(start.proxy), ProxiesSilent(start.proxy, start.votes),
         NEW due \in SUBSET (Nat \X Account), IsFiniteSet(due)
  PROVE  DeclinedAll(v, start, due)[due] \in Book /\ DeclinedSound(v, start, due, DeclinedAll(v, start, due)[due])
<1> DEFINE step == [p \in Book \X due |-> Declined(v, p[1], p[2][2])]
           last == [D \in SUBSET due |-> Latest(D)]
           All == {p \in (SUBSET due) \X Book : DeclinedSound(v, start, p[1], p[2])}
<1>1. \A D \in SUBSET due : D # {} => last[D] = Latest(D) /\ last[D] \in D
  BY LatestIs
<1>2. \A s \in Book, r \in due : step[<<s, r>>] = Declined(v, s, r[2])
  OBVIOUS
<1>3. \A D \in SUBSET due : \A s : <<D, s>> \in All <=> s \in Book /\ DeclinedSound(v, start, D, s)
  OBVIOUS
<1> HIDE DEF step, last, All
<1>4. <<{}, start>> \in All
  <2>1. Gone({}) = {}
    BY DEF Gone
  <2>2. start.votes = {x \in start.votes : x[1] \notin Gone({})}
    BY <2>1
  <2>3. DeclinedSound(v, start, {}, start)
    BY <2>1, <2>2 DEF DeclinedSound
  <2>4. {} \in SUBSET due
    OBVIOUS
  <2>5. QED  BY <1>3, <2>3, <2>4
<1>5. ASSUME NEW D \in SUBSET due, D # {}, NEW s, <<D \ {last[D]}, s>> \in All
      PROVE  <<D, step[<<s, last[D]>>]>> \in All
  <2>1. PICK r \in D : r = last[D]
    BY <1>1, <1>5
  <2>2. r \in due /\ D \ {r} \in SUBSET due
    BY <2>1
  <2>3. PICK a \in Account : a = r[2]
    BY <2>2
  <2>4. s \in Book /\ DeclinedSound(v, start, D \ {r}, s)
    BY <1>3, <1>5, <2>1, <2>2
  <2>5. s.proxy \in Proxies /\ s.tally \in IntTally /\ s.votes \in Cast
    BY <2>4 DEF Book
  <2>6. PICK s1 : s1 = Declined(v, s, a)
    OBVIOUS
  <2>7. step[<<s, last[D]>>] = s1
    BY <1>2, <2>1, <2>2, <2>3, <2>4, <2>6
  <2>8. PICK t1 : t1 = Adjusted(s.tally, s.proxy, s.votes, a, Minus(Stake(v, s.tally, a)))
    OBVIOUS
  <2>9. s1 = [proxy |-> Cut(s.proxy, a), tally |-> t1, votes |-> Without(s.votes, a)]
    BY <2>6, <2>8 DEF Declined, Cut
  <2>10. Gone(D) = Gone(D \ {r}) \cup {a}
    BY <2>1, <2>3 DEF Gone
  <2>11. ProxiesSilent(s.proxy, s.votes)
    <3>1. SUFFICES ASSUME NEW b \in Account, NEW w \in Witness, <<b, w>> \in s.votes PROVE s.proxy[b] = NoProxy
      BY DEF ProxiesSilent
    <3>2. <<b, w>> \in start.votes
      BY <2>4, <3>1 DEF DeclinedSound
    <3>3. start.proxy[b] = NoProxy
      BY <3>2 DEF ProxiesSilent
    <3>4. s.proxy[b] = IF b \in Gone(D \ {r}) THEN NoProxy ELSE start.proxy[b]
      BY <2>4 DEF DeclinedSound
    <3>5. QED  BY <3>3, <3>4
  <2>12. Acyclic(s.proxy) /\ Tallied(s.proxy, v, s.votes, s.tally)
    BY <2>4 DEF DeclinedSound
  <2>13. t1 \in IntTally /\ Tallied(Cut(s.proxy, a), v, Without(s.votes, a), t1)
    BY <2>5, <2>8, <2>11, <2>12, TalliedRemoved
  <2>14. Cut(s.proxy, a) \in Proxies /\ Acyclic(Cut(s.proxy, a)) /\ Cut(s.proxy, a)[a] = NoProxy
    BY <2>5, <2>12, CutKeeps
  <2>15. Without(s.votes, a) \in Cast
    BY <2>5 DEF Without, Cast
  <2>16. s1 \in Book /\ s1.proxy = Cut(s.proxy, a) /\ s1.tally = t1 /\ s1.votes = Without(s.votes, a)
    BY <2>9, <2>13, <2>14, <2>15 DEF Book
  <2>17. \A b \in Account : s1.proxy[b] = IF b \in Gone(D) THEN NoProxy ELSE start.proxy[b]
    <3>1. SUFFICES ASSUME NEW b \in Account PROVE s1.proxy[b] = IF b \in Gone(D) THEN NoProxy ELSE start.proxy[b]
      OBVIOUS
    <3>2. CASE b = a
      BY <2>10, <2>14, <2>16, <3>2
    <3>3. CASE b # a
      <4>1. s1.proxy[b] = s.proxy[b]
        BY <2>5, <2>16, <3>3 DEF Cut, Proxies
      <4>2. s.proxy[b] = IF b \in Gone(D \ {r}) THEN NoProxy ELSE start.proxy[b]
        BY <2>4 DEF DeclinedSound
      <4>3. QED  BY <2>10, <3>3, <4>1, <4>2
    <3>4. QED  BY <3>2, <3>3
  <2>18. s1.votes = {x \in start.votes : x[1] \notin Gone(D)}
    <3>1. s.votes = {x \in start.votes : x[1] \notin Gone(D \ {r})}
      BY <2>4 DEF DeclinedSound
    <3>2. QED  BY <2>10, <2>16, <3>1 DEF Without
  <2>19. DeclinedSound(v, start, D, s1)
    BY <2>13, <2>14, <2>16, <2>17, <2>18 DEF DeclinedSound
  <2>20. QED  BY <1>3, <2>7, <2>16, <2>19
<1>6. Chooses(last, due)
  BY <1>1 DEF Chooses
<1>7. StepsHold(step, due, last, All)
  BY <1>5 DEF StepsHold
<1>8. PICK g : IsFold(step, start, due, last, g) /\ HoldsAll(due, All, g)
  BY <1>4, <1>6, <1>7, FoldHolds
<1>9. \A D \in SUBSET due : g[D] \in Book /\ DeclinedSound(v, start, D, g[D])
  BY <1>3, <1>8 DEF HoldsAll
<1>10. \A D \in SUBSET due : g[D] = IF D = {} THEN start ELSE Declined(v, g[D \ {Latest(D)}], Latest(D)[2])
  <2>1. SUFFICES ASSUME NEW D \in SUBSET due
                 PROVE  g[D] = IF D = {} THEN start ELSE Declined(v, g[D \ {Latest(D)}], Latest(D)[2])
    OBVIOUS
  <2>2. g[D] = IF D = {} THEN start ELSE step[<<g[D \ {last[D]}], last[D]>>]
    BY <1>8 DEF IsFold
  <2>3. CASE D # {}
    <3>1. last[D] = Latest(D) /\ last[D] \in due /\ D \ {last[D]} \in SUBSET due
      BY <1>1, <2>3
    <3>2. step[<<g[D \ {last[D]}], last[D]>>] = Declined(v, g[D \ {last[D]}], last[D][2])
      BY <1>2, <1>9, <3>1
    <3>3. QED  BY <2>2, <2>3, <3>1, <3>2
  <2>4. QED  BY <2>2, <2>3
<1> DEFINE Solves(f) == f = [D \in SUBSET due |-> IF D = {} THEN start ELSE Declined(v, f[D \ {Latest(D)}], Latest(D)[2])]
<1>11. Solves(g)
  <2>1. g = [D \in SUBSET due |-> g[D]]
    BY <1>8 DEF IsFold
  <2>2. QED  BY <1>10, <2>1
<1>12. DeclinedAll(v, start, due) = CHOOSE f : Solves(f)
  BY DEF DeclinedAll
<1>13. PICK f : f = DeclinedAll(v, start, due)
  OBVIOUS
<1>14. Solves(f)
  <2> HIDE DEF Solves
  <2>1. QED  BY <1>11, <1>12, <1>13
<1>15. \A D \in SUBSET due : f[D] = g[D]
  <2>1. \A D \in SUBSET due : f[D] = IF D = {} THEN start ELSE Declined(v, f[D \ {Latest(D)}], Latest(D)[2])
    BY <1>14
  <2> HIDE DEF Solves
  <2>2. f[{}] = g[{}]
    BY <1>10, <2>1
  <2>3. ASSUME NEW D \in SUBSET due, D # {}, f[D \ {last[D]}] = g[D \ {last[D]}] PROVE f[D] = g[D]
    <3>1. last[D] = Latest(D)
      BY <1>1, <2>3
    <3>2. f[D] = Declined(v, f[D \ {last[D]}], last[D][2])
      BY <2>1, <2>3, <3>1
    <3>3. g[D] = Declined(v, g[D \ {last[D]}], last[D][2])
      BY <1>10, <2>3, <3>1
    <3>4. QED  BY <2>3, <3>2, <3>3
  <2>4. StayAlike(due, last, f, g)
    BY <2>2, <2>3 DEF StayAlike
  <2>5. QED  BY <1>6, <2>4, FoldSame
<1>16. QED  BY <1>9, <1>13, <1>15

(* Steps that leave the shares alone. *)
LEMMA SharesStay ==
  ASSUME SharesInv, UNCHANGED <<vesting, shares, now, stakeVars>>
  PROVE  SharesInv'
<1>1. /\ vesting' = vesting /\ shares' = shares /\ now' = now /\ balance' = balance /\ fund' = fund /\ supply' = supply
      /\ power_down' = power_down /\ routes' = routes /\ withdraw_routes' = withdraw_routes /\ delegated' = delegated
      /\ received' = received /\ delegations' = delegations /\ expirations' = expirations
  BY DEF stakeVars
<1>2. SharesConserved' /\ (shares > 0 => fund > 0)' /\ DelegationsBacked'
  BY <1>1 DEF SharesInv, SharesConserved, DelegationsBacked
<1>3. DelegationsCounted'
  BY <1>1 DEF SharesInv, DelegationsCounted
<1>4. WithdrawalsExact' /\ InInstalments'
  BY <1>1 DEF SharesInv, WithdrawalsExact, InInstalments
<1>5. RoutesInv'
  BY <1>1 DEF SharesInv, RoutesInv, RoutesOf
<1>6. QED  BY <1>1, <1>2, <1>3, <1>4, <1>5 DEF SharesInv

(* Those that leave the votes alone. *)
LEMMA VotesStay ==
  ASSUME VotesInv, UNCHANGED <<vesting, proxy, tally, votes, voted_for, can_vote, declines>>
  PROVE  VotesInv'
BY DEF VotesInv, Rights

(* The types of the votes. *)
LEMMA VotesTypes ==
  ASSUME VotesTypeOK
  PROVE  /\ proxy \in Proxies /\ vesting \in Stakes /\ vesting \in [Account -> Nat] /\ tally \in IntTally
         /\ votes \in Cast /\ IsFiniteSet(votes)
<1>1. proxy \in Proxies /\ votes \in Cast
  BY DEF VotesTypeOK, Proxies, Cast
<1>2. vesting \in [Account -> Nat] /\ vesting \in Stakes
  BY DEF VotesTypeOK, Stakes
<1>3. tally \in IntTally
  <2>1. tally \in Tally
    BY DEF VotesTypeOK
  <2>2. tally = [proxied |-> tally.proxied, votes |-> tally.votes]
    BY <2>1 DEF Tally
  <2>3. tally.proxied \in [Account -> [Reach -> Int]]
    BY <2>1 DEF Tally, Reach
  <2>4. tally.votes \in [Witness -> Int]
    BY <2>1 DEF Tally
  <2>5. QED  BY <2>2, <2>3, <2>4 DEF IntTally
<1>4. IsFiniteSet(votes)
  <2>1. IsFiniteSet(Account) /\ Witness \in SUBSET Account
    BY VoterAssumption
  <2>2. IsFiniteSet(Witness)
    BY <2>1, FS_Subset
  <2>3. IsFiniteSet(Account \X Witness)
    BY <2>1, <2>2, FS_Product
  <2>4. votes \in SUBSET (Account \X Witness)
    BY <1>1 DEF Cast
  <2>5. QED  BY <2>3, <2>4, FS_Subset
<1>5. QED  BY <1>1, <1>2, <1>3, <1>4

(* A walk that finds no loop has met the end of the chain. *)
LEMMA WalkEnds ==
  ASSUME proxy \in Proxies, NEW a \in Account, NEW p \in Account, NoLoop(a, p)
  PROVE  /\ \A n \in 1..(Depth + 1) : Hops(proxy, p)[n] # a
         /\ \E e \in Hop : Hops(proxy, p)[e] = NoProxy
<1>1. PICK hop : hop = Hops(proxy, p)
  OBVIOUS
<1>2. PICK above : above = {n \in 1..(Depth + 1) : hop[n] # NoProxy}
  OBVIOUS
<1>3. (\A n \in above : hop[n] # a) /\ Cardinality(above) + 2 <= (IF above = {} THEN 2 ELSE Depth)
  BY <1>1, <1>2 DEF NoLoop
<1>4. \A n \in 1..(Depth + 1) : hop[n] # a
  BY <1>2, <1>3, VoterAssumption
<1>5. \E e \in 1..(Depth + 1) : hop[e] = NoProxy
  <2>1. SUFFICES ASSUME \A e \in 1..(Depth + 1) : hop[e] # NoProxy PROVE FALSE
    OBVIOUS
  <2>2. above = 1..(Depth + 1)
    BY <1>2, <2>1
  <2>3. 1 \in Int /\ Depth \in Nat /\ Depth + 1 \in Int /\ ~(1 > Depth + 1) /\ (Depth + 1) - 1 + 1 = Depth + 1
    BY DepthAssumption
  <2>4. Cardinality(above) = Depth + 1
    BY <2>2, <2>3, FS_Interval
  <2>5. 1 \in above
    BY <2>2, <2>3
  <2>6. Cardinality(above) + 2 <= Depth
    BY <1>3, <2>5
  <2>7. QED  BY <2>3, <2>4, <2>6
<1>6. \A e \in 1..(Depth + 1) : e \in Hop
  BY DepthAssumption DEF Hop
<1>7. QED  BY <1>1, <1>4, <1>5, <1>6

(* Votes of others are not touched by Without. *)
LEMMA WithoutIs ==
  ASSUME NEW cast \in Cast, NEW a \in Account
  PROVE  /\ Without(cast, a) \in Cast /\ Silent(Without(cast, a), a)
         /\ {v \in Without(cast, a) : v[1] = a} = {}
         /\ \A b \in Account \ {a} : {v \in Without(cast, a) : v[1] = b} = {v \in cast : v[1] = b}
         /\ \A b \in Account, w \in Witness : <<b, w>> \in Without(cast, a) <=> b # a /\ <<b, w>> \in cast
<1>1. Without(cast, a) \in Cast
  BY DEF Without, Cast
<1>2. \A b \in Account, w \in Witness : <<b, w>> \in Without(cast, a) <=> b # a /\ <<b, w>> \in cast
  BY DEF Without
<1>3. {v \in Without(cast, a) : v[1] = a} = {}
  BY DEF Without
<1>4. \A b \in Account \ {a} : {v \in Without(cast, a) : v[1] = b} = {v \in cast : v[1] = b}
  BY DEF Without
<1>5. Silent(Without(cast, a), a)
  BY <1>2 DEF Silent
<1>6. QED  BY <1>1, <1>2, <1>3, <1>4, <1>5

(* account_witness_proxy *)
LEMMA ProxyStep ==
  ASSUME VotesTypeOK, VotesInv, NEW a \in Account, a # NullAccount, NEW p \in Account \cup {NoProxy},
         account_witness_proxy(a, p)
  PROVE  VotesTypeOK' /\ VotesInv'
<1> DEFINE stake == Stake(vesting, tally, a)
           removed == Adjusted(tally, proxy, votes, a, Minus(stake))
           moved == [proxy EXCEPT ![a] = p]
           added == Adjusted(removed, moved, Without(votes, a), a, stake)
<1>1. /\ proxy \in Proxies /\ vesting \in Stakes /\ vesting \in [Account -> Nat] /\ tally \in IntTally
      /\ votes \in Cast /\ IsFiniteSet(votes)
  BY VotesTypes
<1>2. Tallied(proxy, vesting, votes, tally) /\ Acyclic(proxy) /\ ProxiesSilent(proxy, votes) /\ Rights
  BY DEF VotesInv
<1>3. /\ p # a /\ proxy[a] # p /\ can_vote[a] /\ proxy' = moved
      /\ vesting' = vesting /\ shares' = shares /\ can_vote' = can_vote /\ declines' = declines /\ now' = now
  BY DEF account_witness_proxy
<1>4. PICK t1 : t1 = removed
  OBVIOUS
<1>5. /\ t1 \in IntTally /\ Tallied(Cut(proxy, a), vesting, Without(votes, a), t1)
      /\ Stake(vesting, t1, a) = stake
  BY <1>1, <1>2, <1>4, TalliedRemoved
<1>6. /\ Without(votes, a) \in Cast /\ Silent(Without(votes, a), a)
      /\ {v \in Without(votes, a) : v[1] = a} = {}
      /\ \A b \in Account \ {a} : {v \in Without(votes, a) : v[1] = b} = {v \in votes : v[1] = b}
      /\ \A b \in Account, w \in Witness : <<b, w>> \in Without(votes, a) <=> b # a /\ <<b, w>> \in votes
  BY <1>1, WithoutIs
<1>7. PICK m : m = moved
  OBVIOUS
<1>8. m \in Proxies /\ m[a] = p /\ \A b \in Account \ {a} : m[b] = proxy[b]
  BY <1>1, <1>7 DEF Proxies
<1>9. NullAccount \in Account /\ m[NullAccount] = NoProxy /\ Cardinality({}) = 0
  BY <1>2, <1>8, NullAssumption, FS_EmptySet DEF Rights
<1>10. CASE p = NoProxy
  <2>1. tally' = t1 /\ votes' = votes /\ voted_for' = voted_for /\ proxy' = m
    BY <1>3, <1>4, <1>7, <1>10 DEF account_witness_proxy
  <2>2. m = Cut(proxy, a)
    BY <1>7, <1>10 DEF Cut
  <2>3. Without(votes, a) = votes
    <3>1. \A w \in Witness : <<a, w>> \notin votes
      BY <1>2, <1>3, <1>10 DEF ProxiesSilent
    <3>2. \A v \in votes : v[1] # a
      <4>1. SUFFICES ASSUME NEW v \in votes, v[1] = a PROVE FALSE
        OBVIOUS
      <4>2. v = <<v[1], v[2]>> /\ v[2] \in Witness
        BY <1>1 DEF Cast
      <4>3. QED  BY <3>1, <4>1, <4>2
    <3>3. QED  BY <3>2 DEF Without
  <2>4. Tallied(m, vesting, votes, t1) /\ Acyclic(m)
    BY <1>1, <1>2, <1>5, <2>2, <2>3, CutKeeps
  <2>5. ProxiesSilent(m, votes)
    BY <1>2, <1>8, <1>10 DEF ProxiesSilent
  <2>6. Rights'
    <3>1. \A b \in Account : /\ voted_for[b] = Cardinality({v \in votes : v[1] = b})
                             /\ ~can_vote[b] => voted_for[b] = 0 /\ m[b] = NoProxy
      BY <1>2, <1>8, <1>10 DEF Rights
    <3>2. QED  BY <1>2, <1>3, <1>9, <2>1, <3>1 DEF Rights
  <2>7. t1 \in Tally
    BY <1>1, <1>5, <1>8, <2>4, TallyNat
  <2>8. VotesTypeOK'
    BY <1>3, <1>8, <2>1, <2>7 DEF VotesTypeOK, Proxies
  <2>9. VotesInv'
    BY <1>3, <2>1, <2>4, <2>5, <2>6 DEF VotesInv
  <2>10. QED  BY <2>8, <2>9
<1>11. CASE p # NoProxy
  <2>1. p \in Account /\ p # a /\ NoLoop(a, p)
    BY <1>3, <1>11 DEF account_witness_proxy
  <2>2. PICK t2 : t2 = Adjusted(t1, m, Without(votes, a), a, Stake(vesting, t1, a))
    OBVIOUS
  <2>3. t2 = added
    BY <1>4, <1>5, <1>7, <2>2
  <2>4. tally' = t2 /\ votes' = Without(votes, a) /\ voted_for' = [voted_for EXCEPT ![a] = 0] /\ proxy' = m
    BY <1>3, <1>7, <1>11, <2>3 DEF account_witness_proxy
  <2>5. Acyclic(m) /\ Cut(m, a) = Cut(proxy, a)
    <3>1. PICK e \in Hop : Hops(proxy, p)[e] = NoProxy
      BY <1>1, <2>1, WalkEnds
    <3>2. \A n \in 1..(Depth + 1) : Hops(proxy, p)[n] # a
      BY <1>1, <2>1, WalkEnds
    <3>3. QED  BY <1>1, <1>2, <1>7, <2>1, <3>1, <3>2, LinkKeeps
  <2>6. t2 \in IntTally /\ Tallied(m, vesting, Without(votes, a), t2)
    <3>1. Tallied(Cut(m, a), vesting, Without(votes, a), t1)
      BY <1>5, <2>5
    <3>2. QED  BY <1>1, <1>5, <1>6, <1>8, <2>2, <2>5, <3>1, TalliedLink
  <2>7. ProxiesSilent(m, Without(votes, a))
    BY <1>2, <1>6, <1>8 DEF ProxiesSilent
  <2>8. PICK vf : vf = [voted_for EXCEPT ![a] = 0]
    OBVIOUS
  <2>9. vf \in [Account -> 0..MaxVotes] /\ vf[a] = 0 /\ \A b \in Account \ {a} : vf[b] = voted_for[b]
    <3>1. 0 \in 0..MaxVotes /\ voted_for \in [Account -> 0..MaxVotes]
      BY LimitAssumption DEF VotesTypeOK
    <3>2. QED  BY <2>8, <3>1
  <2>10. Rights'
    <3>1. \A b \in Account : /\ vf[b] = Cardinality({v \in Without(votes, a) : v[1] = b})
                             /\ ~can_vote[b] => vf[b] = 0 /\ m[b] = NoProxy
      <4>1. SUFFICES ASSUME NEW b \in Account
                     PROVE  /\ vf[b] = Cardinality({v \in Without(votes, a) : v[1] = b})
                            /\ ~can_vote[b] => vf[b] = 0 /\ m[b] = NoProxy
        OBVIOUS
      <4>2. CASE b = a
        BY <1>3, <1>6, <1>9, <2>9, <4>2
      <4>3. CASE b # a
        <5>1. {v \in Without(votes, a) : v[1] = b} = {v \in votes : v[1] = b} /\ vf[b] = voted_for[b] /\ m[b] = proxy[b]
          BY <1>6, <1>8, <2>9, <4>3
        <5>2. QED  BY <1>2, <5>1 DEF Rights
      <4>4. QED  BY <4>2, <4>3
    <3>2. \A w \in Witness : <<NullAccount, w>> \notin Without(votes, a)
      BY <1>2, <1>6, <1>9 DEF Rights
    <3>3. QED  BY <1>2, <1>3, <1>9, <2>4, <2>8, <3>1, <3>2 DEF Rights
  <2>11. t2 \in Tally
    BY <1>1, <1>8, <2>6, TallyNat
  <2>12. VotesTypeOK'
    BY <1>3, <1>6, <1>8, <2>4, <2>8, <2>9, <2>11 DEF VotesTypeOK, Proxies, Cast
  <2>13. VotesInv'
    BY <1>3, <2>4, <2>5, <2>6, <2>7, <2>10 DEF VotesInv
  <2>14. QED  BY <2>12, <2>13
<1>12. QED  BY <1>10, <1>11

(* A vote given or taken back moves the weight of its account. *)
LEMMA TalliedVote ==
  ASSUME NEW prox \in Proxies, NEW v \in Stakes, NEW cast \in Cast, NEW t \in IntTally, Tallied(prox, v, cast, t),
         NEW a \in Account, prox[a] = NoProxy, NEW w \in Witness, NEW approve \in BOOLEAN,
         approve = (<<a, w>> \notin cast),
         NEW t1, t1 = [t EXCEPT !.votes[w] = @ + (IF approve THEN 1 ELSE -1) * witness_vote_weight(v, t, a)],
         NEW new, new = IF approve THEN cast \cup {<<a, w>>} ELSE cast \ {<<a, w>>}
  PROVE  t1 \in IntTally /\ Tallied(prox, v, new, t1)
<1>1. PICK weight \in Int : weight = witness_vote_weight(v, t, a)
  BY StakeType
<1>2. PICK n \in Int : n = (IF approve THEN 1 ELSE -1) * weight
  BY <1>1
<1>3. t.proxied \in [Account -> [Reach -> Int]] /\ t.votes \in [Witness -> Int]
  BY DEF IntTally
<1>4. PICK vs : vs = [t.votes EXCEPT ![w] = @ + n]
  OBVIOUS
<1>5. vs \in [Witness -> Int] /\ vs[w] = t.votes[w] + n /\ \A u \in Witness \ {w} : vs[u] = t.votes[u]
  BY <1>3, <1>4
<1>6. t1 = [proxied |-> t.proxied, votes |-> vs]
  <2>1. t1 = [t EXCEPT !.votes = vs]
    BY <1>1, <1>2, <1>4 DEF IntTally
  <2>2. QED  BY <2>1 DEF IntTally
<1>7. t1 \in IntTally
  BY <1>3, <1>5, <1>6 DEF IntTally
<1>8. t1.proxied = t.proxied /\ t1.votes = vs
  BY <1>6
<1>9. PICK f : f = [x \in Account |-> witness_vote_weight(v, t, x)]
  OBVIOUS
<1>10. [x \in Account |-> witness_vote_weight(v, t1, x)] = f
  BY <1>8, <1>9 DEF witness_vote_weight
<1>11. \A x \in Account : f[x] \in Int
  BY <1>9, StakeType
<1>12. ASSUME NEW u \in Witness, u # w PROVE t1.votes[u] = SumFunctionOnSet(f, Voters(prox, new, u))
  <2>1. Voters(prox, new, u) = Voters(prox, cast, u)
    <3>1. \A x \in Account : <<x, u>> \in new <=> <<x, u>> \in cast
      BY <1>12
    <3>2. QED  BY <3>1 DEF Voters
  <2>2. t.votes[u] = SumFunctionOnSet(f, Voters(prox, cast, u))
    BY <1>9 DEF Tallied
  <2>3. QED  BY <1>5, <1>8, <1>12, <2>1, <2>2
<1>13. t1.votes[w] = SumFunctionOnSet(f, Voters(prox, new, w))
  <2>1. PICK S : S = Voters(prox, cast, w)
    OBVIOUS
  <2>2. S \in SUBSET Account /\ IsFiniteSet(S)
    <3>1. S \in SUBSET Account
      BY <2>1 DEF Voters
    <3>2. IsFiniteSet(Account)
      BY VoterAssumption
    <3>3. QED  BY <3>1, <3>2, FS_Subset
  <2>3. t.votes[w] = SumFunctionOnSet(f, S) /\ t.votes[w] \in Int
    BY <1>3, <1>9, <2>1 DEF Tallied
  <2>4. f[a] = weight
    BY <1>1, <1>9
  <2>5. CASE approve
    <3>1. a \notin S
      BY <2>1, <2>5 DEF Voters
    <3>2. Voters(prox, new, w) = S \cup {a}
      <4>1. \A x \in Account : <<x, w>> \in new <=> <<x, w>> \in cast \/ x = a
        BY <2>5
      <4>2. QED  BY <2>1, <4>1 DEF Voters
    <3>3. \A x \in S \cup {a} : f[x] \in Int
      BY <1>11, <2>2
    <3>4. SumFunctionOnSet(f, S \cup {a}) = f[a] + SumFunctionOnSet(f, S)
      BY <2>2, <3>1, <3>3, SumInsert
    <3>5. n = weight
      BY <1>2, <2>5
    <3>6. t1.votes[w] = t.votes[w] + n
      BY <1>5, <1>8
    <3>7. t1.votes[w] = f[a] + SumFunctionOnSet(f, S)
      BY <2>3, <2>4, <3>5, <3>6
    <3>8. QED  BY <3>2, <3>4, <3>7
  <2>6. CASE ~approve
    <3>1. a \in S
      BY <2>1, <2>6 DEF Voters
    <3>2. Voters(prox, new, w) = S \ {a}
      <4>1. \A x \in Account : <<x, w>> \in new <=> <<x, w>> \in cast /\ x # a
        BY <2>6
      <4>2. QED  BY <2>1, <4>1 DEF Voters
    <3>3. \A x \in S : f[x] \in Int
      BY <1>11, <2>2
    <3>4. SumFunctionOnSet(f, S) = f[a] + SumFunctionOnSet(f, S \ {a})
      BY <2>2, <3>1, <3>3, SumRemove
    <3>5. SumFunctionOnSet(f, S \ {a}) \in Int
      <4>1. IsFiniteSet(S \ {a}) /\ \A x \in S \ {a} : f[x] \in Int
        BY <2>2, <3>3, FS_RemoveElement
      <4>2. QED  BY <4>1, SumType
    <3>6. n = -weight
      BY <1>2, <2>6
    <3>7. t1.votes[w] = t.votes[w] + n
      BY <1>5, <1>8
    <3>8. t1.votes[w] = SumFunctionOnSet(f, S \ {a})
      BY <2>3, <2>4, <3>4, <3>5, <3>6, <3>7
    <3>9. QED  BY <3>2, <3>8
  <2>7. QED  BY <2>5, <2>6
<1>14. \A u \in Witness : t1.votes[u] = SumFunctionOnSet(f, Voters(prox, new, u))
  BY <1>12, <1>13
<1>15. \A x \in Account, k \in 0..(Depth - 1) : t1.proxied[x][k] = Below(prox, v, x, k + 1)
  BY <1>8 DEF Tallied
<1>16. QED  BY <1>7, <1>10, <1>14, <1>15 DEF Tallied

(* account_witness_vote *)
LEMMA VoteStep ==
  ASSUME VotesTypeOK, VotesInv, NEW a \in Account, a # NullAccount, NEW w \in Witness, NEW approve \in BOOLEAN,
         account_witness_vote(a, w, approve)
  PROVE  VotesTypeOK' /\ VotesInv'
<1>1. /\ proxy \in Proxies /\ vesting \in Stakes /\ vesting \in [Account -> Nat] /\ tally \in IntTally
      /\ votes \in Cast /\ IsFiniteSet(votes)
  BY VotesTypes
<1>2. Tallied(proxy, vesting, votes, tally) /\ Acyclic(proxy) /\ ProxiesSilent(proxy, votes) /\ Rights
  BY DEF VotesInv
<1>3. /\ proxy[a] = NoProxy /\ (approve => can_vote[a] /\ voted_for[a] < MaxVotes)
      /\ approve = (<<a, w>> \notin votes)
      /\ vesting' = vesting /\ shares' = shares /\ proxy' = proxy /\ can_vote' = can_vote
      /\ declines' = declines /\ now' = now
  BY DEF account_witness_vote
<1>4. PICK new : new = IF approve THEN votes \cup {<<a, w>>} ELSE votes \ {<<a, w>>}
  OBVIOUS
<1>5. PICK t1 : t1 = [tally EXCEPT !.votes[w] = @ + (IF approve THEN 1 ELSE -1) * witness_vote_weight(vesting, tally, a)]
  OBVIOUS
<1>6. PICK vf : vf = [voted_for EXCEPT ![a] = @ + (IF approve THEN 1 ELSE -1)]
  OBVIOUS
<1>7. votes' = new /\ tally' = t1 /\ voted_for' = vf
  BY <1>4, <1>5, <1>6 DEF account_witness_vote
<1>8. t1 \in IntTally /\ Tallied(proxy, vesting, new, t1)
  BY <1>1, <1>2, <1>3, <1>4, <1>5, TalliedVote
<1>9. new \in Cast
  BY <1>1, <1>4 DEF Cast
<1>10. ProxiesSilent(proxy, new)
  BY <1>2, <1>3, <1>4 DEF ProxiesSilent
<1>11. voted_for \in [Account -> 0..MaxVotes] /\ MaxVotes \in Nat
  BY LimitAssumption DEF VotesTypeOK
<1>12. PICK S : S = {v \in votes : v[1] = a}
  OBVIOUS
<1>13. IsFiniteSet(S) /\ voted_for[a] = Cardinality(S) /\ voted_for[a] \in Nat /\ voted_for[a] <= MaxVotes
  <2>1. S \in SUBSET votes
    BY <1>12
  <2>2. IsFiniteSet(S)
    BY <1>1, <2>1, FS_Subset
  <2>3. QED  BY <1>2, <1>11, <1>12, <2>2 DEF Rights
<1>14. /\ vf \in [Account -> 0..MaxVotes] /\ vf[a] = Cardinality({v \in new : v[1] = a}) /\ (~can_vote[a] => vf[a] = 0)
       /\ \A b \in Account \ {a} : vf[b] = voted_for[b]
  <2>1. CASE approve
    <3>1. {v \in new : v[1] = a} = S \cup {<<a, w>>} /\ <<a, w>> \notin S
      <4>1. PICK x : x = <<a, w>>
        OBVIOUS
      <4>2. new = votes \cup {x} /\ x[1] = a /\ x \notin votes
        BY <1>3, <1>4, <2>1, <4>1
      <4>3. QED  BY <1>12, <4>1, <4>2
    <3>2. Cardinality(S \cup {<<a, w>>}) = Cardinality(S) + 1
      BY <1>13, <3>1, FS_AddElement
    <3>3. voted_for[a] + 1 \in 0..MaxVotes
      BY <1>3, <1>11, <1>13, <2>1
    <3>4. vf = [voted_for EXCEPT ![a] = voted_for[a] + 1]
      BY <1>6, <1>11, <2>1
    <3>5. vf \in [Account -> 0..MaxVotes] /\ vf[a] = voted_for[a] + 1 /\ \A b \in Account \ {a} : vf[b] = voted_for[b]
      BY <1>11, <3>3, <3>4
    <3>6. QED  BY <1>3, <1>13, <2>1, <3>1, <3>2, <3>5
  <2>2. CASE ~approve
    <3>1. {v \in new : v[1] = a} = S \ {<<a, w>>} /\ <<a, w>> \in S
      BY <1>3, <1>4, <1>12, <2>2
    <3>2. Cardinality(S \ {<<a, w>>}) = Cardinality(S) - 1 /\ Cardinality(S) # 0
      BY <1>13, <3>1, FS_RemoveElement, FS_EmptySet
    <3>3. voted_for[a] - 1 \in 0..MaxVotes
      BY <1>11, <1>13, <3>2
    <3>4. vf = [voted_for EXCEPT ![a] = voted_for[a] - 1]
      BY <1>6, <1>11, <2>2
    <3>5. vf \in [Account -> 0..MaxVotes] /\ vf[a] = voted_for[a] - 1 /\ \A b \in Account \ {a} : vf[b] = voted_for[b]
      BY <1>11, <3>3, <3>4
    <3>6. can_vote[a]
      BY <1>2, <1>13, <3>2 DEF Rights
    <3>7. QED  BY <1>13, <3>1, <3>2, <3>5, <3>6
  <2>3. QED  BY <2>1, <2>2
<1>15. Rights'
  <2>1. \A b \in Account : /\ vf[b] = Cardinality({v \in new : v[1] = b})
                           /\ ~can_vote[b] => vf[b] = 0 /\ proxy[b] = NoProxy
    <3>1. SUFFICES ASSUME NEW b \in Account
                   PROVE  /\ vf[b] = Cardinality({v \in new : v[1] = b})
                          /\ ~can_vote[b] => vf[b] = 0 /\ proxy[b] = NoProxy
      OBVIOUS
    <3>2. CASE b = a
      BY <1>3, <1>14, <3>2
    <3>3. CASE b # a
      <4>1. {v \in new : v[1] = b} = {v \in votes : v[1] = b} /\ vf[b] = voted_for[b]
        BY <1>4, <1>14, <3>3
      <4>2. QED  BY <1>2, <4>1 DEF Rights
    <3>4. QED  BY <3>2, <3>3
  <2>2. \A u \in Witness : <<NullAccount, u>> \notin new
    BY <1>2, <1>4 DEF Rights
  <2>3. QED  BY <1>2, <1>3, <1>7, <2>1, <2>2 DEF Rights
<1>16. t1 \in Tally
  BY <1>1, <1>8, TallyNat
<1>17. VotesTypeOK'
  BY <1>3, <1>7, <1>9, <1>14, <1>16 DEF VotesTypeOK, Cast
<1>18. VotesInv'
  BY <1>2, <1>3, <1>7, <1>8, <1>10, <1>15 DEF VotesInv
<1>19. QED  BY <1>17, <1>18

(* decline_voting_rights *)
LEMMA DeclineStep ==
  ASSUME VotesTypeOK, VotesInv, now \in Nat, NEW a \in Account, a # NullAccount, NEW decline \in BOOLEAN,
         decline_voting_rights(a, decline)
  PROVE  VotesTypeOK' /\ VotesInv'
<1>1. /\ vesting' = vesting /\ shares' = shares /\ proxy' = proxy /\ can_vote' = can_vote
      /\ tally' = tally /\ now' = now /\ votes' = votes /\ voted_for' = voted_for
      /\ declines' = IF decline THEN declines \cup {<<now + DeclineDelay, a>>} ELSE {r \in declines : r[2] # a}
  BY DEF decline_voting_rights
<1>2. IsFiniteSet(declines) /\ declines \subseteq Nat \X Account /\ \A r \in declines : r[2] # NullAccount
  BY DEF VotesInv, Rights, VotesTypeOK
<1>3. now + DeclineDelay \in Nat
  BY LimitAssumption
<1>4. declines' \subseteq Nat \X Account /\ \A r \in declines' : r[2] # NullAccount
  BY <1>1, <1>2, <1>3
<1>5. IsFiniteSet(declines')
  <2>1. IsFiniteSet(declines \cup {<<now + DeclineDelay, a>>})
    BY <1>2, FS_AddElement
  <2>2. {r \in declines : r[2] # a} \in SUBSET declines
    OBVIOUS
  <2>3. IsFiniteSet({r \in declines : r[2] # a})
    BY <1>2, <2>2, FS_Subset
  <2>4. QED  BY <1>1, <2>1, <2>3
<1>6. VotesTypeOK'
  BY <1>1, <1>4 DEF VotesTypeOK
<1>7. Rights'
  BY <1>1, <1>4, <1>5 DEF VotesInv, Rights
<1>8. QED  BY <1>1, <1>6, <1>7 DEF VotesInv

(* The state of the chain as a state of a block. *)
LEMMA CurrentGood ==
  ASSUME IInv
  PROVE  /\ Current \in State /\ Good(Current, 0, 0) /\ \A x \in Account : Promised(Current, x)
         /\ Current.vesting = vesting /\ Current.balance = balance /\ Current.fund = fund /\ Current.shares = shares
         /\ Current.supply = supply /\ Current.tally = tally /\ Current.power_down = power_down
<1>1. /\ Current.vesting = vesting /\ Current.balance = balance /\ Current.fund = fund /\ Current.shares = shares
      /\ Current.supply = supply /\ Current.tally = tally /\ Current.power_down = power_down
  BY DEF Current
<1>2. VotesTypeOK /\ TypeOK
  BY DEF IInv, TypeOK
<1>3. vesting \in [Account -> Nat] /\ tally \in IntTally
  BY <1>2, VotesTypes
<1>4. /\ balance \in [Account -> Nat] /\ fund \in Nat /\ shares \in Nat /\ supply \in Nat
      /\ power_down \in [Account -> PowerDown]
  BY <1>2 DEF TypeOK, VotesTypeOK
<1>5. Current \in State
  BY <1>3, <1>4 DEF State, Current
<1>6. SharesConserved /\ (shares > 0 => fund > 0) /\ DelegationsBacked /\ Tallied(proxy, vesting, votes, tally)
  BY DEF IInv, SharesInv, VotesInv
<1>7. Good(Current, 0, 0)
  <2>1. SumFunctionOnSet(vesting, Account) = shares + 0
    BY <1>4, <1>6 DEF SharesConserved
  <2>2. IsFiniteSet(Account) /\ \A x \in Account : balance[x] \in Int
    BY <1>4, VoterAssumption
  <2>3. SumFunctionOnSet(balance, Account) \in Int
    BY <2>2, SumType
  <2>4. supply = fund + SumFunctionOnSet(balance, Account) + 0
    BY <1>4, <1>6, <2>3 DEF SharesConserved
  <2>5. QED  BY <1>1, <1>6, <2>1, <2>4 DEF Good
<1>8. \A x \in Account : Promised(Current, x)
  BY <1>1, <1>6 DEF DelegationsBacked, Promised
<1>9. QED  BY <1>1, <1>5, <1>7, <1>8

(* What holds of the totals when a sound state becomes that of the chain. *)
LEMMA TotalsHold ==
  ASSUME NEW st \in State, Good(st, 0, 0), Becomes(st)
  PROVE  /\ SharesConserved' /\ (shares > 0 => fund > 0)'
         /\ vesting' \in [Account -> Nat] /\ balance' \in [Account -> Nat] /\ fund' \in Nat /\ shares' \in Nat
         /\ supply' \in Nat /\ power_down' \in [Account -> PowerDown]
<1>1. /\ st.vesting \in [Account -> Nat] /\ st.balance \in [Account -> Nat] /\ st.fund \in Nat /\ st.shares \in Nat
      /\ st.supply \in Nat /\ st.power_down \in [Account -> PowerDown]
  BY DEF State
<1>2. /\ vesting' = st.vesting /\ balance' = st.balance /\ fund' = st.fund /\ shares' = st.shares /\ supply' = st.supply
      /\ power_down' = st.power_down
  BY DEF Becomes
<1>3. st.shares > 0 => st.fund > 0
  BY DEF Good
<1>4. st.shares = SumFunctionOnSet(st.vesting, Account)
  <2>1. SumFunctionOnSet(st.vesting, Account) = st.shares + 0
    BY DEF Good
  <2>2. QED  BY <1>1, <2>1
<1>5. st.supply = st.fund + SumFunctionOnSet(st.balance, Account)
  <2>1. st.supply = st.fund + SumFunctionOnSet(st.balance, Account) + 0
    BY DEF Good
  <2>2. IsFiniteSet(Account) /\ \A x \in Account : st.balance[x] \in Int
    BY <1>1, VoterAssumption
  <2>3. SumFunctionOnSet(st.balance, Account) \in Int
    BY <2>2, SumType
  <2>4. QED  BY <1>1, <2>1, <2>3
<1>6. QED  BY <1>1, <1>2, <1>3, <1>4, <1>5 DEF SharesConserved

(* A step that changes nothing but stakes and balances. *)
LEMMA TransferStep ==
  ASSUME IInv, NEW from \in Account, NEW to \in Account, NEW n \in Nat, transfer_to_vesting(from, to, n)
  PROVE  /\ TypeOK' /\ SharesInv' /\ VotesInv'
         /\ shares > 0 => fund' * shares >= fund * shares'
<1>1. /\ Current \in State /\ Good(Current, 0, 0) /\ \A x \in Account : Promised(Current, x)
      /\ Current.vesting = vesting /\ Current.balance = balance /\ Current.fund = fund /\ Current.shares = shares
      /\ Current.supply = supply /\ Current.tally = tally /\ Current.power_down = power_down
  BY CurrentGood
<1>2. VotesTypeOK /\ TypeOK /\ proxy \in Proxies
  BY VotesTypes DEF IInv, TypeOK
<1>3. /\ balance \in [Account -> Nat] /\ vesting \in [Account -> Nat] /\ delegated \in [Account -> Nat]
      /\ power_down \in [Account -> PowerDown]
  BY <1>2 DEF TypeOK, VotesTypeOK
<1>4. balance[from] >= n
  BY DEF transfer_to_vesting
<1>5. PICK b : b = Raised(balance, from, -n)
  OBVIOUS
<1>6. /\ b \in [Account -> Nat] /\ SumFunctionOnSet(balance, Account) \in Nat
      /\ SumFunctionOnSet(b, Account) = SumFunctionOnSet(balance, Account) + (-n)
  <2>1. -n \in Int /\ balance[from] + (-n) >= 0
    BY <1>3, <1>4
  <2>2. QED  BY <1>3, <1>5, <2>1, RaisedIs
<1>7. [balance EXCEPT ![from] = balance[from] - n] = b
  BY <1>3, <1>5 DEF Raised
<1>8. PICK m : m = [Current EXCEPT !.balance = b]
  OBVIOUS
<1>9. m \in State
  BY <1>1, <1>6, <1>8 DEF State
<1>10. /\ m.vesting = vesting /\ m.balance = b /\ m.fund = fund /\ m.shares = shares
       /\ m.supply = supply /\ m.tally = tally /\ m.power_down = power_down
  BY <1>8 DEF Current
<1>11. m = [Current EXCEPT !.balance[from] = @ - n]
  BY <1>7, <1>8 DEF Current
<1>12. Good(m, 0, n)
  <2>1. fund \in Nat /\ supply = fund + SumFunctionOnSet(balance, Account) + 0
    BY <1>1, <1>2 DEF Good, TypeOK
  <2>2. supply = fund + SumFunctionOnSet(b, Account) + n
    BY <1>6, <2>1
  <2>3. QED  BY <1>1, <1>10, <2>2 DEF Good
<1>13. PICK st : st = create_vesting(m, to, n)
  OBVIOUS
<1>14. /\ Becomes(st) /\ tally' = st.tally /\ proxy' = proxy /\ votes' = votes /\ voted_for' = voted_for
       /\ can_vote' = can_vote /\ declines' = declines /\ now' = now /\ routes' = routes
       /\ withdraw_routes' = withdraw_routes /\ delegated' = delegated /\ received' = received
       /\ delegations' = delegations /\ expirations' = expirations
  BY <1>11, <1>13 DEF transfer_to_vesting
<1>15. /\ st \in State /\ Good(st, 0, 0) /\ st.power_down = power_down
       /\ \A x \in Account : st.vesting[x] >= vesting[x]
       /\ shares > 0 => st.fund * shares >= fund * st.shares
  BY <1>2, <1>9, <1>10, <1>12, <1>13, CreateGood
<1>16. /\ SharesConserved' /\ (shares > 0 => fund > 0)'
       /\ vesting' \in [Account -> Nat] /\ balance' \in [Account -> Nat] /\ fund' \in Nat /\ shares' \in Nat
       /\ supply' \in Nat /\ power_down' \in [Account -> PowerDown]
  BY <1>14, <1>15, TotalsHold
<1>17. vesting' = st.vesting /\ fund' = st.fund /\ shares' = st.shares /\ power_down' = power_down
  BY <1>14, <1>15 DEF Becomes
<1>18. Tallied(proxy', vesting', votes', tally') /\ tally' \in Tally
  <2>1. Tallied(proxy, st.vesting, votes, st.tally) /\ st.tally \in IntTally
    BY <1>15 DEF Good, State
  <2>2. st.tally \in Tally
    BY <1>2, <1>16, <1>17, <2>1, TallyNat
  <2>3. QED  BY <1>14, <1>17, <2>1, <2>2
<1>19. TypeOK'
  <2>1. VotesTypeOK'
    BY <1>2, <1>14, <1>16, <1>18 DEF VotesTypeOK
  <2>2. QED  BY <1>2, <1>14, <1>16, <2>1 DEF TypeOK
<1>20. VotesInv'
  <2>1. VotesInv
    BY DEF IInv
  <2>2. QED  BY <1>14, <1>18, <2>1 DEF VotesInv, Rights
<1>21. SharesInv'
  <2>1. SharesInv
    BY DEF IInv
  <2>2. DelegationsBacked'
    <3>1. SUFFICES ASSUME NEW x \in Account
                   PROVE  delegated[x] + (power_down[x].to_withdraw - power_down[x].withdrawn) <= vesting'[x]
      BY <1>14, <1>17 DEF DelegationsBacked
    <3>2. delegated[x] + (power_down[x].to_withdraw - power_down[x].withdrawn) <= vesting[x] /\ vesting'[x] >= vesting[x]
      BY <1>15, <1>17, <2>1 DEF SharesInv, DelegationsBacked
    <3>3. /\ delegated[x] \in Nat /\ power_down[x].to_withdraw \in Nat /\ power_down[x].withdrawn \in Nat
          /\ vesting[x] \in Nat /\ vesting'[x] \in Nat
      BY <1>3, <1>16 DEF PowerDown
    <3>4. QED  BY <3>2, <3>3
  <2>3. DelegationsCounted'
    BY <1>14, <2>1 DEF SharesInv, DelegationsCounted
  <2>4. WithdrawalsExact' /\ InInstalments'
    BY <1>14, <1>17, <2>1 DEF SharesInv, WithdrawalsExact, InInstalments
  <2>5. RoutesInv'
    BY <1>14, <2>1 DEF SharesInv, RoutesInv, RoutesOf
  <2>6. QED  BY <1>14, <1>16, <1>17, <2>1, <2>2, <2>3, <2>4, <2>5 DEF SharesInv
<1>22. QED  BY <1>15, <1>17, <1>19, <1>20, <1>21

(* withdraw_vesting *)
LEMMA WithdrawStep ==
  ASSUME IInv, NEW a \in Account, a # NullAccount, NEW n \in Nat, withdraw_vesting(a, n)
  PROVE  TypeOK' /\ SharesInv' /\ VotesInv' /\ fund' = fund /\ shares' = shares
<1>1. PICK rate : rate = IF n \div Intervals = 0 THEN 1 ELSE n \div Intervals
  OBVIOUS
<1>2. rate \in Nat \ {0}
  <2>1. Intervals \in Nat \ {0}
    BY WithdrawAssumption
  <2>2. n \div Intervals \in Nat
    BY <2>1, DivDown
  <2>3. QED  BY <1>1, <2>2
<1>3. PICK p : p = [rate |-> rate, next |-> now + Interval, to_withdraw |-> n, withdrawn |-> 0]
  OBVIOUS
<1>4. PICK pd : pd = [power_down EXCEPT ![a] = p]
  OBVIOUS
<1>5. /\ n > 0 /\ vesting[a] - delegated[a] >= n /\ power_down' = pd
      /\ UNCHANGED <<voteVars, balance, fund, supply, routes, withdraw_routes, delegated, received, delegations, expirations>>
  BY <1>1, <1>3, <1>4 DEF withdraw_vesting
<1>6. /\ vesting' = vesting /\ shares' = shares /\ proxy' = proxy /\ tally' = tally /\ votes' = votes
      /\ voted_for' = voted_for /\ can_vote' = can_vote /\ declines' = declines /\ now' = now
      /\ balance' = balance /\ fund' = fund /\ supply' = supply /\ routes' = routes /\ withdraw_routes' = withdraw_routes
      /\ delegated' = delegated /\ received' = received /\ delegations' = delegations /\ expirations' = expirations
  BY <1>5 DEF voteVars
<1>7. TypeOK /\ SharesInv /\ VotesInv
  BY DEF IInv
<1>8. now \in Nat /\ Interval \in Nat \ {0} /\ power_down \in [Account -> PowerDown]
      /\ vesting \in [Account -> Nat] /\ delegated \in [Account -> Nat]
  BY <1>7, WithdrawAssumption, TimeAssumption DEF TypeOK, VotesTypeOK
<1>9. /\ p \in PowerDown /\ p.rate = rate /\ p.next = now + Interval /\ p.to_withdraw = n /\ p.withdrawn = 0
  <2>1. now + Interval \in Nat
    BY <1>8
  <2>2. QED  BY <1>2, <1>3, <2>1 DEF PowerDown
<1>10. pd \in [Account -> PowerDown] /\ pd[a] = p /\ \A x \in Account \ {a} : pd[x] = power_down[x]
  BY <1>4, <1>8, <1>9
<1>11. TypeOK'
  BY <1>5, <1>6, <1>7, <1>10 DEF TypeOK, VotesTypeOK
<1>12. VotesInv'
  BY <1>6, <1>7, VotesStay
<1>13. SharesConserved' /\ (shares > 0 => fund > 0)'
  BY <1>6, <1>7 DEF SharesInv, SharesConserved
<1>14. DelegationsCounted'
  BY <1>6, <1>7 DEF SharesInv, DelegationsCounted
<1>15. RoutesInv'
  BY <1>6, <1>7 DEF SharesInv, RoutesInv, RoutesOf
<1>16. \A x \in Account : delegated[x] + (pd[x].to_withdraw - pd[x].withdrawn) <= vesting[x]
  <2>1. SUFFICES ASSUME NEW x \in Account PROVE delegated[x] + (pd[x].to_withdraw - pd[x].withdrawn) <= vesting[x]
    OBVIOUS
  <2>2. CASE x = a
    <3>1. delegated[a] + (n - 0) <= vesting[a]
      BY <1>5, <1>8
    <3>2. QED  BY <1>9, <1>10, <2>2, <3>1
  <2>3. CASE x # a
    BY <1>7, <1>10, <2>3 DEF SharesInv, DelegationsBacked
  <2>4. QED  BY <2>2, <2>3
<1>17. \A x \in Account : IF pd[x].rate = 0 THEN pd[x].withdrawn = pd[x].to_withdraw /\ pd[x].next = Never
                          ELSE pd[x].withdrawn < pd[x].to_withdraw /\ now < pd[x].next
  <2>1. SUFFICES ASSUME NEW x \in Account
                 PROVE  IF pd[x].rate = 0 THEN pd[x].withdrawn = pd[x].to_withdraw /\ pd[x].next = Never
                        ELSE pd[x].withdrawn < pd[x].to_withdraw /\ now < pd[x].next
    OBVIOUS
  <2>2. CASE x = a
    BY <1>2, <1>5, <1>8, <1>9, <1>10, <2>2
  <2>3. CASE x # a
    BY <1>7, <1>10, <2>3 DEF SharesInv, WithdrawalsExact
  <2>4. QED  BY <2>2, <2>3
<1>18. \A x \in Account : pd[x].rate # 0 => pd[x].withdrawn % pd[x].rate = 0
  <2>1. SUFFICES ASSUME NEW x \in Account, pd[x].rate # 0 PROVE pd[x].withdrawn % pd[x].rate = 0
    OBVIOUS
  <2>2. CASE x = a
    <3>1. 0 % rate = 0
      BY <1>2
    <3>2. QED  BY <1>9, <1>10, <2>2, <3>1
  <2>3. CASE x # a
    BY <1>7, <1>10, <2>1, <2>3 DEF SharesInv, InInstalments
  <2>4. QED  BY <2>2, <2>3
<1>19. DelegationsBacked' /\ WithdrawalsExact' /\ InInstalments'
  BY <1>5, <1>6, <1>16, <1>17, <1>18 DEF DelegationsBacked, WithdrawalsExact, InInstalments
<1>20. delegated[NullAccount]' = 0 /\ power_down[NullAccount].rate' = 0
  <2>1. NullAccount \in Account
    BY NullAssumption
  <2>2. QED  BY <1>5, <1>6, <1>7, <1>10, <2>1 DEF SharesInv
<1>21. QED  BY <1>6, <1>11, <1>12, <1>13, <1>14, <1>15, <1>19, <1>20 DEF SharesInv

(* set_withdraw_vesting_route *)
LEMMA RouteStep ==
  ASSUME IInv, NEW from \in Account, NEW to \in Account, NEW percent \in 0..Full, NEW auto \in BOOLEAN,
         set_withdraw_vesting_route(from, to, percent, auto)
  PROVE  TypeOK' /\ SharesInv' /\ VotesInv' /\ fund' = fund /\ shares' = shares
<1>1. PICK old : old = {r \in routes : r.from = from /\ r.to = to}
  OBVIOUS
<1>2. PICK route : route = [from |-> from, to |-> to, percent |-> percent, auto_vest |-> auto]
  OBVIOUS
<1>3. PICK new : new = IF percent = 0 THEN routes \ old ELSE (routes \ old) \cup {route}
  OBVIOUS
<1>4. PICK count : count = [withdraw_routes EXCEPT ![from] = @ + (IF old = {} THEN 1 ELSE IF percent = 0 THEN -1 ELSE 0)]
  OBVIOUS
<1>5. /\ old = {} => percent # 0 /\ withdraw_routes[from] < MaxRoutes
      /\ SumFunction([r \in RoutesOf(new, from) |-> r.percent]) <= Full
      /\ routes' = new /\ withdraw_routes' = count
      /\ UNCHANGED <<voteVars, balance, fund, supply, power_down, delegated, received, delegations, expirations>>
  BY <1>1, <1>2, <1>3, <1>4 DEF set_withdraw_vesting_route
<1>6. /\ vesting' = vesting /\ shares' = shares /\ proxy' = proxy /\ tally' = tally /\ votes' = votes
      /\ voted_for' = voted_for /\ can_vote' = can_vote /\ declines' = declines /\ now' = now
      /\ balance' = balance /\ fund' = fund /\ supply' = supply /\ power_down' = power_down
      /\ delegated' = delegated /\ received' = received /\ delegations' = delegations /\ expirations' = expirations
  BY <1>5 DEF voteVars
<1>7. TypeOK /\ SharesInv /\ VotesInv
  BY DEF IInv
<1>8. /\ routes \subseteq Route /\ withdraw_routes \in [Account -> Nat] /\ IsFiniteSet(routes)
      /\ \A r, s \in routes : r.from = s.from /\ r.to = s.to => r = s
      /\ \A a \in Account : /\ SumFunction([r \in RoutesOf(routes, a) |-> r.percent]) <= Full
                            /\ withdraw_routes[a] = Cardinality(RoutesOf(routes, a))
  BY <1>7 DEF TypeOK, SharesInv, RoutesInv
<1>9. Full \in Nat \ {0}
  BY WithdrawAssumption
<1>10. route.from = from /\ route.to = to /\ (percent # 0 => route \in Route)
  <2>1. route.from = from /\ route.to = to
    BY <1>2
  <2>2. percent # 0 => percent \in 1..Full
    BY <1>9
  <2>3. QED  BY <1>2, <2>1, <2>2 DEF Route
<1>11. new \subseteq Route
  BY <1>3, <1>8, <1>10
<1>12. IsFiniteSet(new)
  <2>1. routes \ old \in SUBSET routes
    OBVIOUS
  <2>2. IsFiniteSet(routes \ old)
    BY <1>8, <2>1, FS_Subset
  <2>3. IsFiniteSet((routes \ old) \cup {route})
    BY <2>2, FS_AddElement
  <2>4. QED  BY <1>3, <2>2, <2>3
<1>13. \A r, s \in new : r.from = s.from /\ r.to = s.to => r = s
  <2>1. SUFFICES ASSUME NEW r \in new, NEW s \in new, r.from = s.from, r.to = s.to PROVE r = s
    OBVIOUS
  <2>2. \A q \in routes \ old : ~(q.from = from /\ q.to = to)
    BY <1>1
  <2>3. QED  BY <1>3, <1>8, <1>10, <2>1, <2>2
<1>14. ASSUME NEW a \in Account, a # from PROVE RoutesOf(new, a) = RoutesOf(routes, a)
  <2>1. \A r \in old : r.from # a
    BY <1>1, <1>14
  <2>2. QED  BY <1>3, <1>10, <1>14, <2>1 DEF RoutesOf
<1>15. PICK S : S = RoutesOf(routes, from)
  OBVIOUS
<1>16. IsFiniteSet(S) /\ withdraw_routes[from] = Cardinality(S) /\ withdraw_routes[from] \in Nat
  <2>1. S \in SUBSET routes
    BY <1>15 DEF RoutesOf
  <2>2. IsFiniteSet(S)
    BY <1>8, <2>1, FS_Subset
  <2>3. QED  BY <1>8, <1>15, <2>2
<1>17. /\ count \in [Account -> Nat] /\ count[from] = Cardinality(RoutesOf(new, from))
       /\ \A a \in Account \ {from} : count[a] = withdraw_routes[a]
  <2>1. CASE old = {}
    <3>1. percent # 0
      BY <1>5, <2>1
    <3>2. RoutesOf(new, from) = S \cup {route}
      BY <1>3, <1>10, <1>15, <2>1, <3>1 DEF RoutesOf
    <3>3. route \notin S
      BY <1>1, <1>10, <1>15, <2>1 DEF RoutesOf
    <3>4. Cardinality(S \cup {route}) = Cardinality(S) + 1
      BY <1>16, <3>3, FS_AddElement
    <3>5. count = [withdraw_routes EXCEPT ![from] = withdraw_routes[from] + 1]
      BY <1>4, <1>8, <2>1
    <3>6. /\ count \in [Account -> Nat] /\ count[from] = withdraw_routes[from] + 1
          /\ \A a \in Account \ {from} : count[a] = withdraw_routes[a]
      BY <1>8, <1>16, <3>5
    <3>7. QED  BY <1>16, <3>2, <3>4, <3>6
  <2>2. CASE old # {}
    <3>1. PICK r \in routes : r.from = from /\ r.to = to
      BY <1>1, <2>2
    <3>2. old = {r}
      BY <1>1, <1>8, <3>1
    <3>3. r \in S
      BY <1>15, <3>1 DEF RoutesOf
    <3>4. IsFiniteSet(S \ {r}) /\ Cardinality(S \ {r}) = Cardinality(S) - 1 /\ Cardinality(S) # 0
      BY <1>16, <3>3, FS_RemoveElement, FS_EmptySet
    <3>5. CASE percent = 0
      <4>1. RoutesOf(new, from) = S \ {r}
        BY <1>3, <1>15, <3>2, <3>5 DEF RoutesOf
      <4>2. count = [withdraw_routes EXCEPT ![from] = withdraw_routes[from] - 1]
        BY <1>4, <1>8, <2>2, <3>5
      <4>3. withdraw_routes[from] - 1 \in Nat
        BY <1>16, <3>4
      <4>4. /\ count \in [Account -> Nat] /\ count[from] = withdraw_routes[from] - 1
            /\ \A a \in Account \ {from} : count[a] = withdraw_routes[a]
        BY <1>8, <4>2, <4>3
      <4>5. QED  BY <1>16, <3>4, <4>1, <4>4
    <3>6. CASE percent # 0
      <4>1. RoutesOf(new, from) = (S \ {r}) \cup {route}
        BY <1>3, <1>10, <1>15, <3>2, <3>6 DEF RoutesOf
      <4>2. route \notin S \ {r}
        BY <1>8, <1>10, <1>15, <3>1 DEF RoutesOf
      <4>3. Cardinality((S \ {r}) \cup {route}) = Cardinality(S \ {r}) + 1
        BY <3>4, <4>2, FS_AddElement
      <4>4. count = [withdraw_routes EXCEPT ![from] = withdraw_routes[from] + 0]
        BY <1>4, <1>8, <2>2, <3>6
      <4>5. /\ count \in [Account -> Nat] /\ count[from] = withdraw_routes[from]
            /\ \A a \in Account \ {from} : count[a] = withdraw_routes[a]
        BY <1>8, <1>16, <4>4
      <4>6. QED  BY <1>16, <3>4, <4>1, <4>3, <4>5
    <3>7. QED  BY <3>5, <3>6
  <2>3. QED  BY <2>1, <2>2
<1>18. \A a \in Account : /\ SumFunction([r \in RoutesOf(new, a) |-> r.percent]) <= Full
                          /\ count[a] = Cardinality(RoutesOf(new, a))
  <2>1. SUFFICES ASSUME NEW a \in Account
                 PROVE  /\ SumFunction([r \in RoutesOf(new, a) |-> r.percent]) <= Full
                        /\ count[a] = Cardinality(RoutesOf(new, a))
    OBVIOUS
  <2>2. CASE a = from
    BY <1>5, <1>17, <2>2
  <2>3. CASE a # from
    <3>1. RoutesOf(new, a) = RoutesOf(routes, a) /\ count[a] = withdraw_routes[a]
      BY <1>14, <1>17, <2>3
    <3>2. SumFunction([r \in RoutesOf(new, a) |-> r.percent]) <= Full
      BY <1>8, <3>1
    <3>3. QED  BY <1>8, <3>1, <3>2
  <2>4. QED  BY <2>2, <2>3
<1>19. RoutesInv'
  <2>1. \A a \in Account : RoutesOf(routes, a)' = RoutesOf(new, a)
    BY <1>5 DEF RoutesOf
  <2>2. QED  BY <1>5, <1>12, <1>13, <1>18 DEF RoutesInv, RoutesOf
<1>20. TypeOK'
  BY <1>5, <1>6, <1>7, <1>11, <1>17 DEF TypeOK, VotesTypeOK
<1>21. VotesInv'
  BY <1>6, <1>7, VotesStay
<1>22. SharesConserved' /\ (shares > 0 => fund > 0)' /\ DelegationsBacked'
  BY <1>6, <1>7 DEF SharesInv, SharesConserved, DelegationsBacked
<1>23. DelegationsCounted'
  BY <1>6, <1>7 DEF SharesInv, DelegationsCounted
<1>24. WithdrawalsExact' /\ InInstalments'
  BY <1>6, <1>7 DEF SharesInv, WithdrawalsExact, InInstalments
<1>25. QED  BY <1>6, <1>7, <1>19, <1>20, <1>21, <1>22, <1>23, <1>24 DEF SharesInv

(* One entry of a table of numbers changes. *)
Entry(d, x, y, n) == [d EXCEPT ![x][y] = n]
Column(d, y) == [x \in Account |-> d[x][y]]

EntrySound(S, d, x, y, n, e) ==
  /\ e \in [Account -> [S -> Nat]] /\ e[x][y] = n
  /\ \A a \in Account \ {x} : e[a] = d[a]
  /\ \A z \in S \ {y}, a \in Account : e[a][z] = d[a][z]
  /\ SumFunction(d[x]) \in Nat /\ d[x][y] <= SumFunction(d[x])
  /\ SumFunction(e[x]) = SumFunction(d[x]) + (n - d[x][y])

(* So does the sum of its row. *)
LEMMA EntryIs ==
  ASSUME NEW S, IsFiniteSet(S), NEW d, d \in [Account -> [S -> Nat]], NEW x, x \in Account, NEW y, y \in S,
         NEW n, n \in Nat, NEW e, e = Entry(d, x, y, n)
  PROVE  EntrySound(S, d, x, y, n, e)
<1>1. PICK r : r = [d[x] EXCEPT ![y] = n]
  OBVIOUS
<1>2. d[x] \in [S -> Nat] /\ r \in [S -> Nat] /\ r[y] = n /\ \A z \in S \ {y} : r[z] = d[x][z]
  BY <1>1
<1>3. e = [d EXCEPT ![x] = r]
  BY <1>1 DEF Entry
<1>4. e \in [Account -> [S -> Nat]] /\ e[x] = r /\ \A a \in Account \ {x} : e[a] = d[a]
  BY <1>2, <1>3
<1>5. \A z \in S \ {y}, a \in Account : e[a][z] = d[a][z]
  BY <1>2, <1>4
<1>6. PICK f : f = d[x]
  OBVIOUS
<1>7. \A z \in S : f[z] \in Int /\ f[z] \in Nat
  BY <1>2, <1>6
<1>8. SumFunctionOnSet(f, S) \in Nat /\ f[y] <= SumFunctionOnSet(f, S)
  BY <1>7, SumBounds
<1>9. r[y] \in Int /\ \A z \in S \ {y} : r[z] = f[z]
  BY <1>2, <1>6
<1>10. SumFunctionOnSet(r, S) = SumFunctionOnSet(f, S) + (r[y] - f[y])
  BY <1>7, <1>9, SumChange
<1>11. SumFunction(f) = SumFunctionOnSet(f, S) /\ SumFunction(r) = SumFunctionOnSet(r, S)
  BY <1>2, <1>6 DEF SumFunction
<1>12. QED  BY <1>2, <1>4, <1>5, <1>6, <1>8, <1>10, <1>11 DEF EntrySound

ColumnSound(d, x, y, n, e) ==
  /\ \A z \in Account \ {y} : Column(e, z) = Column(d, z)
  /\ SumFunction(Column(d, y)) \in Nat /\ d[x][y] <= SumFunction(Column(d, y))
  /\ SumFunction(Column(e, y)) = SumFunction(Column(d, y)) + (n - d[x][y])

(* And that of its column. *)
LEMMA ColumnIs ==
  ASSUME NEW d \in [Account -> [Account -> Nat]], NEW x \in Account, NEW y \in Account, NEW n \in Nat,
         NEW e, e = Entry(d, x, y, n)
  PROVE  ColumnSound(d, x, y, n, e)
<1>0. IsFiniteSet(Account)
  BY VoterAssumption
<1>1. /\ e \in [Account -> [Account -> Nat]] /\ e[x][y] = n
      /\ \A a \in Account \ {x} : e[a] = d[a]
      /\ \A z \in Account \ {y}, a \in Account : e[a][z] = d[a][z]
  <2>1. EntrySound(Account, d, x, y, n, e)
    BY <1>0, EntryIs
  <2>2. QED  BY <2>1 DEF EntrySound
<1>2. \A z \in Account \ {y} : Column(e, z) = Column(d, z)
  BY <1>1 DEF Column
<1>3. PICK f : f = Column(d, y)
  OBVIOUS
<1>4. PICK g : g = Column(e, y)
  OBVIOUS
<1>5. /\ \A a \in Account : f[a] = d[a][y] /\ f[a] \in Int /\ f[a] \in Nat
      /\ g[x] = n /\ g[x] \in Int /\ \A a \in Account \ {x} : g[a] = f[a]
  BY <1>1, <1>3, <1>4 DEF Column
<1>6. SumFunctionOnSet(f, Account) \in Nat /\ f[x] <= SumFunctionOnSet(f, Account)
  BY <1>0, <1>5, SumBounds
<1>7. SumFunctionOnSet(g, Account) = SumFunctionOnSet(f, Account) + (g[x] - f[x])
  BY <1>0, <1>5, SumChange
<1>8. SumFunction(f) = SumFunctionOnSet(f, Account) /\ SumFunction(g) = SumFunctionOnSet(g, Account)
  BY <1>3, <1>4 DEF SumFunction, Column
<1>9. QED  BY <1>2, <1>3, <1>4, <1>5, <1>6, <1>7, <1>8 DEF ColumnSound

(* What a change of the delegations leaves alone. *)
LEMMA DelegationsStay ==
  ASSUME SharesInv, VotesInv,
         UNCHANGED <<voteVars, balance, fund, supply, power_down, routes, withdraw_routes>>
  PROVE  /\ VotesInv' /\ SharesConserved' /\ (shares > 0 => fund > 0)' /\ WithdrawalsExact' /\ InInstalments' /\ RoutesInv'
         /\ power_down[NullAccount].rate' = 0
<1>1. /\ vesting' = vesting /\ shares' = shares /\ proxy' = proxy /\ tally' = tally /\ votes' = votes
      /\ voted_for' = voted_for /\ can_vote' = can_vote /\ declines' = declines /\ now' = now
      /\ balance' = balance /\ fund' = fund /\ supply' = supply /\ power_down' = power_down
      /\ routes' = routes /\ withdraw_routes' = withdraw_routes
  BY DEF voteVars
<1>2. VotesInv'
  BY <1>1, VotesStay
<1>3. SharesConserved' /\ (shares > 0 => fund > 0)'
  BY <1>1 DEF SharesInv, SharesConserved
<1>4. WithdrawalsExact' /\ InInstalments'
  BY <1>1 DEF SharesInv, WithdrawalsExact, InInstalments
<1>5. RoutesInv'
  BY <1>1 DEF SharesInv, RoutesInv, RoutesOf
<1>6. power_down[NullAccount].rate' = 0
  BY <1>1 DEF SharesInv
<1>7. QED  BY <1>2, <1>3, <1>4, <1>5, <1>6

(* delegate_more *)
LEMMA MoreStep ==
  ASSUME IInv, NEW from \in Account, from # NullAccount, NEW to \in Account, NEW n \in Nat, delegate_more(from, to, n)
  PROVE  TypeOK' /\ SharesInv' /\ VotesInv' /\ fund' = fund /\ shares' = shares
<1>1. TypeOK /\ SharesInv /\ VotesInv
  BY DEF IInv
<1>2. /\ delegations \in [Account -> [Account -> Nat]] /\ delegated \in [Account -> Nat] /\ received \in [Account -> Nat]
      /\ power_down \in [Account -> PowerDown] /\ vesting \in [Account -> Nat] /\ IsFiniteSet(Account)
      /\ NullAccount \in Account
  BY <1>1, VoterAssumption, NullAssumption DEF TypeOK, VotesTypeOK
<1>3. PICK old \in Nat : old = delegations[from][to]
  BY <1>2
<1>4. PICK delta : delta = n - old
  OBVIOUS
<1>5. PICK e : e = Entry(delegations, from, to, n)
  OBVIOUS
<1>6. /\ (IF old = 0 THEN n >= MinDelegation ELSE delta >= MinUpdate) /\ Available(from) >= delta
      /\ delegated' = [delegated EXCEPT ![from] = @ + delta]
      /\ received' = [received EXCEPT ![to] = @ + delta] /\ delegations' = e
      /\ UNCHANGED <<voteVars, balance, fund, supply, power_down, routes, withdraw_routes, expirations>>
  BY <1>3, <1>4, <1>5 DEF delegate_more, Entry
<1>7. delta \in Nat
  <2>1. MinDelegation \in Nat \ {0} /\ MinUpdate \in Nat \ {0}
    BY DelegationAssumption
  <2>2. QED  BY <1>3, <1>4, <1>6, <2>1
<1>8. PICK dd : dd = [delegated EXCEPT ![from] = @ + delta]
  OBVIOUS
<1>9. PICK rr : rr = [received EXCEPT ![to] = @ + delta]
  OBVIOUS
<1>10. dd \in [Account -> Nat] /\ dd[from] = delegated[from] + delta /\ \A a \in Account \ {from} : dd[a] = delegated[a]
  BY <1>2, <1>7, <1>8
<1>11. rr \in [Account -> Nat] /\ rr[to] = received[to] + delta /\ \A a \in Account \ {to} : rr[a] = received[a]
  BY <1>2, <1>7, <1>9
<1>12. /\ e \in [Account -> [Account -> Nat]] /\ \A a \in Account \ {from} : e[a] = delegations[a]
       /\ SumFunction(delegations[from]) \in Nat
       /\ SumFunction(e[from]) = SumFunction(delegations[from]) + delta
  <2>1. EntrySound(Account, delegations, from, to, n, e)
    BY <1>2, <1>5, EntryIs
  <2>2. /\ e \in [Account -> [Account -> Nat]] /\ \A a \in Account \ {from} : e[a] = delegations[a]
        /\ SumFunction(delegations[from]) \in Nat
        /\ SumFunction(e[from]) = SumFunction(delegations[from]) + (n - delegations[from][to])
    BY <2>1 DEF EntrySound
  <2>3. QED  BY <1>3, <1>4, <2>2
<1>13. /\ \A z \in Account \ {to} : Column(e, z) = Column(delegations, z)
       /\ SumFunction(Column(delegations, to)) \in Nat
       /\ SumFunction(Column(e, to)) = SumFunction(Column(delegations, to)) + delta
  <2>1. ColumnSound(delegations, from, to, n, e)
    BY <1>2, <1>5, ColumnIs
  <2>2. /\ \A z \in Account \ {to} : Column(e, z) = Column(delegations, z)
        /\ SumFunction(Column(delegations, to)) \in Nat
        /\ SumFunction(Column(e, to)) = SumFunction(Column(delegations, to)) + (n - delegations[from][to])
    BY <2>1 DEF ColumnSound
  <2>3. QED  BY <1>3, <1>4, <2>2
<1>14. \A a \in Account : /\ delegated[a] = SumFunction(delegations[a]) + SumFunction(expirations[a])
                          /\ received[a] = SumFunction(Column(delegations, a))
  BY <1>1 DEF SharesInv, DelegationsCounted, Column
<1>15. \A a \in Account : /\ dd[a] = SumFunction(e[a]) + SumFunction(expirations[a])
                          /\ rr[a] = SumFunction(Column(e, a))
  <2>1. SUFFICES ASSUME NEW a \in Account
                 PROVE  dd[a] = SumFunction(e[a]) + SumFunction(expirations[a]) /\ rr[a] = SumFunction(Column(e, a))
    OBVIOUS
  <2>2. dd[a] = SumFunction(e[a]) + SumFunction(expirations[a])
    <3>1. CASE a = from
      <4>1. PICK q \in Int : q = SumFunction(expirations[from])
        <5>1. expirations[from] \in [Date -> Nat] /\ IsFiniteSet(Date)
          <6>1. MaxTime + ReturnPeriod \in Int /\ 0 \in Int
            BY TimeAssumption
          <6>2. IsFiniteSet(Date)
            BY <6>1, FS_Interval DEF Date
          <6>3. QED  BY <1>1, <6>2 DEF TypeOK
        <5>2. PICK f : f = expirations[from]
          OBVIOUS
        <5>3. \A z \in Date : f[z] \in Int
          BY <5>1, <5>2
        <5>4. SumFunctionOnSet(f, Date) \in Int
          BY <5>1, <5>3, SumType
        <5>5. SumFunction(f) = SumFunctionOnSet(f, Date)
          BY <5>1, <5>2 DEF SumFunction
        <5>6. QED  BY <5>2, <5>4, <5>5
      <4>2. QED  BY <1>7, <1>10, <1>12, <1>14, <3>1, <4>1
    <3>2. CASE a # from
      BY <1>10, <1>12, <1>14, <3>2
    <3>3. QED  BY <3>1, <3>2
  <2>3. rr[a] = SumFunction(Column(e, a))
    <3>1. CASE a = to
      BY <1>7, <1>11, <1>13, <1>14, <3>1
    <3>2. CASE a # to
      BY <1>11, <1>13, <1>14, <3>2
    <3>3. QED  BY <3>1, <3>2
  <2>4. QED  BY <2>2, <2>3
<1>16. \A a \in Account : dd[a] + (power_down[a].to_withdraw - power_down[a].withdrawn) <= vesting[a]
  <2>1. SUFFICES ASSUME NEW a \in Account
                 PROVE  dd[a] + (power_down[a].to_withdraw - power_down[a].withdrawn) <= vesting[a]
    OBVIOUS
  <2>2. CASE a = from
    <3>1. vesting[from] - delegated[from] - (power_down[from].to_withdraw - power_down[from].withdrawn) >= delta
      BY <1>6 DEF Available
    <3>2. /\ vesting[from] \in Nat /\ delegated[from] \in Nat /\ power_down[from].to_withdraw \in Nat
          /\ power_down[from].withdrawn \in Nat
      BY <1>2 DEF PowerDown
    <3>3. QED  BY <1>7, <1>10, <2>2, <3>1, <3>2
  <2>3. CASE a # from
    BY <1>1, <1>10, <2>3 DEF SharesInv, DelegationsBacked
  <2>4. QED  BY <2>2, <2>3
<1>17. /\ vesting' = vesting /\ power_down' = power_down /\ expirations' = expirations /\ fund' = fund /\ shares' = shares
       /\ delegated' = dd /\ received' = rr /\ delegations' = e
  BY <1>6, <1>8, <1>9 DEF voteVars
<1>18. DelegationsBacked'
  BY <1>16, <1>17 DEF DelegationsBacked
<1>19. DelegationsCounted'
  BY <1>15, <1>17 DEF DelegationsCounted, Column
<1>20. delegated[NullAccount]' = 0
  BY <1>1, <1>2, <1>10, <1>17 DEF SharesInv
<1>21. TypeOK'
  BY <1>1, <1>6, <1>10, <1>11, <1>12, <1>17 DEF TypeOK, VotesTypeOK, voteVars
<1>22. /\ VotesInv' /\ SharesConserved' /\ (shares > 0 => fund > 0)' /\ WithdrawalsExact' /\ InInstalments' /\ RoutesInv'
       /\ power_down[NullAccount].rate' = 0
  <2>1. UNCHANGED <<voteVars, balance, fund, supply, power_down, routes, withdraw_routes>>
    BY <1>6
  <2>2. QED  BY <1>1, <2>1, DelegationsStay
<1>23. QED  BY <1>17, <1>18, <1>19, <1>20, <1>21, <1>22 DEF SharesInv

(* What comes back, by date. *)
LEMMA DatesAre ==
  ASSUME TypeOK
  PROVE  /\ IsFiniteSet(Date) /\ expirations \in [Account -> [Date -> Nat]] /\ now + ReturnPeriod \in Date
         /\ \A a \in Account : SumFunction(expirations[a]) \in Nat
<1>1. MaxTime + ReturnPeriod \in Int /\ 0 \in Int /\ now \in 0..MaxTime /\ ReturnPeriod \in Nat /\ MaxTime \in Nat
  BY TimeAssumption DEF TypeOK
<1>2. IsFiniteSet(Date) /\ now + ReturnPeriod \in Date
  BY <1>1, FS_Interval DEF Date
<1>3. expirations \in [Account -> [Date -> Nat]]
  BY DEF TypeOK
<1>4. ASSUME NEW a \in Account PROVE SumFunction(expirations[a]) \in Nat
  <2>1. PICK f : f = expirations[a]
    OBVIOUS
  <2>2. f \in [Date -> Nat] /\ \A z \in Date : f[z] \in Int /\ f[z] >= 0
    BY <1>3, <2>1
  <2>3. SumFunctionOnSet(f, Date) \in Int /\ SumFunctionOnSet(f, Date) >= 0
    BY <1>2, <2>2, SumType
  <2>4. SumFunction(f) = SumFunctionOnSet(f, Date)
    BY <2>2 DEF SumFunction
  <2>5. QED  BY <2>1, <2>3, <2>4
<1>5. QED  BY <1>2, <1>3, <1>4

(* delegate_less *)
LEMMA LessStep ==
  ASSUME IInv, NEW from \in Account, NEW to \in Account, NEW n \in Nat, delegate_less(from, to, n)
  PROVE  TypeOK' /\ SharesInv' /\ VotesInv' /\ fund' = fund /\ shares' = shares
<1>1. TypeOK /\ SharesInv /\ VotesInv
  BY DEF IInv
<1>2. /\ delegations \in [Account -> [Account -> Nat]] /\ delegated \in [Account -> Nat] /\ received \in [Account -> Nat]
      /\ IsFiniteSet(Account)
  BY <1>1, VoterAssumption DEF TypeOK
<1>3. PICK old \in Nat : old = delegations[from][to]
  BY <1>2
<1>4. PICK delta : delta = old - n
  OBVIOUS
<1>5. PICK e : e = Entry(delegations, from, to, n)
  OBVIOUS
<1>6. PICK d : d = now + ReturnPeriod
  OBVIOUS
<1>7. /\ IsFiniteSet(Date) /\ expirations \in [Account -> [Date -> Nat]] /\ d \in Date
      /\ \A a \in Account : SumFunction(expirations[a]) \in Nat
  BY <1>1, <1>6, DatesAre
<1>8. PICK m \in Nat : m = expirations[from][d]
  BY <1>7
<1>9. /\ delta > 0
      /\ expirations' = [expirations EXCEPT ![from][d] = @ + delta]
      /\ received' = [received EXCEPT ![to] = @ - delta] /\ delegations' = e
      /\ UNCHANGED <<voteVars, balance, fund, supply, power_down, routes, withdraw_routes, delegated>>
  BY <1>3, <1>4, <1>5, <1>6 DEF delegate_less, Entry
<1>10. delta \in Nat /\ delta <= old
  BY <1>3, <1>4, <1>9
<1>11. PICK x : x = Entry(expirations, from, d, m + delta)
  OBVIOUS
<1>12. expirations' = x
  BY <1>7, <1>8, <1>9, <1>11 DEF Entry
<1>13. /\ x \in [Account -> [Date -> Nat]] /\ \A a \in Account \ {from} : x[a] = expirations[a]
       /\ SumFunction(x[from]) = SumFunction(expirations[from]) + delta
  <2>1. m + delta \in Nat
    BY <1>10
  <2>2. /\ x \in [Account -> [Date -> Nat]] /\ \A a \in Account \ {from} : x[a] = expirations[a]
        /\ SumFunction(x[from]) = SumFunction(expirations[from]) + ((m + delta) - expirations[from][d])
    <3>1. EntrySound(Date, expirations, from, d, m + delta, x)
      BY <1>7, <1>11, <2>1, EntryIs
    <3>2. QED  BY <3>1 DEF EntrySound
  <2>3. QED  BY <1>8, <1>10, <2>2
<1>14. /\ e \in [Account -> [Account -> Nat]] /\ \A a \in Account \ {from} : e[a] = delegations[a]
       /\ SumFunction(delegations[from]) \in Nat
       /\ SumFunction(e[from]) = SumFunction(delegations[from]) - delta
  <2>1. EntrySound(Account, delegations, from, to, n, e)
    BY <1>2, <1>5, EntryIs
  <2>2. /\ e \in [Account -> [Account -> Nat]] /\ \A a \in Account \ {from} : e[a] = delegations[a]
        /\ SumFunction(delegations[from]) \in Nat
        /\ SumFunction(e[from]) = SumFunction(delegations[from]) + (n - delegations[from][to])
    BY <2>1 DEF EntrySound
  <2>3. QED  BY <1>3, <1>4, <2>2
<1>15. /\ \A z \in Account \ {to} : Column(e, z) = Column(delegations, z)
       /\ SumFunction(Column(delegations, to)) \in Nat /\ old <= SumFunction(Column(delegations, to))
       /\ SumFunction(Column(e, to)) = SumFunction(Column(delegations, to)) - delta
  <2>1. /\ \A z \in Account \ {to} : Column(e, z) = Column(delegations, z)
        /\ SumFunction(Column(delegations, to)) \in Nat /\ delegations[from][to] <= SumFunction(Column(delegations, to))
        /\ SumFunction(Column(e, to)) = SumFunction(Column(delegations, to)) + (n - delegations[from][to])
    <3>1. ColumnSound(delegations, from, to, n, e)
      BY <1>2, <1>5, ColumnIs
    <3>2. QED  BY <3>1 DEF ColumnSound
  <2>2. QED  BY <1>3, <1>4, <2>1
<1>16. \A a \in Account : /\ delegated[a] = SumFunction(delegations[a]) + SumFunction(expirations[a])
                          /\ received[a] = SumFunction(Column(delegations, a))
  BY <1>1 DEF SharesInv, DelegationsCounted, Column
<1>17. PICK rr : rr = [received EXCEPT ![to] = @ - delta]
  OBVIOUS
<1>18. rr \in [Account -> Nat] /\ rr[to] = received[to] - delta /\ \A a \in Account \ {to} : rr[a] = received[a]
  <2>1. received[to] - delta \in Nat
    BY <1>2, <1>10, <1>15, <1>16
  <2>2. QED  BY <1>2, <1>17, <2>1
<1>19. \A a \in Account : /\ delegated[a] = SumFunction(e[a]) + SumFunction(x[a])
                          /\ rr[a] = SumFunction(Column(e, a))
  <2>1. SUFFICES ASSUME NEW a \in Account
                 PROVE  delegated[a] = SumFunction(e[a]) + SumFunction(x[a]) /\ rr[a] = SumFunction(Column(e, a))
    OBVIOUS
  <2>2. delegated[a] = SumFunction(e[a]) + SumFunction(x[a])
    <3>1. CASE a = from
      <4>1. SumFunction(expirations[from]) \in Nat
        BY <1>7
      <4>2. QED  BY <1>10, <1>13, <1>14, <1>16, <3>1, <4>1
    <3>2. CASE a # from
      BY <1>13, <1>14, <1>16, <3>2
    <3>3. QED  BY <3>1, <3>2
  <2>3. rr[a] = SumFunction(Column(e, a))
    <3>1. CASE a = to
      BY <1>10, <1>15, <1>16, <1>18, <3>1
    <3>2. CASE a # to
      BY <1>15, <1>16, <1>18, <3>2
    <3>3. QED  BY <3>1, <3>2
  <2>4. QED  BY <2>2, <2>3
<1>20. /\ vesting' = vesting /\ power_down' = power_down /\ expirations' = x /\ fund' = fund /\ shares' = shares
       /\ delegated' = delegated /\ received' = rr /\ delegations' = e
  BY <1>9, <1>12, <1>17 DEF voteVars
<1>21. DelegationsBacked' /\ delegated[NullAccount]' = 0
  BY <1>1, <1>20 DEF SharesInv, DelegationsBacked
<1>22. DelegationsCounted'
  BY <1>19, <1>20 DEF DelegationsCounted, Column
<1>23. TypeOK'
  BY <1>1, <1>9, <1>13, <1>14, <1>18, <1>20 DEF TypeOK, VotesTypeOK, voteVars
<1>24. /\ VotesInv' /\ SharesConserved' /\ (shares > 0 => fund > 0)' /\ WithdrawalsExact' /\ InInstalments' /\ RoutesInv'
       /\ power_down[NullAccount].rate' = 0
  <2>1. UNCHANGED <<voteVars, balance, fund, supply, power_down, routes, withdraw_routes>>
    BY <1>9
  <2>2. QED  BY <1>1, <2>1, DelegationsStay
<1>25. QED  BY <1>20, <1>21, <1>22, <1>23, <1>24 DEF SharesInv

(* clear_expired_delegations() *)
LEMMA ExpiryStep ==
  ASSUME TypeOK, DelegationsCounted, NEW t \in Nat, clear_expired_delegations(t), delegations' = delegations,
         received' = received
  PROVE  /\ delegated' \in [Account -> Nat] /\ expirations' \in [Account -> [Date -> Nat]]
         /\ \A a \in Account : delegated'[a] <= delegated[a]
         /\ DelegationsCounted'
<1>1. /\ IsFiniteSet(Date) /\ expirations \in [Account -> [Date -> Nat]]
      /\ \A a \in Account : SumFunction(expirations[a]) \in Nat
  BY DatesAre
<1>2. PICK R : R = {d \in Date : d < t}
  OBVIOUS
<1>3. R \in SUBSET Date
  BY <1>2
<1>4. PICK x : x = [a \in Account |-> [d \in Date |-> IF d < t THEN 0 ELSE expirations[a][d]]]
  OBVIOUS
<1>5. PICK dd : dd = [a \in Account |-> delegated[a] - Returned(t, a)]
  OBVIOUS
<1>6. delegated' = dd /\ expirations' = x
  BY <1>4, <1>5 DEF clear_expired_delegations
<1>7. x \in [Account -> [Date -> Nat]]
  BY <1>1, <1>4
<1>8. delegations \in [Account -> [Account -> Nat]] /\ delegated \in [Account -> Nat] /\ IsFiniteSet(Account)
  BY VoterAssumption DEF TypeOK
<1>9. ASSUME NEW a \in Account
      PROVE  dd[a] \in Nat /\ dd[a] <= delegated[a] /\ dd[a] = SumFunction(delegations[a]) + SumFunction(x[a])
  <2>1. PICK f : f = expirations[a]
    OBVIOUS
  <2>2. PICK g : g = x[a]
    OBVIOUS
  <2>3. f \in [Date -> Nat] /\ g \in [Date -> Nat]
    BY <1>1, <1>7, <2>1, <2>2
  <2>4. (\A d \in R : g[d] = 0) /\ \A d \in Date \ R : g[d] = f[d]
    BY <1>2, <1>4, <2>1, <2>2
  <2>5. \A d \in Date : f[d] \in Int /\ g[d] \in Int /\ f[d] >= 0 /\ g[d] >= 0
    BY <2>3
  <2>6. /\ IsFiniteSet(Date \ R) /\ SumFunctionOnSet(f, R) \in Int /\ SumFunctionOnSet(f, Date) \in Int
        /\ SumFunctionOnSet(f, Date \ R) = SumFunctionOnSet(f, Date) - SumFunctionOnSet(f, R)
    BY <1>1, <1>3, <2>5, SumMinus
  <2>7. /\ SumFunctionOnSet(g, Date) \in Int /\ SumFunctionOnSet(g, R) \in Int
        /\ SumFunctionOnSet(g, Date \ R) = SumFunctionOnSet(g, Date) - SumFunctionOnSet(g, R)
    BY <1>1, <1>3, <2>5, SumMinus
  <2>8. IsFiniteSet(R)
    BY <1>1, <1>3, FS_Subset
  <2>9. SumFunctionOnSet(g, R) = 0 /\ SumFunctionOnSet(f, R) >= 0
    <3>1. \A d \in R : g[d] \in Int /\ f[d] \in Int /\ f[d] >= 0
      BY <1>3, <2>5
    <3>2. QED  BY <2>4, <2>8, <3>1, SumType
  <2>10. SumFunctionOnSet(g, Date \ R) = SumFunctionOnSet(f, Date \ R)
    BY <2>4, <2>6, SumSame
  <2>11. SumFunctionOnSet(g, Date) >= 0
    BY <1>1, <2>5, SumType
  <2>12. SumFunction(f) = SumFunctionOnSet(f, Date) /\ SumFunction(g) = SumFunctionOnSet(g, Date)
    BY <2>3 DEF SumFunction
  <2>13. Returned(t, a) = SumFunctionOnSet(f, R)
    BY <1>2, <2>1 DEF Returned
  <2>14. PICK h : h = delegations[a]
    OBVIOUS
  <2>15. SumFunction(h) \in Nat
    <3>1. h \in [Account -> Nat]
      BY <1>8, <2>14
    <3>2. \A b \in Account : h[b] \in Int /\ h[b] >= 0
      BY <3>1
    <3>3. SumFunctionOnSet(h, Account) \in Int /\ SumFunctionOnSet(h, Account) >= 0
      BY <1>8, <3>2, SumType
    <3>4. SumFunction(h) = SumFunctionOnSet(h, Account)
      BY <3>1 DEF SumFunction
    <3>5. QED  BY <3>3, <3>4
  <2>16. delegated[a] = SumFunction(h) + SumFunction(f) /\ delegated[a] \in Nat
    BY <1>8, <2>1, <2>14 DEF DelegationsCounted
  <2>17. dd[a] = delegated[a] - SumFunctionOnSet(f, R)
    BY <1>5, <2>13
  <2>18. dd[a] = SumFunction(h) + SumFunction(g)
    BY <2>6, <2>7, <2>9, <2>10, <2>12, <2>15, <2>16, <2>17
  <2>19. dd[a] \in Nat /\ dd[a] <= delegated[a]
    BY <2>6, <2>7, <2>9, <2>11, <2>12, <2>15, <2>16, <2>17, <2>18
  <2>20. QED  BY <2>2, <2>14, <2>18, <2>19
<1>10. dd \in [Account -> Nat]
  BY <1>5, <1>9
<1>11. DelegationsCounted'
  BY <1>6, <1>9 DEF DelegationsCounted
<1>12. QED  BY <1>6, <1>7, <1>9, <1>10, <1>11

(* process_decline_voting_rights() *)
LEMMA RequestsStep ==
  ASSUME VotesTypeOK, VotesInv, NEW t \in Nat, NEW v \in [Account -> Nat], NEW counted \in IntTally,
         Tallied(proxy, v, votes, counted), process_decline_voting_rights(t, v, counted), vesting' = v,
         shares' \in Nat
  PROVE  VotesTypeOK' /\ VotesInv'
<1>1. /\ proxy \in Proxies /\ votes \in Cast /\ IsFiniteSet(votes) /\ v \in Stakes
  BY VotesTypes DEF Stakes
<1>2. Acyclic(proxy) /\ ProxiesSilent(proxy, votes) /\ Rights
  BY DEF VotesInv
<1>3. PICK due : due = DueDeclines(t)
  OBVIOUS
<1>4. due \in SUBSET (Nat \X Account) /\ IsFiniteSet(due) /\ due \in SUBSET declines
  <2>1. due \in SUBSET declines
    BY <1>3 DEF DueDeclines
  <2>2. IsFiniteSet(due)
    BY <1>2, <2>1, FS_Subset DEF Rights
  <2>3. QED  BY <2>1, <2>2 DEF VotesTypeOK
<1>5. PICK start : start = [proxy |-> proxy, tally |-> counted, votes |-> votes]
  OBVIOUS
<1>6. start \in Book /\ start.proxy = proxy /\ start.tally = counted /\ start.votes = votes
  BY <1>1, <1>5 DEF Book
<1>7. PICK book : book = DeclinedAll(v, start, due)[due]
  OBVIOUS
<1>8. book \in Book /\ DeclinedSound(v, start, due, book)
  BY <1>1, <1>2, <1>4, <1>6, <1>7, DeclinedGood
<1>9. /\ proxy' = book.proxy /\ tally' = book.tally /\ votes' = book.votes
      /\ voted_for' = [a \in Account |-> IF a \in Gone(due) THEN 0 ELSE voted_for[a]]
      /\ can_vote' = [a \in Account |-> can_vote[a] /\ a \notin Gone(due)]
      /\ declines' = declines \ due
  BY <1>3, <1>5, <1>7 DEF process_decline_voting_rights, Gone
<1>10. book.proxy \in Proxies /\ book.tally \in IntTally /\ book.votes \in Cast
  BY <1>8 DEF Book
<1>11. /\ Tallied(book.proxy, v, book.votes, book.tally) /\ Acyclic(book.proxy)
       /\ \A a \in Account : book.proxy[a] = IF a \in Gone(due) THEN NoProxy ELSE proxy[a]
       /\ book.votes = {x \in votes : x[1] \notin Gone(due)}
  BY <1>6, <1>8 DEF DeclinedSound
<1>12. ProxiesSilent(book.proxy, book.votes)
  BY <1>2, <1>11 DEF ProxiesSilent
<1>13. book.tally \in Tally
  BY <1>10, <1>11, TallyNat
<1>14. voted_for \in [Account -> 0..MaxVotes] /\ can_vote \in [Account -> BOOLEAN] /\ declines \subseteq Nat \X Account
  BY DEF VotesTypeOK
<1>15. /\ voted_for' \in [Account -> 0..MaxVotes] /\ can_vote' \in [Account -> BOOLEAN]
       /\ declines' \subseteq Nat \X Account
  <2>1. 0 \in 0..MaxVotes
    BY LimitAssumption
  <2>2. QED  BY <1>9, <1>14, <2>1
<1>16. VotesTypeOK'
  BY <1>9, <1>10, <1>13, <1>15 DEF VotesTypeOK, Proxies, Cast
<1>17. ASSUME NEW a \in Account
       PROVE  /\ voted_for'[a] = Cardinality({x \in book.votes : x[1] = a})
              /\ ~can_vote'[a] => voted_for'[a] = 0 /\ book.proxy[a] = NoProxy
  <2>1. CASE a \in Gone(due)
    <3>1. {x \in book.votes : x[1] = a} = {}
      BY <1>11, <2>1
    <3>2. voted_for'[a] = 0 /\ book.proxy[a] = NoProxy
      BY <1>9, <1>11, <2>1
    <3>3. QED  BY <3>1, <3>2, FS_EmptySet
  <2>2. CASE a \notin Gone(due)
    <3>1. {x \in book.votes : x[1] = a} = {x \in votes : x[1] = a}
      BY <1>11, <2>2
    <3>2. voted_for'[a] = voted_for[a] /\ book.proxy[a] = proxy[a] /\ (can_vote'[a] <=> can_vote[a])
      BY <1>9, <1>11, <1>14, <2>2
    <3>3. QED  BY <1>2, <3>1, <3>2 DEF Rights
  <2>3. QED  BY <2>1, <2>2
<1>18. book.proxy[NullAccount] = NoProxy /\ \A w \in Witness : <<NullAccount, w>> \notin book.votes
  <2>1. NullAccount \in Account
    BY NullAssumption
  <2>2. QED  BY <1>2, <1>11, <2>1 DEF Rights
<1>19. IsFiniteSet(declines') /\ \A r \in declines' : r[2] # NullAccount
  <2>1. declines \ due \in SUBSET declines
    OBVIOUS
  <2>2. IsFiniteSet(declines \ due)
    BY <1>2, <2>1, FS_Subset DEF Rights
  <2>3. QED  BY <1>2, <1>9, <2>2 DEF Rights
<1>20. Rights'
  BY <1>9, <1>17, <1>18, <1>19 DEF Rights
<1>21. VotesInv'
  BY <1>9, <1>11, <1>12, <1>20 DEF VotesInv
<1>22. QED  BY <1>16, <1>21

(* What a block makes of the stakes. *)
SettlementSound(t, st) ==
  /\ Good(st, 0, 0) /\ \A x \in Account : Promised(st, x)
  /\ \A x \in Account : Exact(st.power_down[x], t) /\ Whole(st.power_down[x])
  /\ st.power_down[NullAccount].rate = 0
  /\ shares > vesting[NullAccount] => st.fund * shares >= fund * st.shares

(* The settlement of a block in a state of the invariant. *)
LEMMA SettlementGood ==
  ASSUME IInv, now < MaxTime, NEW producer \in Witness, NEW r \in Nat \X Nat,
         NEW st, st = Settlement(now + 1, producer, r)
  PROVE  st \in State /\ SettlementSound(now + 1, st)
<1>1. /\ Current \in State /\ Good(Current, 0, 0) /\ \A x \in Account : Promised(Current, x)
      /\ Current.vesting = vesting /\ Current.balance = balance /\ Current.fund = fund /\ Current.shares = shares
      /\ Current.supply = supply /\ Current.tally = tally /\ Current.power_down = power_down
  BY CurrentGood
<1>2. VotesTypeOK /\ TypeOK /\ proxy \in Proxies /\ SharesInv /\ Rights
  BY VotesTypes DEF IInv, TypeOK, VotesInv
<1>3. /\ vesting \in [Account -> Nat] /\ delegated \in [Account -> Nat] /\ power_down \in [Account -> PowerDown]
      /\ shares \in Nat /\ fund \in Nat /\ routes \subseteq Route /\ RoutesInv /\ now \in 0..MaxTime
  BY <1>2 DEF TypeOK, VotesTypeOK, SharesInv
<1>4. NullAccount \in Account /\ producer \in Account /\ MaxTime \in Nat /\ Never \in Nat /\ Never > MaxTime
  BY NullAssumption, VoterAssumption, TimeAssumption
<1>5. PICK t \in Nat : t = now + 1
  BY <1>3, <1>4
<1>6. t <= MaxTime /\ now \in Nat
  BY <1>3, <1>4, <1>5
<1>7. PICK c0 : c0 = NullCleared(Current)
  OBVIOUS
<1>8. /\ c0 \in State /\ Good(c0, 0, 0) /\ c0.power_down = power_down
      /\ \A x \in Account \ {NullAccount} : c0.vesting[x] = vesting[x]
      /\ c0.vesting[NullAccount] = 0 /\ c0.shares = shares - vesting[NullAccount]
      /\ c0.fund * shares >= fund * c0.shares
  <2>1. proxy[NullAccount] = NoProxy /\ Silent(votes, NullAccount)
    BY <1>2 DEF Rights, Silent
  <2>2. /\ c0 \in State /\ Good(c0, 0, 0) /\ c0.power_down = Current.power_down
        /\ \A x \in Account \ {NullAccount} : c0.vesting[x] = Current.vesting[x]
        /\ c0.vesting[NullAccount] = 0 /\ c0.shares = Current.shares - Current.vesting[NullAccount]
        /\ c0.fund * Current.shares >= Current.fund * c0.shares
    BY <1>1, <1>2, <1>7, <2>1, NullGood
  <2>3. QED  BY <1>1, <2>2
<1>9. PICK c1 : c1 = Funded(c0, producer, r)
  OBVIOUS
<1>10. /\ c1 \in State /\ Good(c1, 0, 0) /\ c1.power_down = c0.power_down
       /\ \A x \in Account : c1.vesting[x] >= c0.vesting[x]
       /\ c0.shares > 0 => c1.fund * c0.shares >= c0.fund * c1.shares
  BY <1>2, <1>4, <1>8, <1>9, FundedGood
<1>11. /\ c0.vesting \in [Account -> Nat] /\ c1.vesting \in [Account -> Nat] /\ c0.fund \in Nat /\ c0.shares \in Nat
       /\ c1.fund \in Nat /\ c1.shares \in Nat
  BY <1>8, <1>10 DEF State
<1>12. \A x \in Account : Exact(power_down[x], now) /\ Whole(power_down[x])
  BY <1>2 DEF SharesInv, WithdrawalsExact, InInstalments, Exact, Whole
<1>13. delegated[NullAccount] = 0 /\ power_down[NullAccount].rate = 0
  BY <1>2 DEF SharesInv
<1>14. \A x \in Account : Promised(c1, x)
  <2>1. SUFFICES ASSUME NEW x \in Account PROVE Promised(c1, x)
    OBVIOUS
  <2>2. /\ delegated[x] \in Nat /\ power_down[x].to_withdraw \in Nat /\ power_down[x].withdrawn \in Nat
        /\ vesting[x] \in Nat /\ c0.vesting[x] \in Nat /\ c1.vesting[x] \in Nat /\ c1.vesting[x] >= c0.vesting[x]
        /\ c1.power_down[x] = power_down[x]
    BY <1>3, <1>8, <1>10, <1>11 DEF PowerDown
  <2>3. CASE x = NullAccount
    <3>1. power_down[x].withdrawn = power_down[x].to_withdraw
      BY <1>12, <1>13, <2>3 DEF Exact
    <3>2. QED  BY <1>13, <2>2, <2>3, <3>1 DEF Promised
  <2>4. CASE x # NullAccount
    <3>1. delegated[x] + (power_down[x].to_withdraw - power_down[x].withdrawn) <= vesting[x]
      BY <1>1 DEF Promised
    <3>2. c0.vesting[x] = vesting[x]
      BY <1>8, <2>4
    <3>3. QED  BY <2>2, <3>1, <3>2 DEF Promised
  <2>5. QED  BY <2>3, <2>4
<1>15. PICK due : due = Due(t)
  OBVIOUS
<1>16. due \in SUBSET Account /\ \A x \in Account : x \in due <=> power_down[x].next <= t
  BY <1>15 DEF Due
<1>17. \A x \in due : Ready(c1, x, t)
  <2>1. SUFFICES ASSUME NEW x \in due PROVE Ready(c1, x, t)
    OBVIOUS
  <2>2. x \in Account /\ power_down[x].next <= t /\ power_down[x].next \in Nat /\ c1.power_down[x] = power_down[x]
    BY <1>3, <1>8, <1>10, <1>16 DEF PowerDown
  <2>3. power_down[x].rate # 0
    BY <1>4, <1>6, <1>12, <2>2 DEF Exact
  <2>4. power_down[x].withdrawn < power_down[x].to_withdraw /\ now < power_down[x].next
    BY <1>12, <2>2, <2>3 DEF Exact
  <2>5. power_down[x].next = t
    BY <1>5, <1>6, <2>2, <2>4
  <2>6. QED  BY <1>12, <1>14, <2>2, <2>3, <2>4, <2>5 DEF Ready
<1>18. st = Withdrawals(c1, due)[due]
  BY <1>5, <1>7, <1>9, <1>15 DEF Settlement
<1>19. st \in State /\ WithdrawalsSound(c1, t, due, st)
  BY <1>2, <1>3, <1>10, <1>14, <1>16, <1>17, <1>18, WithdrawalsGood
<1>20. \A x \in Account : Exact(st.power_down[x], t) /\ Whole(st.power_down[x])
  <2>1. SUFFICES ASSUME NEW x \in Account PROVE Exact(st.power_down[x], t) /\ Whole(st.power_down[x])
    OBVIOUS
  <2>2. CASE x \in due
    BY <1>19, <2>2 DEF WithdrawalsSound
  <2>3. CASE x \notin due
    <3>1. st.power_down[x] = power_down[x]
      BY <1>8, <1>10, <1>19, <2>3 DEF WithdrawalsSound
    <3>2. power_down[x].next \in Nat /\ t < power_down[x].next
      BY <1>3, <1>16, <2>3 DEF PowerDown
    <3>3. QED  BY <1>12, <3>1, <3>2 DEF Exact
  <2>4. QED  BY <2>2, <2>3
<1>21. st.power_down[NullAccount].rate = 0
  <2>1. NullAccount \notin due
    <3>1. power_down[NullAccount].next = Never
      BY <1>4, <1>12, <1>13 DEF Exact
    <3>2. QED  BY <1>4, <1>6, <1>16, <3>1
  <2>2. QED  BY <1>4, <1>8, <1>10, <1>13, <1>19, <2>1 DEF WithdrawalsSound
<1>22. ASSUME shares > vesting[NullAccount] PROVE st.fund * shares >= fund * st.shares
  <2>1. c0.shares > 0
    BY <1>3, <1>4, <1>8, <1>22
  <2>2. c1.fund * shares >= fund * c1.shares
    <3>1. c1.fund * c0.shares >= c0.fund * c1.shares /\ (c0.shares = 0 => c1.shares = 0)
      BY <1>10, <1>11, <2>1
    <3>2. QED  BY <1>3, <1>8, <1>11, <3>1, ValueChain
  <2>3. st.fund \in Nat /\ st.shares \in Nat
    BY <1>19 DEF State
  <2>4. st.shares <= c1.shares /\ st.fund * c1.shares >= c1.fund * st.shares
    BY <1>19 DEF WithdrawalsSound
  <2>5. c1.shares = 0 => st.shares = 0
    BY <1>11, <2>3, <2>4
  <2>6. QED  BY <1>3, <1>11, <2>2, <2>3, <2>4, <2>5, ValueChain
<1>23. Good(st, 0, 0) /\ \A x \in Account : Promised(st, x)
  BY <1>19 DEF WithdrawalsSound
<1>24. QED  BY <1>5, <1>19, <1>20, <1>21, <1>22, <1>23 DEF SettlementSound

(* A block. *)
LEMMA BlockStep ==
  ASSUME IInv, NEW producer \in Witness, NEW r \in Nat \X Nat, NextBlock(producer, r)
  PROVE  /\ TypeOK' /\ SharesInv' /\ VotesInv'
         /\ shares > vesting[NullAccount] => fund' * shares >= fund * shares'
<1>1. PICK st : st = Settlement(now + 1, producer, r)
  OBVIOUS
<1>2. /\ now < MaxTime /\ now' = now + 1 /\ Becomes(st) /\ clear_expired_delegations(now + 1)
      /\ process_decline_voting_rights(now + 1, st.vesting, st.tally)
      /\ routes' = routes /\ withdraw_routes' = withdraw_routes /\ received' = received /\ delegations' = delegations
  BY <1>1 DEF NextBlock
<1>3. st \in State /\ SettlementSound(now + 1, st)
  BY <1>1, <1>2, SettlementGood
<1>4. /\ Good(st, 0, 0) /\ \A x \in Account : Promised(st, x)
      /\ \A x \in Account : Exact(st.power_down[x], now + 1) /\ Whole(st.power_down[x])
      /\ st.power_down[NullAccount].rate = 0
      /\ shares > vesting[NullAccount] => st.fund * shares >= fund * st.shares
  BY <1>3 DEF SettlementSound
<1>5. /\ SharesConserved' /\ (shares > 0 => fund > 0)'
      /\ vesting' \in [Account -> Nat] /\ balance' \in [Account -> Nat] /\ fund' \in Nat /\ shares' \in Nat
      /\ supply' \in Nat /\ power_down' \in [Account -> PowerDown]
  BY <1>2, <1>3, <1>4, TotalsHold
<1>6. vesting' = st.vesting /\ fund' = st.fund /\ shares' = st.shares /\ power_down' = st.power_down
  BY <1>2 DEF Becomes
<1>7. TypeOK /\ VotesTypeOK /\ SharesInv /\ VotesInv /\ DelegationsCounted
  BY DEF IInv, TypeOK, SharesInv
<1>8. now \in 0..MaxTime /\ MaxTime \in Nat /\ delegated \in [Account -> Nat]
  BY <1>7, TimeAssumption DEF TypeOK
<1>9. now + 1 \in Nat /\ now' \in 0..MaxTime
  BY <1>2, <1>8
<1>10. /\ delegated' \in [Account -> Nat] /\ expirations' \in [Account -> [Date -> Nat]]
       /\ \A a \in Account : delegated'[a] <= delegated[a]
       /\ DelegationsCounted'
  BY <1>2, <1>7, <1>9, ExpiryStep
<1>11. VotesTypeOK' /\ VotesInv'
  <2>1. st.vesting \in [Account -> Nat] /\ st.tally \in IntTally
    BY <1>3 DEF State
  <2>2. Tallied(proxy, st.vesting, votes, st.tally)
    BY <1>4 DEF Good
  <2>3. QED  BY <1>2, <1>5, <1>6, <1>7, <1>9, <2>1, <2>2, RequestsStep
<1>12. TypeOK'
  BY <1>2, <1>5, <1>7, <1>9, <1>10, <1>11 DEF TypeOK
<1>13. DelegationsBacked'
  <2>1. SUFFICES ASSUME NEW x \in Account
                 PROVE  delegated'[x] + (power_down'[x].to_withdraw - power_down'[x].withdrawn) <= vesting'[x]
    BY DEF DelegationsBacked
  <2>2. delegated[x] + (power_down'[x].to_withdraw - power_down'[x].withdrawn) <= vesting'[x]
    BY <1>4, <1>6 DEF Promised
  <2>3. /\ delegated[x] \in Nat /\ delegated'[x] \in Nat /\ delegated'[x] <= delegated[x] /\ vesting'[x] \in Nat
        /\ power_down'[x].to_withdraw \in Nat /\ power_down'[x].withdrawn \in Nat
    BY <1>5, <1>8, <1>10 DEF PowerDown
  <2>4. QED  BY <2>2, <2>3
<1>14. WithdrawalsExact' /\ InInstalments'
  BY <1>2, <1>4, <1>6 DEF WithdrawalsExact, InInstalments, Exact, Whole
<1>15. RoutesInv'
  BY <1>2, <1>7 DEF SharesInv, RoutesInv, RoutesOf
<1>16. delegated[NullAccount]' = 0 /\ power_down[NullAccount].rate' = 0
  <2>1. NullAccount \in Account /\ delegated[NullAccount] = 0
    BY <1>7, NullAssumption DEF SharesInv
  <2>2. delegated'[NullAccount] \in Nat /\ delegated'[NullAccount] <= delegated[NullAccount]
    BY <1>10, <2>1
  <2>3. QED  BY <1>4, <1>6, <2>1, <2>2
<1>17. SharesInv'
  BY <1>5, <1>10, <1>13, <1>14, <1>15, <1>16 DEF SharesInv
<1>18. QED  BY <1>4, <1>6, <1>11, <1>12, <1>17

(* Without proxies and votes every tally is empty. *)
LEMMA TalliedFirst ==
  ASSUME NEW prox, prox = [a \in Account |-> NoProxy], NEW v \in Stakes, NEW t,
         t = [proxied |-> [a \in Account |-> [i \in 0..(Depth - 1) |-> 0]], votes |-> [w \in Witness |-> 0]]
  PROVE  prox \in Proxies /\ Acyclic(prox) /\ Tallied(prox, v, {}, t)
<1>1. prox \in Proxies /\ \A a \in Account : prox[a] = NoProxy
  BY DEF Proxies
<1>2. Acyclic(prox)
  BY <1>1, VoterAssumption DEF Acyclic
<1>3. ASSUME NEW x \in Account, NEW k \in 0..(Depth - 1) PROVE t.proxied[x][k] = Below(prox, v, x, k + 1)
  <2>1. {b \in Account : Hops(prox, b)[k + 1] = x} = {}
    <3>1. SUFFICES ASSUME NEW b \in Account, Hops(prox, b)[k + 1] = x PROVE FALSE
      OBVIOUS
    <3>2. k + 1 \in Hop /\ 1 \in 0..(k + 1) /\ 0 \in 0..Depth /\ 0 + 1 = 1
      BY DepthAssumption DEF Hop
    <3>3. Hops(prox, b)[0] = b /\ b # NoProxy /\ x # NoProxy
      BY <1>1, HopsAre, VoterAssumption
    <3>4. Hops(prox, b)[0 + 1] = IF Hops(prox, b)[0] = NoProxy THEN NoProxy ELSE prox[Hops(prox, b)[0]]
      BY <1>1, <3>2, HopsAre
    <3>5. Hops(prox, b)[1] = NoProxy
      BY <1>1, <3>2, <3>3, <3>4
    <3>6. QED  BY <1>1, <3>1, <3>2, <3>3, <3>5, HopsEnd
  <2>2. Below(prox, v, x, k + 1) = 0
    BY <2>1, SumEmpty DEF Below
  <2>3. QED  BY <2>2
<1>4. ASSUME NEW w \in Witness
      PROVE  t.votes[w] = SumFunctionOnSet([x \in Account |-> witness_vote_weight(v, t, x)], Voters(prox, {}, w))
  <2>1. Voters(prox, {}, w) = {}
    BY DEF Voters
  <2>2. PICK f : f = [x \in Account |-> witness_vote_weight(v, t, x)]
    OBVIOUS
  <2>3. SumFunctionOnSet(f, {}) = 0
    BY SumEmpty
  <2>4. QED  BY <2>1, <2>2, <2>3
<1>5. QED  BY <1>1, <1>2, <1>3, <1>4 DEF Tallied

(* A sum of nothing. *)
LEMMA SumNothing ==
  ASSUME NEW S, IsFiniteSet(S), NEW f, f = [x \in S |-> 0]
  PROVE  SumFunction(f) = 0
<1>1. \A x \in S : f[x] \in Int /\ f[x] = 0
  OBVIOUS
<1>2. SumFunctionOnSet(f, S) = 0
  BY <1>1, SumType
<1>3. QED  BY <1>2 DEF SumFunction

(* The first states. *)
LEMMA First ==
  ASSUME Init
  PROVE  IInv
<1>1. /\ use \in Uses /\ vesting = use.stake /\ shares = SumFunctionOnSet(use.stake, Account)
      /\ proxy = [a \in Account |-> NoProxy]
      /\ tally = [proxied |-> [a \in Account |-> [i \in 0..(Depth - 1) |-> 0]], votes |-> [w \in Witness |-> 0]]
      /\ votes = {} /\ voted_for = [a \in Account |-> 0] /\ can_vote = [a \in Account |-> TRUE] /\ declines = {}
      /\ now = 0 /\ balance = use.balance /\ fund = shares /\ supply = fund + SumFunctionOnSet(balance, Account)
      /\ power_down = [a \in Account |-> [rate |-> 0, next |-> Never, to_withdraw |-> 0, withdrawn |-> 0]]
      /\ routes = {} /\ withdraw_routes = [a \in Account |-> 0]
      /\ delegated = [a \in Account |-> 0] /\ received = [a \in Account |-> 0]
      /\ delegations = [a \in Account |-> [b \in Account |-> 0]]
      /\ expirations = [a \in Account |-> [d \in Date |-> 0]]
  BY DEF Init, VotesInit
<1>2. use.stake \in [Account -> Nat] /\ use.balance \in [Account -> Nat]
  BY <1>1, UsesAssumption
<1>3. /\ IsFiniteSet(Account) /\ NullAccount \in Account /\ Never \in Nat /\ MaxTime \in Nat /\ ReturnPeriod \in Nat
      /\ MaxVotes \in Nat /\ Full \in Nat
  BY VoterAssumption, NullAssumption, TimeAssumption, LimitAssumption, WithdrawAssumption
<1>4. vesting \in [Account -> Nat] /\ balance \in [Account -> Nat] /\ vesting \in Stakes
  BY <1>1, <1>2 DEF Stakes
<1>5. SumFunctionOnSet(vesting, Account) \in Nat /\ SumFunctionOnSet(balance, Account) \in Nat
  <2>1. \A a \in Account : vesting[a] \in Nat /\ balance[a] \in Nat
    BY <1>4
  <2>2. QED  BY <1>3, <2>1, SumBounds
<1>6. shares \in Nat /\ fund \in Nat /\ supply \in Nat /\ SharesConserved
  BY <1>1, <1>5 DEF SharesConserved
<1>7. \A a \in Account : power_down[a] = [rate |-> 0, next |-> Never, to_withdraw |-> 0, withdrawn |-> 0]
  BY <1>1
<1>8. power_down \in [Account -> PowerDown]
  BY <1>1, <1>3 DEF PowerDown
<1>9. proxy \in Proxies /\ Acyclic(proxy) /\ Tallied(proxy, vesting, votes, tally)
  BY <1>1, <1>4, TalliedFirst
<1>10. tally \in Tally
  BY <1>1 DEF Tally
<1>11. VotesTypeOK
  <2>1. 0 \in 0..MaxVotes
    BY <1>3
  <2>2. QED  BY <1>1, <1>4, <1>6, <1>9, <1>10, <2>1 DEF VotesTypeOK, Proxies
<1>12. TypeOK
  <2>1. 0 \in 0..MaxTime
    BY <1>3
  <2>2. expirations \in [Account -> [Date -> Nat]] /\ delegations \in [Account -> [Account -> Nat]]
    BY <1>1
  <2>3. QED  BY <1>1, <1>4, <1>6, <1>8, <1>11, <2>1, <2>2 DEF TypeOK
<1>13. VotesInv
  <2>1. ProxiesSilent(proxy, votes)
    BY <1>1 DEF ProxiesSilent
  <2>2. Rights
    <3>1. \A a \in Account : {v \in votes : v[1] = a} = {}
      BY <1>1
    <3>2. QED  BY <1>1, <1>3, <3>1, FS_EmptySet DEF Rights
  <2>3. QED  BY <1>9, <2>1, <2>2 DEF VotesInv
<1>14. DelegationsBacked /\ WithdrawalsExact /\ InInstalments
  <2>1. \A a \in Account : /\ delegated[a] = 0 /\ power_down[a].rate = 0 /\ power_down[a].next = Never
                           /\ power_down[a].to_withdraw = 0 /\ power_down[a].withdrawn = 0
    BY <1>1, <1>7
  <2>2. \A a \in Account : vesting[a] \in Nat
    BY <1>4
  <2>3. QED  BY <2>1, <2>2 DEF DelegationsBacked, WithdrawalsExact, InInstalments
<1>15. DelegationsCounted
  <2>1. SUFFICES ASSUME NEW a \in Account
                 PROVE  /\ delegated[a] = SumFunction(delegations[a]) + SumFunction(expirations[a])
                        /\ received[a] = SumFunction([b \in Account |-> delegations[b][a]])
    BY DEF DelegationsCounted
  <2>2. delegations[a] = [b \in Account |-> 0] /\ expirations[a] = [d \in Date |-> 0]
    BY <1>1
  <2>3. [b \in Account |-> delegations[b][a]] = [b \in Account |-> 0]
    BY <1>1
  <2>4. IsFiniteSet(Date)
    <3>1. MaxTime + ReturnPeriod \in Int /\ 0 \in Int
      BY <1>3
    <3>2. QED  BY <3>1, FS_Interval DEF Date
  <2>5. SumFunction(delegations[a]) = 0 /\ SumFunction(expirations[a]) = 0
    BY <1>3, <2>2, <2>4, SumNothing
  <2>6. SumFunction([b \in Account |-> delegations[b][a]]) = 0
    BY <1>3, <2>3, SumNothing
  <2>7. QED  BY <1>1, <2>5, <2>6
<1>16. RoutesInv
  <2>1. IsFiniteSet(routes) /\ \A a \in Account : RoutesOf(routes, a) = {}
    BY <1>1, FS_EmptySet DEF RoutesOf
  <2>2. ASSUME NEW a \in Account
        PROVE  /\ SumFunction([r \in RoutesOf(routes, a) |-> r.percent]) <= Full
               /\ withdraw_routes[a] = Cardinality(RoutesOf(routes, a))
    <3>1. PICK f : f = [r \in RoutesOf(routes, a) |-> r.percent]
      OBVIOUS
    <3>2. DOMAIN f = {}
      BY <2>1, <3>1
    <3>3. SumFunction(f) = 0
      BY <3>2, SumEmpty DEF SumFunction
    <3>4. SumFunction([r \in RoutesOf(routes, a) |-> r.percent]) <= Full
      <4>1. SumFunction(f) <= Full
        BY <1>3, <3>3
      <4>2. QED  BY <3>1, <4>1
    <3>5. Cardinality(RoutesOf(routes, a)) = 0
      BY <2>1, FS_EmptySet
    <3>6. withdraw_routes[a] = 0
      BY <1>1
    <3>7. QED  BY <3>4, <3>5, <3>6
  <2>3. QED  BY <1>1, <2>1, <2>2 DEF RoutesInv
<1>17. SharesInv
  BY <1>1, <1>3, <1>6, <1>7, <1>14, <1>15, <1>16 DEF SharesInv
<1>18. QED  BY <1>1, <1>12, <1>13, <1>17 DEF IInv

(* Every step keeps the invariant and the value of a share. *)
LEMMA Step ==
  ASSUME IInv, [Next]_vars
  PROVE  IInv' /\ (shares > vesting[NullAccount] => fund' * shares >= fund * shares')
<1>1. TypeOK /\ VotesTypeOK /\ SharesInv /\ VotesInv /\ use \in Uses
  BY DEF IInv, TypeOK
<1>2. /\ use.signers \subseteq Account \ {NullAccount} /\ use.amounts \subseteq Nat \ {0}
      /\ use.rewards \subseteq Nat \X Nat
  BY <1>1, UsesAssumption
<1>3. /\ shares \in Nat /\ fund \in Nat /\ now \in Nat /\ fund * shares \in Nat
      /\ vesting[NullAccount] \in Nat
  <2>1. shares \in Nat /\ fund \in Nat /\ now \in 0..MaxTime /\ vesting \in [Account -> Nat]
    BY <1>1 DEF TypeOK, VotesTypeOK
  <2>2. NullAccount \in Account
    BY NullAssumption
  <2>3. QED  BY <2>1, <2>2
<1>4. ASSUME TypeOK', SharesInv', VotesInv', use' = use PROVE IInv'
  BY <1>1, <1>4 DEF IInv
<1>5. ASSUME fund' = fund, shares' = shares PROVE shares > vesting[NullAccount] => fund' * shares >= fund * shares'
  BY <1>3, <1>5
<1>6. ASSUME VotesTypeOK', VotesInv', vesting' = vesting, shares' = shares, now' = now, UNCHANGED <<stakeVars, use>>
      PROVE  IInv' /\ (shares > vesting[NullAccount] => fund' * shares >= fund * shares')
  <2>1. /\ balance' = balance /\ fund' = fund /\ supply' = supply /\ power_down' = power_down /\ routes' = routes
        /\ withdraw_routes' = withdraw_routes /\ delegated' = delegated /\ received' = received
        /\ delegations' = delegations /\ expirations' = expirations /\ use' = use
    BY <1>6 DEF stakeVars
  <2>2. TypeOK'
    BY <1>1, <1>6, <2>1 DEF TypeOK
  <2>3. SharesInv'
    BY <1>1, <1>6, SharesStay
  <2>4. QED  BY <1>4, <1>5, <1>6, <2>1, <2>2, <2>3
<1>7. CASE Voting
  <2>1. UNCHANGED <<stakeVars, use>>
    BY <1>7 DEF Voting
  <2>2. ASSUME NEW a \in use.signers, NEW p \in Account \cup {NoProxy}, account_witness_proxy(a, p)
        PROVE  VotesTypeOK' /\ VotesInv' /\ vesting' = vesting /\ shares' = shares /\ now' = now
    <3>1. a \in Account /\ a # NullAccount
      BY <1>2
    <3>2. VotesTypeOK' /\ VotesInv'
      BY <1>1, <2>2, <3>1, ProxyStep
    <3>3. QED  BY <2>2, <3>2 DEF account_witness_proxy
  <2>3. ASSUME NEW a \in use.signers, NEW w \in Witness, NEW approve \in BOOLEAN, account_witness_vote(a, w, approve)
        PROVE  VotesTypeOK' /\ VotesInv' /\ vesting' = vesting /\ shares' = shares /\ now' = now
    <3>1. a \in Account /\ a # NullAccount
      BY <1>2
    <3>2. VotesTypeOK' /\ VotesInv'
      BY <1>1, <2>3, <3>1, VoteStep
    <3>3. QED  BY <2>3, <3>2 DEF account_witness_vote
  <2>4. QED  BY <1>6, <1>7, <2>1, <2>2, <2>3 DEF Voting
<1>8. CASE Declining
  <2>1. PICK a \in use.signers, decline \in BOOLEAN : decline_voting_rights(a, decline)
    BY <1>8 DEF Declining
  <2>2. a \in Account /\ a # NullAccount /\ UNCHANGED <<stakeVars, use>>
    BY <1>2, <1>8 DEF Declining
  <2>3. VotesTypeOK' /\ VotesInv'
    BY <1>1, <1>3, <2>1, <2>2, DeclineStep
  <2>4. vesting' = vesting /\ shares' = shares /\ now' = now
    BY <2>1 DEF decline_voting_rights
  <2>5. QED  BY <1>6, <2>2, <2>3, <2>4
<1>9. CASE Vest
  <2>1. PICK from \in use.signers, to \in Account, n \in Amounts : transfer_to_vesting(from, to, n)
    BY <1>9 DEF Vest
  <2>2. from \in Account /\ n \in Nat /\ use' = use
    BY <1>2, <1>9, <2>1 DEF Vest, Amounts
  <2>3. /\ TypeOK' /\ SharesInv' /\ VotesInv'
        /\ shares > 0 => fund' * shares >= fund * shares'
    BY <2>1, <2>2, TransferStep
  <2>4. shares > vesting[NullAccount] => shares > 0
    BY <1>3
  <2>5. QED  BY <1>4, <2>2, <2>3, <2>4
<1>10. CASE Withdraw
  <2>1. PICK a \in use.signers, n \in Amounts : withdraw_vesting(a, n)
    BY <1>10 DEF Withdraw
  <2>2. a \in Account /\ a # NullAccount /\ n \in Nat /\ use' = use
    BY <1>2, <1>10, <2>1 DEF Withdraw, Amounts
  <2>3. TypeOK' /\ SharesInv' /\ VotesInv' /\ fund' = fund /\ shares' = shares
    BY <2>1, <2>2, WithdrawStep
  <2>4. QED  BY <1>4, <1>5, <2>2, <2>3
<1>11. CASE Routing
  <2>1. PICK from \in use.signers, to \in Account, percent \in 0..Full, auto \in BOOLEAN :
          set_withdraw_vesting_route(from, to, percent, auto)
    BY <1>11 DEF Routing
  <2>2. from \in Account /\ use' = use
    BY <1>2, <1>11, <2>1 DEF Routing
  <2>3. TypeOK' /\ SharesInv' /\ VotesInv' /\ fund' = fund /\ shares' = shares
    BY <2>1, <2>2, RouteStep
  <2>4. QED  BY <1>4, <1>5, <2>2, <2>3
<1>12. CASE Delegating
  <2>1. PICK from \in use.signers, to \in Account, n \in Amounts \cup {0} :
          delegate_more(from, to, n) \/ delegate_less(from, to, n)
    BY <1>12 DEF Delegating
  <2>2. from \in Account /\ from # NullAccount /\ n \in Nat /\ use' = use
    BY <1>2, <1>12, <2>1 DEF Delegating, Amounts
  <2>3. TypeOK' /\ SharesInv' /\ VotesInv' /\ fund' = fund /\ shares' = shares
    <3>1. CASE delegate_more(from, to, n)
      BY <2>1, <2>2, <3>1, MoreStep
    <3>2. CASE delegate_less(from, to, n)
      BY <2>1, <2>2, <3>2, LessStep
    <3>3. QED  BY <2>1, <3>1, <3>2
  <2>4. QED  BY <1>4, <1>5, <2>2, <2>3
<1>13. CASE Blocks
  <2>1. PICK producer \in Witness, r \in use.rewards : NextBlock(producer, r)
    BY <1>13 DEF Blocks
  <2>2. r \in Nat \X Nat /\ use' = use
    BY <1>2, <1>13, <2>1 DEF Blocks
  <2>3. /\ TypeOK' /\ SharesInv' /\ VotesInv'
        /\ shares > vesting[NullAccount] => fund' * shares >= fund * shares'
    BY <2>1, <2>2, BlockStep
  <2>4. QED  BY <1>4, <2>2, <2>3
<1>14. CASE UNCHANGED vars
  <2>1. UNCHANGED <<voteVars, stakeVars, use>>
    BY <1>14 DEF vars
  <2>2. /\ vesting' = vesting /\ shares' = shares /\ proxy' = proxy /\ tally' = tally /\ votes' = votes
        /\ voted_for' = voted_for /\ can_vote' = can_vote /\ declines' = declines /\ now' = now
    BY <2>1 DEF voteVars
  <2>3. VotesTypeOK' /\ VotesInv'
    BY <1>1, <2>2, VotesStay DEF VotesTypeOK
  <2>4. QED  BY <1>6, <2>1, <2>2, <2>3
<1>15. QED  BY <1>7, <1>8, <1>9, <1>10, <1>11, <1>12, <1>13, <1>14 DEF Next

(* The inductive invariant: what the shares, delegations, withdrawals and    *)
(* routes are, and that the tallies are those of the stakes and the proxies. *)
THEOREM Invariant == Spec => []IInv
<1>1. Init => IInv
  BY First
<1>2. IInv /\ [Next]_vars => IInv'
  BY Step
<1>3. QED  BY <1>1, <1>2, PTL DEF Spec

(* No share appears, disappears or is promised twice, whatever mixture of    *)
(* purchases, routed withdrawals, delegations, burned stakes and new GBC     *)
(* settles in the blocks (database.cpp:4731, gamebank_evaluator.cpp:970,     *)
(* 2158, 2230).                                                              *)
THEOREM SharesAlwaysSound == Spec => []SharesSound
<1>1. IInv => SharesSound
  BY DEF IInv, SharesInv, SharesSound
<1>2. QED  BY <1>1, Invariant, PTL

(* A withdrawal ends when exactly its amount has been paid out, and until    *)
(* then its next instalment is ahead (database.cpp:1630, 1701).              *)
THEOREM WithdrawalsAlwaysExact == Spec => []WithdrawalsExact
<1>1. IInv => WithdrawalsExact
  BY DEF IInv, SharesInv
<1>2. QED  BY <1>1, Invariant, PTL

(* The running tallies are what counting the votes would give, each share    *)
(* has one place in them, and proxies never run in a circle                  *)
(* (database.cpp:1377, 1431, 4764, gamebank_evaluator.cpp:1102).             *)
THEOREM VotesAlwaysSound == Spec => []VotesSound
<1>1. ASSUME IInv PROVE VotesSound
  <2>1. VotesTypeOK /\ VotesInv /\ SharesConserved
    BY <1>1 DEF IInv, TypeOK, SharesInv
  <2>2. Tallied(proxy, vesting, votes, tally) /\ Acyclic(proxy) /\ Rights
    BY <2>1 DEF VotesInv
  <2>3. proxy \in Proxies /\ vesting \in Stakes /\ tally \in IntTally
    BY <2>1, VotesTypes
  <2>4. VotesTallied
    <3>1. \A a \in Account, n \in 0..(Depth - 1) : tally.proxied[a][n] = StakeBelow(a, n)
      BY <2>2 DEF Tallied, Below, StakeBelow
    <3>2. \A w \in Witness :
            tally.votes[w] = SumFunctionOnSet([a \in Account |-> witness_vote_weight(vesting, tally, a)],
                                              {a \in Account : proxy[a] = NoProxy /\ <<a, w>> \in votes})
      BY <2>2 DEF Tallied, Voters
    <3>3. QED  BY <2>2, <3>1, <3>2 DEF VotesTallied, Rights
  <2>5. VotesAccounted
    <3>1. SumFunctionOnSet(vesting, Account) =
            SumFunction([a \in Account |-> IF proxy[a] = NoProxy THEN witness_vote_weight(vesting, tally, a)
                                           ELSE tally.proxied[a][Depth - 1]])
      BY <2>2, <2>3, AllAccounted
    <3>2. QED  BY <2>1, <3>1 DEF VotesAccounted, SharesConserved
  <2>6. NoProxyLoops
    BY <2>2 DEF Acyclic, NoProxyLoops
  <2>7. QED  BY <2>4, <2>5, <2>6 DEF VotesSound
<1>2. QED  BY <1>1, Invariant, PTL

(* The value of a share never falls while anyone but the null account holds  *)
(* one: all rounding of purchases, of withdrawals and of burned shares is in *)
(* favour of the fund (database.cpp:1308, 1520, 1684, 1695).                 *)
THEOREM SharesAlwaysKeepValue == Spec => SharesKeepValue
<1>1. IInv /\ [Next]_vars => [shares > vesting[NullAccount] => fund' * shares >= fund * shares']_vars
  BY Step
<1>2. QED  BY <1>1, Invariant, PTL DEF Spec, SharesKeepValue
=============================================================================
