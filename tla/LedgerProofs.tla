---------------------------- MODULE LedgerProofs ----------------------------
(***************************************************************************)
(* That the books of Ledger always balance, that no two orders of the      *)
(* market could still trade, and that all trades honour both limit prices, *)
(* for any number of accounts, amounts, orders, campaigns and blocks.      *)
(***************************************************************************)
EXTENDS Ledger, FiniteSetTheorems, NaturalsInduction, WellFoundedInduction, TLAPS

(* A store has finitely many elements of T. *)
Store(S, T) == S \subseteq T /\ IsFiniteSet(S)

convert_request == [owner : Account, requestid : RequestNo, amount : Holding, date : Nat]

SavingsInv ==
  /\ Store(withdraws, SavingsWithdraw) /\ requests \in [Account -> Int] /\ RequestsCounted

(* An account's escrows have ids of their own. *)
EscrowInv ==
  /\ Store(escrows, escrow_object) /\ RatificationEnforced
  /\ \A e, f \in escrows : e.from = f.from /\ e.escrow_id = f.escrow_id => e = f

(* Orders have numbers of their own and would sell for something. *)
OrdersInv ==
  /\ Store(orders, limit_order_object) /\ next_order \in Nat /\ BookNotCrossed
  /\ \A o \in orders : o.id < next_order /\ ~IsDust(o)
  /\ \A o, p \in orders : o.id = p.id => o = p

ConvertsInv == Store(converts, convert_request) /\ median \in Feed \cup {NoFeed}

(* The investments in a campaign, and what a set of them adds up to. *)
InvestedIn(c) == {i \in invests : Invested(i, c)}
RaisedBy(S) == SumFunction([i \in S |-> i.raise])

(* A campaign has a name of its own, and ends before it is settled; an       *)
(* investment belongs to a campaign and ends with it.  Either no campaign is *)
(* settled, and each has counted what is invested in it, or the first one    *)
(* is, and no other will be.                                                 *)
CampaignsKeyed ==
  /\ \A c, d \in campaigns : c.originator = d.originator /\ c.permlink = d.permlink => c = d
  /\ \A i \in invests : \E c \in campaigns : Invested(i, c) /\ i.expire = c.expire
  /\ \A c \in campaigns : c.finish # 0 => c.expire <= now

CampaignsCounted ==
  \/ \A c \in campaigns : c.finish = 0 /\ c.curator_raise_value = RaisedBy(InvestedIn(c))
  \/ \E c \in First : c.finish # 0

CrowdInv ==
  /\ Store(campaigns, crowdfunding_object) /\ Store(invests, crowdfunding_invest_object)
  /\ last_expire \in [Account -> Int] /\ CampaignsKeyed /\ CampaignsCounted

(* The inductive invariant. *)
IInv ==
  /\ use \in Uses /\ AccountsTypeOK /\ SavingsInv /\ EscrowInv /\ OrdersInv /\ ConvertsInv
  /\ CrowdInv /\ SupplyConserved /\ TradesHonourLimits

-----------------------------------------------------------------------------
(* Sums over finite sets *)

(* A set with 0 and the successor of each of its elements has every natural number. *)
LEMMA Counting ==
  ASSUME NEW Q, 0 \in Q, \A n \in Nat : n \in Q => n + 1 \in Q
  PROVE  \A n \in Nat : n \in Q
<1> SUFFICES ASSUME NEW k \in Nat, k \notin Q PROVE FALSE
  OBVIOUS
<1> DEFINE B == {n \in Nat : n \notin Q}
<1>1. \E x \in B : \A y \in B : ~(<<y, x>> \in OpToRel(<, Nat))
  BY NatLessThanWellFounded, WFMin
<1>2. PICK x \in B : \A y \in B : ~(<<y, x>> \in OpToRel(<, Nat))
  BY <1>1
<1>3. x \in Nat /\ x \notin Q
  BY <1>2
<1>4. x # 0
  BY <1>3
<1>5. x - 1 \in Nat /\ x - 1 < x /\ x = (x - 1) + 1
  BY <1>3, <1>4
<1>6. x - 1 \in Q
  BY <1>2, <1>5 DEF OpToRel
<1>7. QED  BY <1>3, <1>5, <1>6

(* What holds of a set when it holds of all sets with one element less holds *)
(* of every finite set.                                                      *)
LEMMA Growing ==
  ASSUME NEW S, IsFiniteSet(S), NEW Q,
         \A T \in SUBSET S : (\A x \in T : T \ {x} \in Q) => T \in Q
  PROVE  \A T \in SUBSET S : T \in Q
<1> DEFINE N == {n \in Nat : \A T \in SUBSET S : Cardinality(T) = n => T \in Q}
<1>1. 0 \in N
  <2> SUFFICES ASSUME NEW T \in SUBSET S, Cardinality(T) = 0 PROVE T \in Q
    OBVIOUS
  <2>1. T = {}
    BY FS_Subset, FS_EmptySet
  <2>2. QED  BY <2>1
<1>2. ASSUME NEW n \in Nat, n \in N PROVE n + 1 \in N
  <2> SUFFICES ASSUME NEW T \in SUBSET S, Cardinality(T) = n + 1 PROVE T \in Q
    OBVIOUS
  <2>1. ASSUME NEW x \in T PROVE T \ {x} \in Q
    <3>1. IsFiniteSet(T)
      BY FS_Subset
    <3>2. Cardinality(T \ {x}) = (n + 1) - 1
      BY <3>1, FS_RemoveElement
    <3>3. Cardinality(T \ {x}) = n
      BY <3>2
    <3>4. QED  BY <1>2, <3>3
  <2>2. QED  BY <2>1
<1> HIDE DEF N
<1>3. \A n \in Nat : n \in N
  BY <1>1, <1>2, Counting
<1>4. QED  BY <1>3, FS_Subset, FS_CardinalityType DEF N

-----------------------------------------------------------------------------
(* The element the library's fold takes next, and the recursion it solves. *)
Some(T) == CHOOSE x \in T : TRUE
IsSum(f, S, g) == g = [T \in SUBSET S |-> IF T = {} THEN 0 ELSE f[Some(T)] + g[T \ {Some(T)}]]

(* What the library defines is such a recursion. *)
LEMMA SumDef ==
  ASSUME NEW f, NEW S
  PROVE SumFunctionOnSet(f, S) = (CHOOSE g : IsSum(f, S, g))[S]
BY DEF SumFunctionOnSet, FoldFunctionOnSet, MapThenFoldSet, IsSum, Some

(* The recursion for the sums of all subsets has a solution. *)
LEMMA SumExists ==
  ASSUME NEW f, NEW S, IsFiniteSet(S)
  PROVE  \E g : IsSum(f, S, g)
<1> DEFINE Up(n) == {T \in SUBSET S : Cardinality(T) <= n}
           Val(g, T) == IF T = {} THEN 0 ELSE f[Some(T)] + g[T \ {Some(T)}]
           N == {n \in Nat : \E g : g = [T \in Up(n) |-> Val(g, T)]}
<1>0. \A T \in SUBSET S : Cardinality(T) \in Nat /\ (T # {} => Some(T) \in T /\ Cardinality(T \ {Some(T)}) = Cardinality(T) - 1)
  <2> SUFFICES ASSUME NEW T \in SUBSET S
               PROVE  Cardinality(T) \in Nat /\ (T # {} => Some(T) \in T /\ Cardinality(T \ {Some(T)}) = Cardinality(T) - 1)
    OBVIOUS
  <2>1. IsFiniteSet(T)  BY FS_Subset
  <2>2. T # {} => Some(T) \in T  BY DEF Some
  <2>3. QED  BY <2>1, <2>2, FS_CardinalityType, FS_RemoveElement
<1>1. 0 \in N
  <2>1. \A T \in Up(0) : T = {}
    <3>1. ASSUME NEW T \in Up(0) PROVE T = {}
      <4>1. IsFiniteSet(T) /\ Cardinality(T) \in Nat /\ Cardinality(T) <= 0
        BY <1>0, FS_Subset
      <4>2. QED  BY <4>1, FS_EmptySet
    <3>2. QED  BY <3>1
  <2>2. PICK g : g = [T \in Up(0) |-> 0]
    OBVIOUS
  <2>3. g = [T \in Up(0) |-> Val(g, T)]
    BY <2>1, <2>2
  <2>4. QED  BY <2>3
<1>2. ASSUME NEW n \in Nat, n \in N PROVE n + 1 \in N
  <2>1. PICK g : g = [T \in Up(n) |-> Val(g, T)]
    BY <1>2
  <2>2. PICK h : h = [T \in Up(n + 1) |-> IF Cardinality(T) <= n THEN g[T] ELSE f[Some(T)] + g[T \ {Some(T)}]]
    OBVIOUS
  <2>3. \A T \in Up(n + 1) : h[T] = Val(h, T)
    <3> SUFFICES ASSUME NEW T \in Up(n + 1) PROVE h[T] = Val(h, T)
      OBVIOUS
    <3>0. T \in SUBSET S /\ Cardinality(T) \in Nat /\ Cardinality(T) <= n + 1
      BY <1>0
    <3>1. CASE T = {}
      <4>1. Cardinality(T) <= n  BY <3>1, FS_EmptySet
      <4>2. h[T] = g[T] /\ T \in Up(n)  BY <2>2, <3>0, <4>1
      <4>3. g[T] = 0  BY <2>1, <3>1, <4>2
      <4>4. QED  BY <3>1, <4>2, <4>3
    <3>2. CASE T # {}
      <4> DEFINE U == T \ {Some(T)}
      <4>1. Cardinality(U) \in Nat /\ Cardinality(U) = Cardinality(T) - 1 /\ U \in SUBSET S
        BY <1>0, <3>0, <3>2
      <4>2. U \in Up(n) /\ U \in Up(n + 1)
        BY <3>0, <4>1
      <4>3. h[U] = g[U]
        BY <2>2, <4>2
      <4>4. h[T] = f[Some(T)] + g[U]
        <5>1. CASE Cardinality(T) <= n
          <6>1. T \in Up(n) /\ h[T] = g[T]  BY <2>2, <3>0, <5>1
          <6>2. g[T] = Val(g, T)  BY <2>1, <6>1
          <6>3. QED  BY <3>2, <6>1, <6>2
        <5>2. CASE ~(Cardinality(T) <= n)
          BY <2>2, <5>2
        <5>3. QED  BY <5>1, <5>2
      <4>5. QED  BY <3>2, <4>3, <4>4
    <3>3. QED  BY <3>1, <3>2
  <2>4. h = [T \in Up(n + 1) |-> Val(h, T)]
    BY <2>2, <2>3
  <2>5. \E d : d = [T \in Up(n + 1) |-> Val(d, T)]
    BY <2>4, Zenon
  <2>6. n + 1 \in Nat
    OBVIOUS
  <2>7. QED  BY <2>5, <2>6, Zenon
<1>3. \A n \in Nat : n \in N
  <2> HIDE DEF N
  <2>1. QED  BY <1>1, <1>2, Counting
<1>4. PICK g : g = [T \in Up(Cardinality(S)) |-> Val(g, T)]
  BY <1>3, FS_CardinalityType
<1>5. Up(Cardinality(S)) = SUBSET S
  BY FS_Subset
<1>6. IsSum(f, S, g)
  BY <1>4, <1>5 DEF IsSum
<1>7. QED  BY <1>6

(* A recursion for the sums of all subsets gives the same for each subset. *)
LEMMA SumUnique ==
  ASSUME NEW f, NEW S, IsFiniteSet(S), NEW U \in SUBSET S, NEW g, NEW h, IsSum(f, S, g), IsSum(f, U, h)
  PROVE  \A T \in SUBSET U : g[T] = h[T]
<1> DEFINE Q == {T \in SUBSET U : g[T] = h[T]}
<1>1. ASSUME NEW T \in SUBSET U, \A x \in T : T \ {x} \in Q PROVE T \in Q
  <2>1. /\ g[T] = IF T = {} THEN 0 ELSE f[Some(T)] + g[T \ {Some(T)}]
        /\ h[T] = IF T = {} THEN 0 ELSE f[Some(T)] + h[T \ {Some(T)}]
    BY DEF IsSum
  <2>2. T # {} => Some(T) \in T
    BY DEF Some
  <2>3. QED  BY <1>1, <2>1, <2>2
<1> HIDE DEF Q
<1>2. \A T \in SUBSET U : T \in Q
  BY <1>1, Growing, FS_Subset
<1>3. QED  BY <1>2 DEF Q

(* The recursion of a sum. *)
LEMMA SumStep ==
  ASSUME NEW f, NEW S, IsFiniteSet(S)
  PROVE  SumFunctionOnSet(f, S) =
           IF S = {} THEN 0 ELSE f[Some(S)] + SumFunctionOnSet(f, S \ {Some(S)})
<1> DEFINE U == S \ {Some(S)}
<1>1. PICK g : g = (CHOOSE d : IsSum(f, S, d))
  OBVIOUS
<1>2. PICK h : h = (CHOOSE d : IsSum(f, U, d))
  OBVIOUS
<1>3. IsFiniteSet(U) /\ U \in SUBSET S
  BY FS_Subset
<1>4. IsSum(f, S, g) /\ IsSum(f, U, h)
  BY <1>1, <1>2, <1>3, SumExists
<1>5. g[U] = h[U]
  BY <1>3, <1>4, SumUnique
<1>6. SumFunctionOnSet(f, S) = g[S] /\ SumFunctionOnSet(f, U) = h[U]
  BY <1>1, <1>2, SumDef
<1>7. g[S] = IF S = {} THEN 0 ELSE f[Some(S)] + g[U]
  BY <1>4 DEF IsSum
<1>8. QED  BY <1>5, <1>6, <1>7

(* A sum of integers is an integer, of natural numbers a natural number. *)
LEMMA SumType ==
  ASSUME NEW f, NEW S, IsFiniteSet(S), \A x \in S : f[x] \in Int
  PROVE  /\ SumFunctionOnSet(f, S) \in Int
         /\ (\A x \in S : f[x] >= 0) => SumFunctionOnSet(f, S) >= 0
         /\ (\A x \in S : f[x] = 0) => SumFunctionOnSet(f, S) = 0
<1> DEFINE Total(T) == SumFunctionOnSet(f, T)
           P(T) == /\ Total(T) \in Int
                   /\ (\A x \in S : f[x] >= 0) => Total(T) >= 0
                   /\ (\A x \in S : f[x] = 0) => Total(T) = 0
           Q == {T \in SUBSET S : P(T)}
<1>1. ASSUME NEW T \in SUBSET S, \A x \in T : T \ {x} \in Q PROVE T \in Q
  <2>1. IsFiniteSet(T)
    BY FS_Subset
  <2>2. CASE T = {}
    <3>1. Total(T) = 0
      BY <2>1, <2>2, SumStep
    <3>2. QED  BY <3>1
  <2>3. CASE T # {}
    <3>1. PICK x \in T : x = Some(T)
      BY <2>3 DEF Some
    <3>2. Total(T) = f[x] + Total(T \ {x})
      BY <2>1, <2>3, <3>1, SumStep
    <3>3. P(T \ {x}) /\ f[x] \in Int /\ x \in S
      BY <1>1
    <3> HIDE DEF Total
    <3>4. QED  BY <3>2, <3>3
  <2>4. QED  BY <2>2, <2>3
<1> HIDE DEF Q
<1>2. \A T \in SUBSET S : T \in Q
  BY <1>1, Growing
<1>3. QED  BY <1>2 DEF Q

(* A sum does not depend on the order: any element can be the first. *)
LEMMA SumRemove ==
  ASSUME NEW f, NEW S, IsFiniteSet(S), \A x \in S : f[x] \in Int, NEW z \in S
  PROVE  SumFunctionOnSet(f, S) = f[z] + SumFunctionOnSet(f, S \ {z})
<1> DEFINE Total(T) == SumFunctionOnSet(f, T)
           Q == {T \in SUBSET S : \A x \in T : Total(T) = f[x] + Total(T \ {x})}
<1>0. ASSUME NEW T \in SUBSET S PROVE IsFiniteSet(T) /\ Total(T) \in Int
  <2>1. IsFiniteSet(T)
    BY FS_Subset
  <2>2. QED  BY <2>1, SumType
<1>1. ASSUME NEW T \in SUBSET S, \A x \in T : T \ {x} \in Q PROVE T \in Q
  <2> SUFFICES ASSUME NEW x \in T PROVE Total(T) = f[x] + Total(T \ {x})
    OBVIOUS
  <2>1. PICK c \in T : c = Some(T)
    BY DEF Some
  <2>2. Total(T) = f[c] + Total(T \ {c})
    BY <1>0, <2>1, SumStep
  <2>3. CASE c = x
    BY <2>2, <2>3
  <2>4. CASE c # x
    <3> DEFINE U == (T \ {c}) \ {x}
    <3>1. Total(T \ {c}) = f[x] + Total(U)
      BY <1>1, <2>4
    <3>2. U = (T \ {x}) \ {c}
      OBVIOUS
    <3>3. Total(T \ {x}) = f[c] + Total(U)
      BY <1>1, <2>4, <3>2
    <3>4. Total(U) \in Int /\ f[c] \in Int /\ f[x] \in Int
      BY <1>0
    <3> HIDE DEF Total, U
    <3>5. QED  BY <2>2, <3>1, <3>3, <3>4
  <2>5. QED  BY <2>3, <2>4
<1> HIDE DEF Q
<1>2. \A T \in SUBSET S : T \in Q
  BY <1>1, Growing
<1>3. QED  BY <1>2 DEF Q

(* One element more. *)
LEMMA SumInsert ==
  ASSUME NEW f, NEW S, IsFiniteSet(S), NEW z, z \notin S, \A x \in S \cup {z} : f[x] \in Int
  PROVE  /\ IsFiniteSet(S \cup {z})
         /\ SumFunctionOnSet(f, S \cup {z}) = f[z] + SumFunctionOnSet(f, S)
<1>1. IsFiniteSet(S \cup {z})
  BY FS_AddElement
<1>2. (S \cup {z}) \ {z} = S
  OBVIOUS
<1>3. QED  BY <1>1, <1>2, SumRemove

(* The sum of two sets without a common element. *)
LEMMA SumUnion ==
  ASSUME NEW f, NEW S, NEW T, IsFiniteSet(S), IsFiniteSet(T), S \cap T = {},
         \A x \in S \cup T : f[x] \in Int
  PROVE  /\ IsFiniteSet(S \cup T)
         /\ SumFunctionOnSet(f, S \cup T) = SumFunctionOnSet(f, S) + SumFunctionOnSet(f, T)
<1> DEFINE Total(U) == SumFunctionOnSet(f, U)
           Q == {U \in SUBSET S : Total(U \cup T) = Total(U) + Total(T)}
<1>0. IsFiniteSet(S \cup T)
  BY FS_Union
<1>1. ASSUME NEW U \in SUBSET S, \A x \in U : U \ {x} \in Q PROVE U \in Q
  <2>1. IsFiniteSet(U) /\ IsFiniteSet(U \cup T) /\ U \cup T \in SUBSET (S \cup T)
    BY <1>0, FS_Subset
  <2>2. CASE U = {}
    <3>1. Total(U) = 0 /\ U \cup T = T
      BY <2>1, <2>2, SumStep
    <3>2. Total(T) \in Int
      BY SumType
    <3>3. Total(U \cup T) = Total(T)
      BY <3>1
    <3>4. Total(U \cup T) = Total(U) + Total(T)
      <4> HIDE DEF Total
      <4>1. QED  BY <3>1, <3>2, <3>3
    <3>5. QED  BY <3>4
  <2>3. CASE U # {}
    <3>1. PICK x \in U : TRUE
      BY <2>3
    <3>2. (U \cup T) \ {x} = (U \ {x}) \cup T
      BY <3>1
    <3>3. Total(U) = f[x] + Total(U \ {x}) /\ Total(U \cup T) = f[x] + Total((U \ {x}) \cup T)
      BY <2>1, <3>1, <3>2, SumRemove
    <3>4. Total((U \ {x}) \cup T) = Total(U \ {x}) + Total(T)
      BY <1>1, <3>1
    <3>5. IsFiniteSet(U \ {x})
      BY <2>1, FS_Subset
    <3>6. f[x] \in Int /\ Total(U \ {x}) \in Int /\ Total(T) \in Int
      BY <3>1, <3>5, SumType
    <3> HIDE DEF Total
    <3>7. QED  BY <3>3, <3>4, <3>6
  <2>4. QED  BY <2>2, <2>3
<1> HIDE DEF Q
<1>2. \A U \in SUBSET S : U \in Q
  BY <1>1, Growing
<1>3. QED  BY <1>0, <1>2 DEF Q

(* Functions that agree have the same sum. *)
LEMMA SumSame ==
  ASSUME NEW f, NEW g, NEW S, IsFiniteSet(S), \A x \in S : f[x] = g[x]
  PROVE  SumFunctionOnSet(f, S) = SumFunctionOnSet(g, S)
<1> DEFINE Q == {T \in SUBSET S : SumFunctionOnSet(f, T) = SumFunctionOnSet(g, T)}
<1>1. ASSUME NEW T \in SUBSET S, \A x \in T : T \ {x} \in Q PROVE T \in Q
  <2>1. IsFiniteSet(T)
    BY FS_Subset
  <2>2. CASE T = {}
    BY <2>1, <2>2, SumStep
  <2>3. CASE T # {}
    <3>1. PICK x \in T : x = Some(T)
      BY <2>3 DEF Some
    <3>2. SumFunctionOnSet(f, T \ {x}) = SumFunctionOnSet(g, T \ {x}) /\ f[x] = g[x]
      BY <1>1
    <3>3. /\ SumFunctionOnSet(f, T) = f[x] + SumFunctionOnSet(f, T \ {x})
          /\ SumFunctionOnSet(g, T) = g[x] + SumFunctionOnSet(g, T \ {x})
      BY <2>1, <2>3, <3>1, SumStep
    <3>4. QED  BY <3>2, <3>3
  <2>4. QED  BY <2>2, <2>3
<1> HIDE DEF Q
<1>2. \A T \in SUBSET S : T \in Q
  BY <1>1, Growing
<1>3. QED  BY <1>2 DEF Q

(* The sum of the sum of two functions. *)
LEMMA SumAdd ==
  ASSUME NEW f, NEW g, NEW h, NEW S, IsFiniteSet(S),
         \A x \in S : f[x] \in Int /\ g[x] \in Int /\ h[x] = f[x] + g[x]
  PROVE  SumFunctionOnSet(h, S) = SumFunctionOnSet(f, S) + SumFunctionOnSet(g, S)
<1> DEFINE F(T) == SumFunctionOnSet(f, T)
           G(T) == SumFunctionOnSet(g, T)
           H(T) == SumFunctionOnSet(h, T)
           Q == {T \in SUBSET S : H(T) = F(T) + G(T)}
<1>1. ASSUME NEW T \in SUBSET S, \A x \in T : T \ {x} \in Q PROVE T \in Q
  <2>1. IsFiniteSet(T)
    BY FS_Subset
  <2>2. CASE T = {}
    <3>1. F(T) = 0 /\ G(T) = 0 /\ H(T) = 0
      BY <2>1, <2>2, SumStep
    <3>2. QED  BY <3>1
  <2>3. CASE T # {}
    <3>1. PICK x \in T : x = Some(T)
      BY <2>3 DEF Some
    <3>2. /\ F(T) = f[x] + F(T \ {x}) /\ G(T) = g[x] + G(T \ {x}) /\ H(T) = h[x] + H(T \ {x})
      BY <2>1, <2>3, <3>1, SumStep
    <3>3. IsFiniteSet(T \ {x})
      BY <2>1, FS_Subset
    <3>4. F(T \ {x}) \in Int /\ G(T \ {x}) \in Int
      BY <3>3, SumType
    <3>5. H(T \ {x}) = F(T \ {x}) + G(T \ {x})
      BY <1>1
    <3> HIDE DEF F, G, H
    <3>6. QED  BY <3>2, <3>4, <3>5
  <2>4. QED  BY <2>2, <2>3
<1> HIDE DEF Q
<1>2. \A T \in SUBSET S : T \in Q
  BY <1>1, Growing
<1>3. QED  BY <1>2 DEF Q

(* h[a] is the sum of what a owns of S. *)
Shared(h, A, f, S, own) == \A a \in A : h[a] = SumFunctionOnSet(f, {x \in S : own[x] = a})

(* What goes to each owner is, over all owners, everything. *)
LEMMA SumOwned ==
  ASSUME NEW f, NEW S, IsFiniteSet(S), \A x \in S : f[x] \in Int,
         NEW A, IsFiniteSet(A), NEW own, \A x \in S : own[x] \in A,
         NEW h, Shared(h, A, f, S, own)
  PROVE  SumFunctionOnSet(h, A) = SumFunctionOnSet(f, S)
<1> DEFINE Of(B) == {x \in S : own[x] \in B}
           H(B) == SumFunctionOnSet(h, B)
           F(T) == SumFunctionOnSet(f, T)
           Q == {B \in SUBSET A : H(B) = F(Of(B))}
<1>1. ASSUME NEW B \in SUBSET A, \A a \in B : B \ {a} \in Q PROVE B \in Q
  <2>1. IsFiniteSet(B)
    BY FS_Subset
  <2>2. CASE B = {}
    <3>1. Of(B) = {}
      BY <2>2
    <3>2. H(B) = 0 /\ F(Of(B)) = 0
      BY <2>1, <2>2, <3>1, SumStep, FS_EmptySet
    <3>3. QED  BY <3>2
  <2>3. CASE B # {}
    <3>1. PICK a \in B : a = Some(B)
      BY <2>3 DEF Some
    <3> DEFINE X == {x \in S : own[x] = a}
               Y == Of(B \ {a})
    <3>2. H(B) = h[a] + H(B \ {a})
      BY <2>1, <2>3, <3>1, SumStep
    <3>3. h[a] = F(X) /\ H(B \ {a}) = F(Y)
      BY <1>1, <3>1 DEF Shared
    <3>4. IsFiniteSet(X) /\ IsFiniteSet(Y) /\ X \cap Y = {} /\ Of(B) = X \cup Y
      <4>1. X \in SUBSET S /\ Y \in SUBSET S
        OBVIOUS
      <4>2. X \cap Y = {} /\ Of(B) = X \cup Y
        BY <3>1
      <4>3. QED  BY <4>1, <4>2, FS_Subset
    <3>5. F(X \cup Y) = F(X) + F(Y)
      BY <3>4, SumUnion
    <3>6. QED  BY <3>2, <3>3, <3>4, <3>5
  <2>4. QED  BY <2>2, <2>3
<1> HIDE DEF Q
<1>2. \A T \in SUBSET A : T \in Q
  BY <1>1, Growing
<1>3. Of(A) = S
  OBVIOUS
<1>4. QED  BY <1>2, <1>3 DEF Q

(* What is taken out of a set is taken off its sum. *)
LEMMA SumMinus ==
  ASSUME NEW f, NEW S, IsFiniteSet(S), \A x \in S : f[x] \in Int, NEW R \in SUBSET S
  PROVE  /\ IsFiniteSet(S \ R) /\ SumFunctionOnSet(f, R) \in Int
         /\ SumFunctionOnSet(f, S) \in Int
         /\ SumFunctionOnSet(f, S \ R) = SumFunctionOnSet(f, S) - SumFunctionOnSet(f, R)
<1>1. IsFiniteSet(S \ R) /\ IsFiniteSet(R)
  BY FS_Subset
<1>2. (S \ R) \cap R = {} /\ (S \ R) \cup R = S
  OBVIOUS
<1>3. SumFunctionOnSet(f, S) = SumFunctionOnSet(f, S \ R) + SumFunctionOnSet(f, R)
  BY <1>1, <1>2, SumUnion
<1>4. /\ SumFunctionOnSet(f, S \ R) \in Int /\ SumFunctionOnSet(f, R) \in Int
      /\ SumFunctionOnSet(f, S) \in Int
  BY <1>1, SumType
<1>5. QED  BY <1>1, <1>3, <1>4

-----------------------------------------------------------------------------
(* What accounts hold *)

Owed == [Asset -> Int]

(* The total of an account-by-account sum. *)
LEMMA HeldAdds ==
  ASSUME NEW held \in [Account -> Owed], NEW more, NEW new, NEW s \in Asset,
         \A a \in Account : more[a] \in Int /\ new[a][s] = held[a][s] + more[a]
  PROVE  /\ TotalHeld(held, s) \in Int
         /\ TotalHeld(new, s) = TotalHeld(held, s) + SumFunctionOnSet(more, Account)
<1> DEFINE f == [a \in Account |-> held[a][s]]
           h == [a \in Account |-> new[a][s]]
<1>1. IsFiniteSet(Account)
  BY AccountAssumption
<1>2. \A a \in Account : f[a] \in Int /\ more[a] \in Int /\ h[a] = f[a] + more[a]
  BY DEF Owed
<1>3. TotalHeld(held, s) = SumFunctionOnSet(f, Account) /\ TotalHeld(new, s) = SumFunctionOnSet(h, Account)
  BY DEF TotalHeld, SumFunction
<1> HIDE DEF f, h
<1>4. SumFunctionOnSet(f, Account) \in Int
  BY <1>1, <1>2, SumType
<1>5. SumFunctionOnSet(h, Account) = SumFunctionOnSet(f, Account) + SumFunctionOnSet(more, Account)
  BY <1>1, <1>2, SumAdd
<1>6. QED  BY <1>3, <1>4, <1>5

(* The sum of what only one account has. *)
LEMMA OnlyOne ==
  ASSUME NEW a \in Account, NEW n \in Int
  PROVE  SumFunctionOnSet([b \in Account |-> IF b = a THEN n ELSE 0], Account) = n
<1> DEFINE f == [b \in Account |-> IF b = a THEN n ELSE 0]
<1>1. IsFiniteSet(Account) /\ IsFiniteSet(Account \ {a})
  BY AccountAssumption, FS_Subset
<1>2. SumFunctionOnSet(f, Account) = f[a] + SumFunctionOnSet(f, Account \ {a})
  BY <1>1, SumRemove
<1>3. SumFunctionOnSet(f, Account \ {a}) = 0
  BY <1>1, SumType
<1>4. f[a] = n
  OBVIOUS
<1> HIDE DEF f
<1>5. QED  BY <1>2, <1>3, <1>4 DEF f

(* adjust_balance() changes the total by the amount. *)
LEMMA CreditTotal ==
  ASSUME NEW held \in [Account -> Owed], NEW a \in Account, NEW x \in Owed
  PROVE  /\ Credit(held, a, x) \in [Account -> Owed]
         /\ \A s \in Asset : /\ TotalHeld(held, s) \in Int
                             /\ TotalHeld(Credit(held, a, x), s) = TotalHeld(held, s) + x[s]
<1>1. Credit(held, a, x) \in [Account -> Owed]
  BY DEF Credit, Both, Owed
<1>2. ASSUME NEW s \in Asset
      PROVE  /\ TotalHeld(held, s) \in Int
             /\ TotalHeld(Credit(held, a, x), s) = TotalHeld(held, s) + x[s]
  <2>1. PICK more : more = [b \in Account |-> IF b = a THEN x[s] ELSE 0]
    OBVIOUS
  <2>2. x[s] \in Int
    BY DEF Owed
  <2>3. PICK new : new = Credit(held, a, x)
    OBVIOUS
  <2>4. \A b \in Account : more[b] \in Int /\ new[b][s] = held[b][s] + more[b]
    BY <2>1, <2>2, <2>3 DEF Credit, Both, Owed
  <2>5. SumFunctionOnSet(more, Account) = x[s]
    BY <2>1, <2>2, OnlyOne
  <2>6. /\ TotalHeld(held, s) \in Int
        /\ TotalHeld(new, s) = TotalHeld(held, s) + SumFunctionOnSet(more, Account)
    BY <2>4, HeldAdds
  <2>7. QED  BY <2>3, <2>5, <2>6
<1>3. QED  BY <1>1, <1>2

(* The same for a debit. *)
LEMMA DebitTotal ==
  ASSUME NEW held \in [Account -> Owed], NEW a \in Account, NEW x \in Owed
  PROVE  /\ Debit(held, a, x) \in [Account -> Owed]
         /\ \A s \in Asset : /\ TotalHeld(held, s) \in Int
                             /\ TotalHeld(Debit(held, a, x), s) = TotalHeld(held, s) - x[s]
<1> DEFINE y == [s \in Asset |-> 0 - x[s]]
<1>1. y \in Owed
  BY DEF Owed
<1>2. Debit(held, a, x) = Credit(held, a, y)
  <2>1. Less(held[a], x) = Both(held[a], y)
    <3>1. \A s \in Asset : held[a][s] - x[s] = held[a][s] + y[s]
      BY DEF Owed
    <3> HIDE DEF y
    <3>2. QED  BY <3>1 DEF Less, Both
  <2>2. QED  BY <2>1 DEF Debit, Credit
<1>3. \A s \in Asset : x[s] \in Int /\ y[s] = 0 - x[s]
  BY DEF Owed
<1> HIDE DEF y
<1>4. /\ Credit(held, a, y) \in [Account -> Owed]
      /\ \A s \in Asset : /\ TotalHeld(held, s) \in Int
                          /\ TotalHeld(Credit(held, a, y), s) = TotalHeld(held, s) + y[s]
  BY <1>1, CreditTotal
<1>5. ASSUME NEW s \in Asset
      PROVE  TotalHeld(held, s) \in Int /\ TotalHeld(Debit(held, a, x), s) = TotalHeld(held, s) - x[s]
  <2>1. /\ TotalHeld(held, s) \in Int /\ x[s] \in Int /\ y[s] = 0 - x[s]
        /\ TotalHeld(Debit(held, a, x), s) = TotalHeld(held, s) + y[s]
    BY <1>2, <1>3, <1>4
  <2>2. QED  BY <2>1
<1>6. QED  BY <1>2, <1>4, <1>5

-----------------------------------------------------------------------------
(* What stores hold *)

(* What the elements of S hold of s, paid[x] for each x. *)
Held(paid, S, s) == SumFunction([x \in S |-> paid[x][s]])

(* All that is in T is worth a holding. *)
Pays(T, paid) == \A x \in T : paid[x] \in Holding

(* The sum of a store is that of a function on all that could be in it. *)
LEMMA StoreSum ==
  ASSUME NEW T, NEW paid, Pays(T, paid), NEW s \in Asset,
         NEW R, Store(R, T), NEW f, f = [x \in T |-> paid[x][s]]
  PROVE  Held(paid, R, s) = SumFunctionOnSet(f, R) /\ Held(paid, R, s) \in Nat
<1>1. \A x \in T : f[x] \in Nat /\ f[x] = paid[x][s]
  BY DEF Holding, Pays
<1>2. R \in SUBSET T /\ IsFiniteSet(R)
  BY DEF Store
<1>3. Held(paid, R, s) = SumFunctionOnSet(f, R)
  <2> DEFINE g == [x \in R |-> paid[x][s]]
  <2>1. Held(paid, R, s) = SumFunctionOnSet(g, R)
    BY DEF Held, SumFunction
  <2>2. \A x \in R : g[x] = f[x]
    BY <1>2
  <2> HIDE DEF g
  <2>3. QED  BY <1>2, <2>1, <2>2, SumSame
<1>4. \A x \in R : f[x] \in Int /\ f[x] >= 0
  BY <1>1, <1>2
<1>5. SumFunctionOnSet(f, R) \in Int /\ SumFunctionOnSet(f, R) >= 0
  BY <1>2, <1>4, SumType
<1>6. QED  BY <1>3, <1>5

(* The total of a store is a number. *)
LEMMA StoreType ==
  ASSUME NEW T, NEW paid, Pays(T, paid), NEW s \in Asset, NEW R, Store(R, T)
  PROVE  Held(paid, R, s) \in Nat
<1>1. PICK f : f = [x \in T |-> paid[x][s]]
  OBVIOUS
<1>2. QED  BY <1>1, StoreSum

(* One element more. *)
LEMMA StoreInsert ==
  ASSUME NEW T, NEW paid, Pays(T, paid), NEW s \in Asset,
         NEW S, Store(S, T), NEW R, Store(R, T), NEW z \in R, z \notin S, R \ {z} = S
  PROVE  /\ Held(paid, S, s) \in Nat /\ paid[z][s] \in Nat
         /\ Held(paid, R, s) = Held(paid, S, s) + paid[z][s]
<1>1. PICK f : f = [x \in T |-> paid[x][s]]
  OBVIOUS
<1>2. Held(paid, S, s) = SumFunctionOnSet(f, S) /\ Held(paid, S, s) \in Nat
  BY <1>1, StoreSum
<1>3. Held(paid, R, s) = SumFunctionOnSet(f, R)
  BY <1>1, StoreSum
<1>4. IsFiniteSet(R) /\ (\A x \in R : f[x] \in Int) /\ f[z] \in Nat /\ f[z] = paid[z][s]
  BY <1>1 DEF Pays, Holding, Store
<1>5. SumFunctionOnSet(f, R) = f[z] + SumFunctionOnSet(f, S)
  BY <1>4, SumRemove
<1>6. QED  BY <1>2, <1>3, <1>4, <1>5

(* The elements of a subset less. *)
LEMMA StoreMinus ==
  ASSUME NEW T, NEW paid, Pays(T, paid), NEW s \in Asset,
         NEW S, Store(S, T), NEW R, R \subseteq S
  PROVE  /\ Store(S \ R, T) /\ Store(R, T)
         /\ Held(paid, S, s) \in Nat /\ Held(paid, R, s) \in Nat
         /\ Held(paid, S \ R, s) = Held(paid, S, s) - Held(paid, R, s)
<1>1. PICK f : f = [x \in T |-> paid[x][s]]
  OBVIOUS
<1>2. PICK D : D = S \ R
  OBVIOUS
<1>3. Store(D, T) /\ Store(R, T)
  <2>1. IsFiniteSet(D) /\ IsFiniteSet(R)
    BY <1>2, FS_Subset DEF Store
  <2>2. QED  BY <1>2, <2>1 DEF Store
<1>4. Held(paid, S, s) = SumFunctionOnSet(f, S) /\ Held(paid, S, s) \in Nat
  BY <1>1, StoreSum
<1>5. Held(paid, R, s) = SumFunctionOnSet(f, R) /\ Held(paid, R, s) \in Nat
  BY <1>1, <1>3, StoreSum
<1>6. Held(paid, D, s) = SumFunctionOnSet(f, D)
  BY <1>1, <1>3, StoreSum
<1>7. \A x \in S : f[x] \in Int
  BY <1>1 DEF Pays, Holding, Store
<1>8. SumFunctionOnSet(f, S \ R) = SumFunctionOnSet(f, S) - SumFunctionOnSet(f, R)
  BY <1>7, SumMinus DEF Store
<1>9. QED  BY <1>2, <1>3, <1>4, <1>5, <1>6, <1>8

(* The total of nothing. *)
LEMMA StoreNone ==
  ASSUME NEW paid, NEW s \in Asset
  PROVE  Held(paid, {}, s) = 0
<1>1. Held(paid, {}, s) = SumFunctionOnSet([x \in {} |-> paid[x][s]], {})
  BY DEF Held, SumFunction
<1>2. QED  BY <1>1, SumStep, FS_EmptySet

(* The total of a single element. *)
LEMMA StoreOne ==
  ASSUME NEW T, NEW paid, Pays(T, paid), NEW s \in Asset, NEW z \in T
  PROVE  Held(paid, {z}, s) = paid[z][s]
<1>1. PICK S : S = {}
  OBVIOUS
<1>2. PICK R : R = {z}
  OBVIOUS
<1>3. Store(S, T) /\ Store(R, T) /\ z \in R /\ z \notin S /\ R \ {z} = S
  BY <1>1, <1>2, FS_EmptySet, FS_Singleton DEF Store
<1>4. Held(paid, S, s) = 0
  BY <1>1, StoreNone
<1>5. paid[z][s] \in Nat /\ Held(paid, R, s) = Held(paid, S, s) + paid[z][s]
  BY <1>3, StoreInsert
<1>6. QED  BY <1>2, <1>4, <1>5

(* An element less. *)
LEMMA StoreRemove ==
  ASSUME NEW T, NEW paid, Pays(T, paid), NEW s \in Asset,
         NEW S, Store(S, T), NEW z \in S
  PROVE  /\ Store(S \ {z}, T) /\ Held(paid, S, s) \in Nat /\ paid[z][s] \in Nat
         /\ Held(paid, S \ {z}, s) = Held(paid, S, s) - paid[z][s]
<1>1. PICK R : R = {z}
  OBVIOUS
<1>2. R \subseteq S /\ z \in T
  BY <1>1 DEF Store
<1>3. /\ Store(S \ R, T) /\ Held(paid, S, s) \in Nat /\ Held(paid, R, s) \in Nat
      /\ Held(paid, S \ R, s) = Held(paid, S, s) - Held(paid, R, s)
  BY <1>2, StoreMinus
<1>4. Held(paid, {z}, s) = paid[z][s]
  BY <1>2, StoreOne
<1>5. QED  BY <1>1, <1>3, <1>4

(* An element for another. *)
LEMMA StoreReplace ==
  ASSUME NEW T, NEW paid, Pays(T, paid), NEW s \in Asset,
         NEW S, Store(S, T), NEW y \in S, NEW z \in T, z \notin S \ {y}
  PROVE  /\ Store((S \ {y}) \cup {z}, T) /\ Held(paid, S, s) \in Nat
         /\ paid[y][s] \in Nat /\ paid[z][s] \in Nat
         /\ Held(paid, (S \ {y}) \cup {z}, s) = Held(paid, S, s) - paid[y][s] + paid[z][s]
<1>1. PICK R : R = S \ {y}
  OBVIOUS
<1>2. /\ Store(R, T) /\ Held(paid, S, s) \in Nat /\ paid[y][s] \in Nat
      /\ Held(paid, R, s) = Held(paid, S, s) - paid[y][s]
  BY <1>1, StoreRemove
<1>3. PICK Q : Q = (S \ {y}) \cup {z}
  OBVIOUS
<1>4. Store(Q, T) /\ z \in Q /\ z \notin R /\ Q \ {z} = R
  <2>1. IsFiniteSet(Q)
    BY <1>1, <1>2, <1>3, FS_AddElement DEF Store
  <2>2. QED  BY <1>1, <1>2, <1>3, <2>1 DEF Store
<1>5. paid[z][s] \in Nat /\ Held(paid, Q, s) = Held(paid, R, s) + paid[z][s]
  BY <1>2, <1>4, StoreInsert
<1>6. QED  BY <1>2, <1>3, <1>4, <1>5

(* CreditAll() with functions for its operators. *)
Credited(new, held, S, own, paid) ==
  new = [a \in Account |-> [s \in Asset |->
           held[a][s] + SumFunctionOnSet([x \in S |-> paid[x][s]], {x \in S : own[x] = a})]]

(* A set of elements paid to their owners adds what it holds to the accounts. *)
LEMMA CreditAllTotal ==
  ASSUME NEW held \in [Account -> Holding], NEW S, NEW T, Store(S, T), NEW paid, Pays(T, paid),
         NEW own, \A x \in S : own[x] \in Account, NEW new, Credited(new, held, S, own, paid)
  PROVE  /\ new \in [Account -> Holding]
         /\ \A s \in Asset : /\ TotalHeld(held, s) \in Int
                             /\ TotalHeld(new, s) = TotalHeld(held, s) + Held(paid, S, s)
<1>1. ASSUME NEW s \in Asset
      PROVE  /\ \A a \in Account : new[a][s] \in Nat
             /\ TotalHeld(held, s) \in Int
             /\ TotalHeld(new, s) = TotalHeld(held, s) + Held(paid, S, s)
  <2>1. PICK f : f = [x \in S |-> paid[x][s]]
    OBVIOUS
  <2>2. PICK more : more = [a \in Account |-> SumFunctionOnSet(f, {x \in S : own[x] = a})]
    OBVIOUS
  <2>3. \A a \in Account : new[a][s] = held[a][s] + SumFunctionOnSet(f, {x \in S : own[x] = a})
    BY <2>1 DEF Credited
  <2>4. Held(paid, S, s) = SumFunctionOnSet(f, S)
    BY <2>1 DEF Held, SumFunction
  <2>5. IsFiniteSet(S) /\ \A x \in S : f[x] \in Int /\ f[x] >= 0
    BY <2>1 DEF Holding, Pays, Store
  <2>6. ASSUME NEW a \in Account PROVE more[a] \in Nat /\ new[a][s] = held[a][s] + more[a]
    <3>1. PICK R \in SUBSET S : R = {x \in S : own[x] = a}
      OBVIOUS
    <3>2. IsFiniteSet(R) /\ \A x \in R : f[x] \in Int /\ f[x] >= 0
      BY <2>5, <3>1, FS_Subset
    <3>3. SumFunctionOnSet(f, R) \in Int /\ SumFunctionOnSet(f, R) >= 0
      BY <3>2, SumType
    <3>4. more[a] = SumFunctionOnSet(f, R) /\ new[a][s] = held[a][s] + SumFunctionOnSet(f, R)
      BY <2>2, <2>3, <3>1
    <3>5. QED  BY <3>3, <3>4
  <2>7. \A a \in Account : held[a][s] \in Nat
    BY DEF Holding
  <2>8. held \in [Account -> Owed]
    BY DEF Holding, Owed
  <2>9. IsFiniteSet(Account) /\ \A x \in S : f[x] \in Int
    BY <2>5, AccountAssumption
  <2>10. Shared(more, Account, f, S, own)
    BY <2>2 DEF Shared
  <2>11. SumFunctionOnSet(more, Account) = SumFunctionOnSet(f, S)
    BY <2>5, <2>9, <2>10, SumOwned
  <2>12. \A a \in Account : more[a] \in Int /\ new[a][s] = held[a][s] + more[a]
    BY <2>6
  <2>13. /\ TotalHeld(held, s) \in Int
         /\ TotalHeld(new, s) = TotalHeld(held, s) + SumFunctionOnSet(more, Account)
    BY <2>8, <2>12, HeldAdds
  <2>14. \A a \in Account : new[a][s] \in Nat
    BY <2>6, <2>7
  <2>15. QED  BY <2>4, <2>11, <2>13, <2>14
<1>2. new = [a \in Account |-> [s \in Asset |-> new[a][s]]]
  BY DEF Credited
<1>3. QED  BY <1>1, <1>2 DEF Holding

(* A store with one element more is a store. *)
LEMMA StoreGrows ==
  ASSUME NEW T, NEW S, Store(S, T), NEW z \in T, NEW R, R = S \cup {z}
  PROVE  Store(R, T)
<1>1. IsFiniteSet(R)
  BY FS_AddElement DEF Store
<1>2. QED  BY <1>1 DEF Store

(* And holds one element more. *)
LEMMA StoreAdd ==
  ASSUME NEW T, NEW paid, Pays(T, paid), NEW S, Store(S, T), NEW z \in T, z \notin S,
         NEW R, R = S \cup {z}, NEW s \in Asset
  PROVE  /\ Held(paid, S, s) \in Nat /\ paid[z][s] \in Nat
         /\ Held(paid, R, s) = Held(paid, S, s) + paid[z][s]
<1>1. Store(R, T) /\ z \in R /\ R \ {z} = S
  BY StoreGrows
<1>2. QED  BY <1>1, StoreInsert

(* A credit leaves holdings, and adds to the total. *)
LEMMA CreditHolds ==
  ASSUME NEW held \in [Account -> Holding], NEW a \in Account, NEW x \in Holding
  PROVE  /\ Credit(held, a, x) \in [Account -> Holding]
         /\ \A s \in Asset : /\ TotalHeld(held, s) \in Int /\ x[s] \in Nat
                             /\ TotalHeld(Credit(held, a, x), s) = TotalHeld(held, s) + x[s]
<1>1. held \in [Account -> Owed] /\ x \in Owed /\ \A s \in Asset : x[s] \in Nat
  BY DEF Holding, Owed
<1>2. \A s \in Asset : /\ TotalHeld(held, s) \in Int
                       /\ TotalHeld(Credit(held, a, x), s) = TotalHeld(held, s) + x[s]
  BY <1>1, CreditTotal
<1>3. Credit(held, a, x) \in [Account -> Holding]
  BY DEF Credit, Both, Holding
<1>4. QED  BY <1>1, <1>2, <1>3

(* A debit that is covered leaves holdings, and takes off the total. *)
LEMMA DebitHolds ==
  ASSUME NEW held \in [Account -> Holding], NEW a \in Account, NEW x \in Holding,
         Covers(held[a], x)
  PROVE  /\ Debit(held, a, x) \in [Account -> Holding]
         /\ \A s \in Asset : /\ TotalHeld(held, s) \in Int /\ x[s] \in Nat
                             /\ TotalHeld(Debit(held, a, x), s) = TotalHeld(held, s) - x[s]
<1>1. held \in [Account -> Owed] /\ x \in Owed /\ \A s \in Asset : x[s] \in Nat
  BY DEF Holding, Owed
<1>2. \A s \in Asset : /\ TotalHeld(held, s) \in Int
                       /\ TotalHeld(Debit(held, a, x), s) = TotalHeld(held, s) - x[s]
  BY <1>1, DebitTotal
<1>3. Debit(held, a, x) \in [Account -> Holding]
  BY DEF Debit, Less, Holding, Covers
<1>4. QED  BY <1>1, <1>2, <1>3

-----------------------------------------------------------------------------
(* The books *)

ConvertWorth == [c \in convert_request |-> c.amount]
OrderWorth == [o \in limit_order_object |-> ForSale(o)]
EscrowWorth == [e \in escrow_object |-> InEscrow(e)]
WithdrawWorth == [w \in SavingsWithdraw |-> w.amount]
InvestWorth == [i \in crowdfunding_invest_object |-> Amount(i.raise, "GBC")]

(* What the stores hold are holdings. *)
LEMMA WorthsPay ==
  /\ Pays(convert_request, ConvertWorth) /\ Pays(limit_order_object, OrderWorth)
  /\ Pays(escrow_object, EscrowWorth) /\ Pays(SavingsWithdraw, WithdrawWorth)
  /\ Pays(crowdfunding_invest_object, InvestWorth)
<1>1. Pays(convert_request, ConvertWorth)
  BY DEF Pays, convert_request, ConvertWorth
<1>2. Pays(limit_order_object, OrderWorth)
  BY DEF Pays, limit_order_object, OrderWorth, ForSale, Amount, Holding
<1>3. Pays(escrow_object, EscrowWorth)
  BY DEF Pays, escrow_object, EscrowWorth, InEscrow, Both, Holding
<1>4. Pays(SavingsWithdraw, WithdrawWorth)
  BY DEF Pays, SavingsWithdraw, WithdrawWorth
<1>5. Pays(crowdfunding_invest_object, InvestWorth)
  BY DEF Pays, crowdfunding_invest_object, InvestWorth, Amount, Holding
<1>6. QED  BY <1>1, <1>2, <1>3, <1>4, <1>5

(* All that the books count of asset s. *)
Books(b, v, c, o, e, w, i, s) ==
  TotalHeld(b, s) + TotalHeld(v, s) + Held(ConvertWorth, c, s) + Held(OrderWorth, o, s)
  + Held(EscrowWorth, e, s) + Held(WithdrawWorth, w, s) + Held(InvestWorth, i, s)

Balanced(b, v, c, o, e, w, i, u) == \A s \in Asset : u[s] = Books(b, v, c, o, e, w, i, s)

(* The totals of the stores, as SupplyConserved has them. *)
LEMMA TotalsAre ==
  ASSUME NEW c, Store(c, convert_request), NEW o, Store(o, limit_order_object),
         NEW e, Store(e, escrow_object), NEW w, Store(w, SavingsWithdraw),
         NEW i, Store(i, crowdfunding_invest_object), NEW s \in Asset
  PROVE  /\ SumFunction([x \in c |-> x.amount[s]]) = Held(ConvertWorth, c, s)
         /\ SumFunction([x \in o |-> ForSale(x)[s]]) = Held(OrderWorth, o, s)
         /\ SumFunction([x \in e |-> InEscrow(x)[s]]) = Held(EscrowWorth, e, s)
         /\ SumFunction([x \in w |-> x.amount[s]]) = Held(WithdrawWorth, w, s)
         /\ SumFunction([x \in i |-> Amount(x.raise, "GBC")[s]]) = Held(InvestWorth, i, s)
<1>1. [x \in c |-> x.amount[s]] = [x \in c |-> ConvertWorth[x][s]]
  BY DEF ConvertWorth, Store
<1>2. [x \in o |-> ForSale(x)[s]] = [x \in o |-> OrderWorth[x][s]]
  BY DEF OrderWorth, Store
<1>3. [x \in e |-> InEscrow(x)[s]] = [x \in e |-> EscrowWorth[x][s]]
  BY DEF EscrowWorth, Store
<1>4. [x \in w |-> x.amount[s]] = [x \in w |-> WithdrawWorth[x][s]]
  BY DEF WithdrawWorth, Store
<1>5. [x \in i |-> Amount(x.raise, "GBC")[s]] = [x \in i |-> InvestWorth[x][s]]
  BY DEF InvestWorth, Store
<1>6. QED  BY <1>1, <1>2, <1>3, <1>4, <1>5 DEF Held

(* The stores are finite sets of the right objects. *)
Stores ==
  /\ Store(converts, convert_request) /\ Store(orders, limit_order_object)
  /\ Store(escrows, escrow_object) /\ Store(withdraws, SavingsWithdraw)
  /\ Store(Raised, crowdfunding_invest_object)

BooksBalanced == Balanced(balance, savings, converts, orders, escrows, withdraws, Raised, supply)

(* SupplyConserved says that the books balance. *)
LEMMA ConservedBalanced == ASSUME Stores PROVE SupplyConserved <=> BooksBalanced
<1>1. ASSUME NEW s \in Asset
      PROVE  Accounted(s) + TotalOf(Raised, LAMBDA i : Amount(i.raise, "GBC"), s) =
             Books(balance, savings, converts, orders, escrows, withdraws, Raised, s)
  BY TotalsAre DEF Stores, Accounted, TotalOf, Books
<1>2. QED  BY <1>1 DEF SupplyConserved, BooksBalanced, Balanced

(* And in the next state. *)
LEMMA ConservedBalancedNext == ASSUME Stores' PROVE SupplyConserved' <=> BooksBalanced'
<1>1. ASSUME NEW s \in Asset
      PROVE  (Accounted(s) + TotalOf(Raised, LAMBDA i : Amount(i.raise, "GBC"), s) =
              Books(balance, savings, converts, orders, escrows, withdraws, Raised, s))'
  BY TotalsAre DEF Stores, Accounted, TotalOf, Books
<1>2. QED  BY <1>1 DEF SupplyConserved, BooksBalanced, Balanced

-----------------------------------------------------------------------------
(* What a step leaves alone *)

(* Savings that are not used stay as they are. *)
LEMMA SavingsKept == ASSUME SavingsInv, UNCHANGED savingsVars PROVE SavingsInv'
BY DEF SavingsInv, savingsVars, RequestsCounted

(* Escrows that are not used stay as they are within a block. *)
LEMMA EscrowsKept == ASSUME EscrowInv, UNCHANGED <<escrows, now>> PROVE EscrowInv'
BY DEF EscrowInv, RatificationEnforced

(* Orders that are not matched stay as they are. *)
LEMMA OrdersKept == ASSUME OrdersInv, UNCHANGED <<orders, next_order>> PROVE OrdersInv'
BY DEF OrdersInv, BookNotCrossed

(* So do conversion requests. *)
LEMMA ConvertsKept == ASSUME ConvertsInv, UNCHANGED <<converts, median>> PROVE ConvertsInv'
BY DEF ConvertsInv

(* So do campaigns within a block, with the money in them. *)
LEMMA CrowdKept == ASSUME CrowdInv, UNCHANGED <<crowdVars, now>> PROVE CrowdInv' /\ Raised' = Raised
<1>1. campaigns' = campaigns /\ invests' = invests /\ last_expire' = last_expire /\ now' = now
  BY DEF crowdVars
<1>2. CampaignsKeyed'
  BY <1>1 DEF CrowdInv, CampaignsKeyed
<1>3. First' = First /\ Raised' = Raised /\ \A c : InvestedIn(c)' = InvestedIn(c)
  BY <1>1 DEF First, Raised, InvestedIn
<1>4. CampaignsCounted'
  BY <1>1, <1>3 DEF CrowdInv, CampaignsCounted, RaisedBy
<1>5. QED  BY <1>1, <1>2, <1>3, <1>4 DEF CrowdInv

(* Operations that do not trade leave no trade. *)
LEMMA NoTrades == ASSUME trades' = <<>> PROVE TradesHonourLimits'
BY DEF TradesHonourLimits

(* The stores of the invariant. *)
LEMMA InvStores == ASSUME IInv PROVE Stores /\ BooksBalanced
<1>1. Store(Raised, crowdfunding_invest_object)
  BY FS_Subset DEF IInv, CrowdInv, Store, Raised
<1>2. Stores
  BY <1>1 DEF IInv, SavingsInv, EscrowInv, OrdersInv, ConvertsInv, Stores
<1>3. QED  BY <1>2, ConservedBalanced DEF IInv

(* The parts make the invariant. *)
LEMMA PartsHold ==
  ASSUME use' \in Uses, AccountsTypeOK', SavingsInv', EscrowInv', OrdersInv', ConvertsInv',
         CrowdInv', BooksBalanced', TradesHonourLimits'
  PROVE  IInv'
<1>1. Store(Raised, crowdfunding_invest_object)'
  BY FS_Subset DEF CrowdInv, Store, Raised
<1>2. Stores'
  BY <1>1 DEF SavingsInv, EscrowInv, OrdersInv, ConvertsInv, Stores
<1>3. SupplyConserved'
  BY <1>2, ConservedBalancedNext
<1>4. QED  BY <1>3 DEF IInv

(* The totals of the invariant are numbers. *)
LEMMA BooksType ==
  ASSUME IInv, NEW s \in Asset
  PROVE  /\ TotalHeld(balance, s) \in Int /\ TotalHeld(savings, s) \in Int
         /\ Held(ConvertWorth, converts, s) \in Nat /\ Held(OrderWorth, orders, s) \in Nat
         /\ Held(EscrowWorth, escrows, s) \in Nat /\ Held(WithdrawWorth, withdraws, s) \in Nat
         /\ Held(InvestWorth, Raised, s) \in Nat /\ supply[s] \in Nat
         /\ supply[s] = Books(balance, savings, converts, orders, escrows, withdraws, Raised, s)
<1>1. Stores /\ BooksBalanced
  BY InvStores
<1>2. TotalHeld(balance, s) \in Int /\ TotalHeld(savings, s) \in Int
  BY CreditHolds, AccountAssumption DEF IInv, AccountsTypeOK
<1>3. /\ Held(ConvertWorth, converts, s) \in Nat /\ Held(OrderWorth, orders, s) \in Nat
      /\ Held(EscrowWorth, escrows, s) \in Nat /\ Held(WithdrawWorth, withdraws, s) \in Nat
      /\ Held(InvestWorth, Raised, s) \in Nat
  BY <1>1, WorthsPay, StoreType DEF Stores
<1>4. supply[s] \in Nat
  BY DEF IInv, AccountsTypeOK, Holding
<1>5. supply[s] = Books(balance, savings, converts, orders, escrows, withdraws, Raised, s)
  BY <1>1 DEF BooksBalanced, Balanced
<1>6. QED  BY <1>2, <1>3, <1>4, <1>5

(* Operations outside the market leave it alone. *)
LEMMA QuietKeeps ==
  ASSUME IInv, Quiet
  PROVE  /\ use' \in Uses /\ OrdersInv' /\ ConvertsInv' /\ TradesHonourLimits'
         /\ orders' = orders /\ converts' = converts
BY OrdersKept, ConvertsKept, NoTrades DEF IInv, Quiet

(* The sums accounts name are holdings. *)
LEMMA NamedHolds == ASSUME use \in Uses, NEW x \in Sum PROVE x \in Holding
BY UsesAssumption DEF Sum, Amount, Holding

-----------------------------------------------------------------------------
(* Transfers and savings *)

(* A transfer keeps the invariant, also to oneself. *)
LEMMA TransfersKeep == ASSUME IInv, Transfers PROVE IInv'
<1>1. PICK from \in Signer, to \in Account, x \in Sum : transfer(from, to, x)
  BY DEF Transfers
<1>2. x \in Holding /\ from \in Account /\ balance \in [Account -> Holding]
  BY NamedHolds DEF IInv, Signer, AccountsTypeOK
<1>3. Quiet /\ UNCHANGED <<savings, supply, now, savingsVars, escrows, crowdVars>>
  BY <1>1 DEF Transfers, transfer
<1>4. /\ use' \in Uses /\ OrdersInv' /\ ConvertsInv' /\ TradesHonourLimits'
      /\ orders' = orders /\ converts' = converts
  BY <1>3, QuietKeeps
<1>5. SavingsInv' /\ EscrowInv' /\ CrowdInv' /\ Raised' = Raised /\ withdraws' = withdraws
  BY <1>3, SavingsKept, EscrowsKept, CrowdKept DEF IInv, savingsVars
<1>6. PICK b : b = Debit(balance, from, x)
  OBVIOUS
<1>7. /\ b \in [Account -> Holding]
      /\ \A s \in Asset : /\ TotalHeld(balance, s) \in Int /\ x[s] \in Nat
                          /\ TotalHeld(b, s) = TotalHeld(balance, s) - x[s]
  BY <1>1, <1>2, <1>6, DebitHolds DEF transfer
<1>8. balance' = Credit(b, to, x)
  BY <1>1, <1>6 DEF transfer
<1>9. /\ balance' \in [Account -> Holding]
      /\ \A s \in Asset : TotalHeld(balance', s) = TotalHeld(b, s) + x[s]
  BY <1>2, <1>7, <1>8, CreditHolds
<1>10. \A s \in Asset : TotalHeld(balance', s) = TotalHeld(balance, s)
  BY <1>7, <1>9
<1>11. BooksBalanced'
  BY <1>3, <1>4, <1>5, <1>10, InvStores DEF BooksBalanced, Balanced, Books
<1>12. AccountsTypeOK'
  BY <1>3, <1>9 DEF IInv, AccountsTypeOK
<1>13. QED  BY <1>4, <1>5, <1>11, <1>12, PartsHold

(* The withdrawals of an account. *)
Requested(W, a) == Cardinality({v \in W : v.from = a})

(* A withdrawal more is counted. *)
LEMMA WithdrawMore ==
  ASSUME NEW W, IsFiniteSet(W), NEW w, w \notin W, NEW a, NEW V, V = W \cup {w}
  PROVE  /\ Requested(W, a) \in Nat
         /\ Requested(V, a) = IF w.from = a THEN Requested(W, a) + 1 ELSE Requested(W, a)
<1>1. PICK A : A = {v \in W : v.from = a}
  OBVIOUS
<1>2. IsFiniteSet(A) /\ Cardinality(A) \in Nat
  BY <1>1, FS_Subset, FS_CardinalityType
<1>3. CASE w.from = a
  <2>1. {v \in V : v.from = a} = A \cup {w} /\ w \notin A
    BY <1>1, <1>3
  <2>2. QED  BY <1>1, <1>2, <1>3, <2>1, FS_AddElement DEF Requested
<1>4. CASE w.from # a
  <2>1. {v \in V : v.from = a} = A
    BY <1>1, <1>4
  <2>2. QED  BY <1>1, <1>2, <1>4, <2>1 DEF Requested
<1>5. QED  BY <1>3, <1>4

(* A withdrawal less is counted. *)
LEMMA WithdrawLess ==
  ASSUME NEW W, IsFiniteSet(W), NEW w \in W, NEW a, NEW V, V = W \ {w}
  PROVE  /\ Requested(W, a) \in Nat
         /\ Requested(V, a) = IF w.from = a THEN Requested(W, a) - 1 ELSE Requested(W, a)
<1>1. PICK A : A = {v \in W : v.from = a}
  OBVIOUS
<1>2. IsFiniteSet(A) /\ Cardinality(A) \in Nat
  BY <1>1, FS_Subset, FS_CardinalityType
<1>3. CASE w.from = a
  <2>1. {v \in V : v.from = a} = A \ {w} /\ w \in A
    BY <1>1, <1>3
  <2>2. Cardinality(A \ {w}) = Cardinality(A) - 1
    BY <1>2, <2>1, FS_RemoveElement
  <2>3. Requested(V, a) = Cardinality(A \ {w}) /\ Requested(W, a) = Cardinality(A)
    BY <1>1, <2>1, Zenon DEF Requested
  <2>4. QED  BY <1>2, <1>3, <2>2, <2>3
<1>4. CASE w.from # a
  <2>1. {v \in V : v.from = a} = A
    BY <1>1, <1>4
  <2>2. QED  BY <1>1, <1>2, <1>4, <2>1 DEF Requested
<1>5. QED  BY <1>3, <1>4

(* Paying into savings keeps the invariant. *)
LEMMA ToSavingsKeeps ==
  ASSUME IInv, Quiet, UNCHANGED <<escrows, crowdVars>>,
         NEW from \in Signer, NEW to \in Account, NEW x \in Sum, transfer_to_savings(from, to, x)
  PROVE  IInv'
<1>1. /\ x \in Holding /\ from \in Account /\ balance \in [Account -> Holding]
      /\ savings \in [Account -> Holding]
  BY NamedHolds DEF IInv, Signer, AccountsTypeOK
<1>2. UNCHANGED <<supply, now, savingsVars>>
  BY DEF transfer_to_savings
<1>3. /\ use' \in Uses /\ OrdersInv' /\ ConvertsInv' /\ TradesHonourLimits'
      /\ orders' = orders /\ converts' = converts
  BY QuietKeeps
<1>4. SavingsInv' /\ EscrowInv' /\ CrowdInv' /\ Raised' = Raised /\ withdraws' = withdraws
  BY <1>2, SavingsKept, EscrowsKept, CrowdKept DEF IInv, savingsVars
<1>5. /\ balance' \in [Account -> Holding]
      /\ \A s \in Asset : /\ TotalHeld(balance, s) \in Int /\ x[s] \in Nat
                          /\ TotalHeld(balance', s) = TotalHeld(balance, s) - x[s]
  BY <1>1, DebitHolds DEF transfer_to_savings
<1>6. /\ savings' \in [Account -> Holding]
      /\ \A s \in Asset : /\ TotalHeld(savings, s) \in Int /\ x[s] \in Nat
                          /\ TotalHeld(savings', s) = TotalHeld(savings, s) + x[s]
  BY <1>1, CreditHolds DEF transfer_to_savings
<1>7. BooksBalanced'
  <2>1. \A s \in Asset : TotalHeld(balance', s) + TotalHeld(savings', s) =
                         TotalHeld(balance, s) + TotalHeld(savings, s)
    BY <1>5, <1>6
  <2>2. QED  BY <1>2, <1>3, <1>4, <2>1, InvStores DEF BooksBalanced, Balanced, Books
<1>8. AccountsTypeOK'
  BY <1>2, <1>5, <1>6 DEF IInv, AccountsTypeOK
<1>9. QED  BY <1>3, <1>4, <1>7, <1>8, PartsHold

(* Asking for money from savings keeps the invariant. *)
LEMMA FromSavingsKeeps ==
  ASSUME IInv, Quiet, UNCHANGED <<escrows, crowdVars>>, NEW from \in Signer, NEW to \in Account,
         NEW x \in Sum, NEW rid \in RequestId, transfer_from_savings(from, to, x, rid)
  PROVE  IInv'
<1>1. x \in Holding /\ from \in Account /\ savings \in [Account -> Holding] /\ now \in Nat
  BY NamedHolds, MaxTimeAssumption DEF IInv, Signer, AccountsTypeOK
<1>2. UNCHANGED <<balance, supply, now>>
  BY DEF transfer_from_savings
<1>3. /\ use' \in Uses /\ OrdersInv' /\ ConvertsInv' /\ TradesHonourLimits'
      /\ orders' = orders /\ converts' = converts
  BY QuietKeeps
<1>4. EscrowInv' /\ CrowdInv' /\ Raised' = Raised
  BY <1>2, EscrowsKept, CrowdKept DEF IInv
<1>5. PICK w : w = [from |-> from, to |-> to, request_id |-> rid, amount |-> x,
                   complete |-> now + WithdrawTime]
  OBVIOUS
<1>6. w \in SavingsWithdraw /\ w \notin withdraws /\ w.from = from /\ WithdrawWorth[w] = x
  BY <1>1, <1>5, SavingsAssumption DEF SavingsWithdraw, transfer_from_savings, WithdrawWorth
<1>7. withdraws' = withdraws \cup {w} /\ requests' = [requests EXCEPT ![from] = @ + 1]
  BY <1>5 DEF transfer_from_savings
<1>8. Store(withdraws, SavingsWithdraw) /\ Pays(SavingsWithdraw, WithdrawWorth)
  BY WorthsPay DEF IInv, SavingsInv
<1>9. Store(withdraws', SavingsWithdraw)
  BY <1>6, <1>7, <1>8, StoreGrows
<1>10. /\ savings' \in [Account -> Holding]
       /\ \A s \in Asset : /\ TotalHeld(savings, s) \in Int /\ x[s] \in Nat
                           /\ TotalHeld(savings', s) = TotalHeld(savings, s) - x[s]
  BY <1>1, DebitHolds DEF transfer_from_savings
<1>11. BooksBalanced'
  <2>1. ASSUME NEW s \in Asset
        PROVE  supply'[s] = Books(balance', savings', converts', orders', escrows', withdraws', Raised', s)
    <3>1. TotalHeld(savings', s) = TotalHeld(savings, s) - x[s] /\ x[s] \in Nat
      BY <1>10
    <3>2. Held(WithdrawWorth, withdraws', s) = Held(WithdrawWorth, withdraws, s) + x[s]
      BY <1>6, <1>7, <1>8, StoreAdd
    <3>3. QED  BY <1>2, <1>3, <1>4, <3>1, <3>2, BooksType DEF Books
  <2>2. QED  BY <2>1 DEF BooksBalanced, Balanced
<1>12. SavingsInv'
  <2>1. requests \in [Account -> Int] /\ RequestsCounted /\ requests[from] < RequestLimit
    BY DEF IInv, SavingsInv, transfer_from_savings
  <2>2. ASSUME NEW a \in Account
        PROVE  requests'[a] = Requested(withdraws', a) /\ requests'[a] <= RequestLimit
    <3>1. /\ Requested(withdraws, a) \in Nat
          /\ Requested(withdraws', a) =
               IF w.from = a THEN Requested(withdraws, a) + 1 ELSE Requested(withdraws, a)
      BY <1>6, <1>7, <1>8, WithdrawMore DEF Store
    <3>2. requests[a] = Requested(withdraws, a) /\ requests[a] <= RequestLimit
      BY <2>1 DEF RequestsCounted, Requested
    <3>3. requests'[a] = IF a = from THEN requests[a] + 1 ELSE requests[a]
      BY <1>1, <1>7, <2>1
    <3>4. CASE a = from
      BY <1>6, <2>1, <3>1, <3>2, <3>3, <3>4, SavingsAssumption
    <3>5. CASE a # from
      BY <1>6, <3>1, <3>2, <3>3, <3>5
    <3>6. QED  BY <3>4, <3>5
  <2>3. requests' \in [Account -> Int]
    BY <1>1, <1>7, <2>1
  <2>4. QED  BY <1>9, <2>2, <2>3 DEF SavingsInv, RequestsCounted, Requested
<1>13. AccountsTypeOK'
  BY <1>2, <1>10 DEF IInv, AccountsTypeOK
<1>14. QED  BY <1>3, <1>4, <1>11, <1>12, <1>13, PartsHold

(* Cancelling a withdrawal keeps the invariant. *)
LEMMA CancelSavingsKeeps ==
  ASSUME IInv, Quiet, UNCHANGED <<escrows, crowdVars>>, NEW w \in withdraws,
         cancel_transfer_from_savings(w)
  PROVE  IInv'
<1>1. Store(withdraws, SavingsWithdraw) /\ savings \in [Account -> Holding]
  BY DEF IInv, SavingsInv, AccountsTypeOK
<1>2. w.amount \in Holding /\ w.from \in Account /\ WithdrawWorth[w] = w.amount
  BY <1>1 DEF Store, SavingsWithdraw, WithdrawWorth
<1>3. /\ UNCHANGED <<balance, supply, now>> /\ withdraws' = withdraws \ {w}
      /\ savings' = Credit(savings, w.from, w.amount)
      /\ requests' = [requests EXCEPT ![w.from] = @ - 1]
  BY DEF cancel_transfer_from_savings
<1>4. /\ use' \in Uses /\ OrdersInv' /\ ConvertsInv' /\ TradesHonourLimits'
      /\ orders' = orders /\ converts' = converts
  BY QuietKeeps
<1>5. EscrowInv' /\ CrowdInv' /\ Raised' = Raised
  BY <1>3, EscrowsKept, CrowdKept DEF IInv
<1>6. Store(withdraws', SavingsWithdraw)
  BY <1>1, <1>3, FS_RemoveElement DEF Store
<1>7. savings' \in [Account -> Holding]
  BY <1>1, <1>2, <1>3, CreditHolds
<1>8. BooksBalanced'
  <2>1. ASSUME NEW s \in Asset
        PROVE  supply'[s] = Books(balance', savings', converts', orders', escrows', withdraws', Raised', s)
    <3>1. TotalHeld(savings', s) = TotalHeld(savings, s) + w.amount[s] /\ w.amount[s] \in Nat
      BY <1>1, <1>2, <1>3, CreditHolds
    <3>2. Held(WithdrawWorth, withdraws', s) = Held(WithdrawWorth, withdraws, s) - w.amount[s]
      BY <1>1, <1>2, <1>3, WorthsPay, StoreRemove
    <3>3. QED  BY <1>3, <1>4, <1>5, <3>1, <3>2, BooksType DEF Books
  <2>2. QED  BY <2>1 DEF BooksBalanced, Balanced
<1>9. SavingsInv'
  <2>1. requests \in [Account -> Int] /\ RequestsCounted
    BY DEF IInv, SavingsInv
  <2>2. ASSUME NEW a \in Account
        PROVE  requests'[a] = Requested(withdraws', a) /\ requests'[a] <= RequestLimit
    <3>1. /\ Requested(withdraws, a) \in Nat
          /\ Requested(withdraws', a) =
               IF w.from = a THEN Requested(withdraws, a) - 1 ELSE Requested(withdraws, a)
      BY <1>1, <1>3, WithdrawLess DEF Store
    <3>2. requests[a] = Requested(withdraws, a) /\ requests[a] <= RequestLimit
      BY <2>1 DEF RequestsCounted, Requested
    <3>3. requests'[a] = IF a = w.from THEN requests[a] - 1 ELSE requests[a]
      BY <1>2, <1>3, <2>1
    <3>4. QED  BY <3>1, <3>2, <3>3, SavingsAssumption
  <2>3. requests' \in [Account -> Int]
    BY <1>2, <1>3, <2>1
  <2>4. QED  BY <1>6, <2>2, <2>3 DEF SavingsInv, RequestsCounted, Requested
<1>10. AccountsTypeOK'
  BY <1>3, <1>7 DEF IInv, AccountsTypeOK
<1>11. QED  BY <1>4, <1>5, <1>8, <1>9, <1>10, PartsHold

(* All that is done with savings keeps the invariant. *)
LEMMA SavingsKeep == ASSUME IInv, UseSavings PROVE IInv'
BY ToSavingsKeeps, FromSavingsKeeps, CancelSavingsKeeps DEF UseSavings

-----------------------------------------------------------------------------
(* Escrow *)

(* An operation that moves money between an account and an escrow. *)
LEMMA EscrowStep ==
  ASSUME IInv, Quiet, UNCHANGED <<savings, supply, now, savingsVars, crowdVars>>,
         balance' \in [Account -> Holding], EscrowInv',
         \A s \in Asset : TotalHeld(balance', s) + Held(EscrowWorth, escrows', s) =
                          TotalHeld(balance, s) + Held(EscrowWorth, escrows, s)
  PROVE  IInv'
<1>1. /\ use' \in Uses /\ OrdersInv' /\ ConvertsInv' /\ TradesHonourLimits'
      /\ orders' = orders /\ converts' = converts
  BY QuietKeeps
<1>2. SavingsInv' /\ CrowdInv' /\ Raised' = Raised /\ withdraws' = withdraws
  BY SavingsKept, CrowdKept DEF IInv, savingsVars
<1>3. BooksBalanced'
  <2>1. ASSUME NEW s \in Asset
        PROVE  supply'[s] = Books(balance', savings', converts', orders', escrows', withdraws', Raised', s)
    <3>1. balance \in [Account -> Holding] /\ Store(escrows', escrow_object)
      BY DEF IInv, AccountsTypeOK, EscrowInv
    <3>2. TotalHeld(balance', s) \in Int
      BY CreditHolds, AccountAssumption
    <3>3. Held(EscrowWorth, escrows', s) \in Nat
      BY <3>1, WorthsPay, StoreType
    <3>4. QED  BY <1>1, <1>2, <3>2, <3>3, BooksType DEF Books
  <2>2. QED  BY <2>1 DEF BooksBalanced, Balanced
<1>4. AccountsTypeOK'
  BY DEF IInv, AccountsTypeOK
<1>5. QED  BY <1>1, <1>2, <1>3, <1>4, PartsHold

(* Ratified escrows owe no fee, and the others have time. *)
Ratified(e) == IF is_approved(e) THEN e.pending_fee = Nothing ELSE now < e.ratification_deadline

(* An escrow in a new state. *)
LEMMA EscrowReplaced ==
  ASSUME IInv, now' = now, NEW e \in escrows, NEW f \in escrow_object,
         f.from = e.from, f.escrow_id = e.escrow_id, Ratified(f), escrows' = Replaced(e, f)
  PROVE  /\ EscrowInv'
         /\ \A s \in Asset :
              /\ InEscrow(e)[s] \in Nat /\ InEscrow(f)[s] \in Nat
              /\ Held(EscrowWorth, escrows, s) \in Nat
              /\ Held(EscrowWorth, escrows', s) =
                 Held(EscrowWorth, escrows, s) - InEscrow(e)[s] + InEscrow(f)[s]
<1>1. EscrowInv /\ Store(escrows, escrow_object) /\ Pays(escrow_object, EscrowWorth)
  BY WorthsPay DEF IInv, EscrowInv
<1>2. f \notin escrows \ {e}
  BY <1>1 DEF EscrowInv
<1>3. e \in escrow_object /\ escrows' = (escrows \ {e}) \cup {f}
  BY <1>1 DEF Store, Replaced
<1>4. EscrowWorth[e] = InEscrow(e) /\ EscrowWorth[f] = InEscrow(f)
  BY <1>3 DEF EscrowWorth
<1>5. ASSUME NEW s \in Asset
      PROVE  /\ Store(escrows', escrow_object)
             /\ InEscrow(e)[s] \in Nat /\ InEscrow(f)[s] \in Nat
             /\ Held(EscrowWorth, escrows, s) \in Nat
             /\ Held(EscrowWorth, escrows', s) =
                Held(EscrowWorth, escrows, s) - InEscrow(e)[s] + InEscrow(f)[s]
  BY <1>1, <1>2, <1>3, <1>4, StoreReplace
<1>6. Store(escrows', escrow_object)
  BY <1>5 DEF Asset
<1>7. RatificationEnforced'
  BY <1>1, <1>3 DEF EscrowInv, RatificationEnforced, Ratified
<1>8. \A g, h \in escrows' : g.from = h.from /\ g.escrow_id = h.escrow_id => g = h
  BY <1>1, <1>3 DEF EscrowInv
<1>9. QED  BY <1>5, <1>6, <1>7, <1>8 DEF EscrowInv

(* An escrow that ends. *)
LEMMA EscrowRemoved ==
  ASSUME IInv, now' = now, NEW e \in escrows, escrows' = escrows \ {e}
  PROVE  /\ EscrowInv'
         /\ \A s \in Asset :
              /\ InEscrow(e)[s] \in Nat /\ Held(EscrowWorth, escrows, s) \in Nat
              /\ Held(EscrowWorth, escrows', s) = Held(EscrowWorth, escrows, s) - InEscrow(e)[s]
<1>1. EscrowInv /\ Store(escrows, escrow_object) /\ Pays(escrow_object, EscrowWorth)
  BY WorthsPay DEF IInv, EscrowInv
<1>2. EscrowWorth[e] = InEscrow(e)
  BY <1>1 DEF EscrowWorth, Store
<1>3. ASSUME NEW s \in Asset
      PROVE  /\ InEscrow(e)[s] \in Nat /\ Held(EscrowWorth, escrows, s) \in Nat
             /\ Held(EscrowWorth, escrows', s) = Held(EscrowWorth, escrows, s) - InEscrow(e)[s]
  BY <1>1, <1>2, StoreRemove
<1>4. Store(escrows', escrow_object)
  BY <1>1, FS_RemoveElement DEF Store
<1>5. RatificationEnforced'
  BY <1>1 DEF EscrowInv, RatificationEnforced
<1>6. QED  BY <1>1, <1>3, <1>4, <1>5 DEF EscrowInv

(* Opening an escrow keeps the invariant. *)
LEMMA EscrowTransferKeeps ==
  ASSUME IInv, Quiet, UNCHANGED <<savingsVars, crowdVars>>,
         NEW from \in Signer, NEW to \in Account, NEW agent \in Signer, NEW id \in EscrowId,
         NEW x \in Sum, NEW fee \in Sum \cup {Nothing}, NEW terms \in EscrowTerms,
         escrow_transfer(from, to, agent, id, x, fee, terms)
  PROVE  IInv'
<1>1. /\ x \in Holding /\ fee \in Holding /\ from \in Account /\ agent \in Account
      /\ balance \in [Account -> Holding] /\ now \in Nat
  BY NamedHolds, MaxTimeAssumption DEF IInv, Signer, AccountsTypeOK, Nothing, Holding
<1>2. Both(x, fee) \in Holding
  BY <1>1 DEF Both, Holding
<1>3. PICK e : e = [from |-> from, to |-> to, agent |-> agent, escrow_id |-> id,
         ratification_deadline |-> now + terms[1], escrow_expiration |-> now + terms[2],
         held |-> x, pending_fee |-> fee, to_approved |-> FALSE,
         agent_approved |-> FALSE, disputed |-> FALSE]
  OBVIOUS
<1>4. terms[1] \in Nat /\ terms[2] \in Nat /\ terms[1] > 0
  BY TermsAssumption
<1>5. e \in escrow_object
  BY <1>1, <1>3, <1>4 DEF escrow_object
<1>6. /\ EscrowWorth[e] = Both(x, fee) /\ e.from = from /\ e.escrow_id = id
      /\ ~is_approved(e) /\ now < e.ratification_deadline
  BY <1>1, <1>3, <1>4, <1>5 DEF EscrowWorth, InEscrow, is_approved
<1>7. /\ escrows' = escrows \cup {e} /\ e \notin escrows /\ UNCHANGED <<savings, supply, now>>
      /\ balance' = Debit(balance, from, Both(x, fee))
      /\ \A f \in escrows : ~(f.from = from /\ f.escrow_id = id)
  BY <1>3, <1>6 DEF escrow_transfer
<1>8. EscrowInv /\ Store(escrows, escrow_object) /\ Pays(escrow_object, EscrowWorth)
  BY WorthsPay DEF IInv, EscrowInv
<1>9. EscrowInv'
  <2>1. Store(escrows', escrow_object)
    BY <1>5, <1>7, <1>8, StoreGrows
  <2>2. RatificationEnforced'
    BY <1>6, <1>7, <1>8 DEF EscrowInv, RatificationEnforced
  <2>3. \A g, h \in escrows' : g.from = h.from /\ g.escrow_id = h.escrow_id => g = h
    BY <1>6, <1>7, <1>8 DEF EscrowInv
  <2>4. QED  BY <2>1, <2>2, <2>3 DEF EscrowInv
<1>10. /\ balance' \in [Account -> Holding]
       /\ \A s \in Asset : /\ TotalHeld(balance, s) \in Int /\ Both(x, fee)[s] \in Nat
                           /\ TotalHeld(balance', s) = TotalHeld(balance, s) - Both(x, fee)[s]
  BY <1>1, <1>2, <1>7, DebitHolds DEF escrow_transfer
<1>11. ASSUME NEW s \in Asset
       PROVE  TotalHeld(balance', s) + Held(EscrowWorth, escrows', s) =
              TotalHeld(balance, s) + Held(EscrowWorth, escrows, s)
  <2>1. /\ Held(EscrowWorth, escrows, s) \in Nat /\ EscrowWorth[e][s] \in Nat
        /\ Held(EscrowWorth, escrows', s) = Held(EscrowWorth, escrows, s) + EscrowWorth[e][s]
    BY <1>5, <1>7, <1>8, StoreAdd
  <2>2. QED  BY <1>6, <1>10, <2>1
<1>12. QED  BY <1>7, <1>9, <1>10, <1>11, EscrowStep

(* Approving keeps the invariant: the later approval pays the fee. *)
LEMMA EscrowApproveKeeps ==
  ASSUME IInv, Quiet, UNCHANGED <<savingsVars, crowdVars>>,
         NEW e \in escrows, NEW who, escrow_approve(e, who)
  PROVE  IInv'
<1>1. e \in escrow_object /\ balance \in [Account -> Holding] /\ Ratified(e)
  BY DEF IInv, EscrowInv, Store, AccountsTypeOK, RatificationEnforced, Ratified
<1>2. PICK f : f = [e EXCEPT !.to_approved = @ \/ who = e.to, !.agent_approved = @ \/ who = e.agent]
  OBVIOUS
<1>3. UNCHANGED <<savings, supply, now>>
  BY DEF escrow_approve
<1>4. /\ e.agent \in Account /\ e.pending_fee \in Holding /\ e.held \in Holding
      /\ e.to_approved \in BOOLEAN /\ e.agent_approved \in BOOLEAN
  BY <1>1 DEF escrow_object
<1>5. f \in escrow_object
  BY <1>1, <1>2 DEF escrow_object
<1>6. /\ f.from = e.from /\ f.escrow_id = e.escrow_id /\ f.held = e.held
      /\ f.pending_fee = e.pending_fee /\ f.ratification_deadline = e.ratification_deadline
  BY <1>1, <1>2 DEF escrow_object
<1>7. ~is_approved(e)
  BY DEF escrow_approve, is_approved
<1>8. CASE is_approved(f)
  <2>1. PICK g : g = [f EXCEPT !.pending_fee = Nothing]
    OBVIOUS
  <2>2. /\ balance' = Credit(balance, e.agent, e.pending_fee)
        /\ escrows' = Replaced(e, g)
    BY <1>2, <1>8, <2>1 DEF escrow_approve
  <2>3. Nothing \in Holding /\ \A s \in Asset : Nothing[s] = 0
    BY DEF Nothing, Holding
  <2>4. g \in escrow_object /\ g.from = e.from /\ g.escrow_id = e.escrow_id
    BY <1>5, <1>6, <2>1, <2>3 DEF escrow_object
  <2>5. is_approved(g) /\ g.pending_fee = Nothing /\ g.held = e.held
    BY <1>5, <1>6, <1>8, <2>1 DEF escrow_object, is_approved
  <2>6. Ratified(g)
    BY <2>5 DEF Ratified
  <2>7. /\ EscrowInv'
        /\ \A s \in Asset :
             /\ InEscrow(e)[s] \in Nat /\ InEscrow(g)[s] \in Nat
             /\ Held(EscrowWorth, escrows, s) \in Nat
             /\ Held(EscrowWorth, escrows', s) =
                Held(EscrowWorth, escrows, s) - InEscrow(e)[s] + InEscrow(g)[s]
    BY <1>3, <2>2, <2>4, <2>6, EscrowReplaced
  <2>8. /\ balance' \in [Account -> Holding]
        /\ \A s \in Asset : /\ TotalHeld(balance, s) \in Int /\ e.pending_fee[s] \in Nat
                            /\ TotalHeld(balance', s) = TotalHeld(balance, s) + e.pending_fee[s]
    BY <1>1, <1>4, <2>2, CreditHolds
  <2>9. ASSUME NEW s \in Asset
        PROVE  TotalHeld(balance', s) + Held(EscrowWorth, escrows', s) =
               TotalHeld(balance, s) + Held(EscrowWorth, escrows, s)
    <3>1. InEscrow(e)[s] = e.held[s] + e.pending_fee[s] /\ InEscrow(g)[s] = e.held[s] + 0
      BY <2>3, <2>5 DEF InEscrow, Both
    <3>2. e.held[s] \in Nat
      BY <1>4 DEF Holding
    <3>3. QED  BY <2>7, <2>8, <3>1, <3>2
  <2>10. QED  BY <1>3, <2>7, <2>8, <2>9, EscrowStep
<1>9. CASE ~is_approved(f)
  <2>1. balance' = balance /\ escrows' = Replaced(e, f)
    BY <1>2, <1>9 DEF escrow_approve
  <2>2. Ratified(f)
    BY <1>1, <1>6, <1>7, <1>9 DEF Ratified
  <2>3. InEscrow(e) = InEscrow(f)
    BY <1>6 DEF InEscrow
  <2>4. /\ EscrowInv'
        /\ \A s \in Asset :
             /\ InEscrow(e)[s] \in Nat /\ InEscrow(f)[s] \in Nat
             /\ Held(EscrowWorth, escrows, s) \in Nat
             /\ Held(EscrowWorth, escrows', s) =
                Held(EscrowWorth, escrows, s) - InEscrow(e)[s] + InEscrow(f)[s]
    BY <1>3, <1>5, <1>6, <2>1, <2>2, EscrowReplaced
  <2>5. \A s \in Asset : Held(EscrowWorth, escrows', s) = Held(EscrowWorth, escrows, s)
    BY <2>3, <2>4
  <2>6. QED  BY <1>1, <1>3, <2>1, <2>4, <2>5, EscrowStep
<1>10. QED  BY <1>8, <1>9

(* Rejecting keeps the invariant: everything goes back. *)
LEMMA EscrowRejectKeeps ==
  ASSUME IInv, Quiet, UNCHANGED <<savingsVars, crowdVars>>,
         NEW e \in escrows, NEW who, escrow_reject(e, who)
  PROVE  IInv'
<1>1. e \in escrow_object /\ balance \in [Account -> Holding]
  BY DEF IInv, EscrowInv, Store, AccountsTypeOK
<1>2. e.from \in Account /\ InEscrow(e) \in Holding
  BY <1>1 DEF escrow_object, InEscrow, Both, Holding
<1>3. /\ UNCHANGED <<savings, supply, now>> /\ escrows' = escrows \ {e}
      /\ balance' = Credit(balance, e.from, InEscrow(e))
  BY DEF escrow_reject
<1>4. /\ EscrowInv'
      /\ \A s \in Asset :
           /\ InEscrow(e)[s] \in Nat /\ Held(EscrowWorth, escrows, s) \in Nat
           /\ Held(EscrowWorth, escrows', s) = Held(EscrowWorth, escrows, s) - InEscrow(e)[s]
  BY <1>3, EscrowRemoved
<1>5. /\ balance' \in [Account -> Holding]
      /\ \A s \in Asset : /\ TotalHeld(balance, s) \in Int
                          /\ TotalHeld(balance', s) = TotalHeld(balance, s) + InEscrow(e)[s]
  BY <1>1, <1>2, <1>3, CreditHolds
<1>6. \A s \in Asset : TotalHeld(balance', s) + Held(EscrowWorth, escrows', s) =
                       TotalHeld(balance, s) + Held(EscrowWorth, escrows, s)
  BY <1>4, <1>5
<1>7. QED  BY <1>3, <1>4, <1>5, <1>6, EscrowStep

(* Disputing keeps the invariant. *)
LEMMA EscrowDisputeKeeps ==
  ASSUME IInv, Quiet, UNCHANGED <<savingsVars, crowdVars>>,
         NEW e \in escrows, escrow_dispute(e)
  PROVE  IInv'
<1>1. e \in escrow_object /\ balance \in [Account -> Holding] /\ Ratified(e)
  BY DEF IInv, EscrowInv, Store, AccountsTypeOK, RatificationEnforced, Ratified
<1>2. PICK f : f = [e EXCEPT !.disputed = TRUE]
  OBVIOUS
<1>3. UNCHANGED <<balance, savings, supply, now>> /\ escrows' = Replaced(e, f)
  BY <1>2 DEF escrow_dispute, accounts
<1>4. f \in escrow_object /\ f.from = e.from /\ f.escrow_id = e.escrow_id
  BY <1>1, <1>2 DEF escrow_object
<1>5. Ratified(f) /\ InEscrow(f) = InEscrow(e)
  BY <1>1, <1>2 DEF escrow_object, Ratified, is_approved, InEscrow
<1>6. /\ EscrowInv'
      /\ \A s \in Asset :
           /\ InEscrow(e)[s] \in Nat /\ InEscrow(f)[s] \in Nat
           /\ Held(EscrowWorth, escrows, s) \in Nat
           /\ Held(EscrowWorth, escrows', s) =
              Held(EscrowWorth, escrows, s) - InEscrow(e)[s] + InEscrow(f)[s]
  BY <1>3, <1>4, <1>5, EscrowReplaced
<1>7. \A s \in Asset : Held(EscrowWorth, escrows', s) = Held(EscrowWorth, escrows, s)
  BY <1>5, <1>6
<1>8. QED  BY <1>1, <1>3, <1>6, <1>7, EscrowStep

(* Releasing all or part keeps the invariant. *)
LEMMA EscrowReleaseKeeps ==
  ASSUME IInv, Quiet, UNCHANGED <<savingsVars, crowdVars>>,
         NEW e \in escrows, NEW who, NEW receiver \in Account, NEW x \in Sum,
         escrow_release(e, who, receiver, x)
  PROVE  IInv'
<1>1. e \in escrow_object /\ balance \in [Account -> Holding] /\ Ratified(e) /\ x \in Holding
  BY NamedHolds DEF IInv, EscrowInv, Store, AccountsTypeOK, RatificationEnforced, Ratified
<1>2. /\ UNCHANGED <<savings, supply, now>> /\ balance' = Credit(balance, receiver, x)
      /\ is_approved(e) /\ Covers(e.held, x)
  BY DEF escrow_release
<1>3. e.pending_fee = Nothing /\ e.held \in Holding
  BY <1>1, <1>2 DEF Ratified, escrow_object
<1>4. /\ balance' \in [Account -> Holding]
      /\ \A s \in Asset : /\ TotalHeld(balance, s) \in Int /\ x[s] \in Nat
                          /\ TotalHeld(balance', s) = TotalHeld(balance, s) + x[s]
  BY <1>1, <1>2, CreditHolds
<1>5. \A s \in Asset : InEscrow(e)[s] = e.held[s] + 0 /\ e.held[s] \in Nat
  BY <1>3 DEF InEscrow, Both, Nothing, Holding
<1>6. CASE e.held = x
  <2>1. escrows' = escrows \ {e}
    BY <1>6 DEF escrow_release
  <2>2. /\ EscrowInv'
        /\ \A s \in Asset :
             /\ InEscrow(e)[s] \in Nat /\ Held(EscrowWorth, escrows, s) \in Nat
             /\ Held(EscrowWorth, escrows', s) = Held(EscrowWorth, escrows, s) - InEscrow(e)[s]
    BY <1>2, <2>1, EscrowRemoved
  <2>3. \A s \in Asset : TotalHeld(balance', s) + Held(EscrowWorth, escrows', s) =
                         TotalHeld(balance, s) + Held(EscrowWorth, escrows, s)
    BY <1>4, <1>5, <1>6, <2>2
  <2>4. QED  BY <1>2, <1>4, <2>2, <2>3, EscrowStep
<1>7. CASE e.held # x
  <2>1. PICK f : f = [e EXCEPT !.held = Less(@, x)]
    OBVIOUS
  <2>2. escrows' = Replaced(e, f)
    BY <1>7, <2>1 DEF escrow_release
  <2>3. Less(e.held, x) \in Holding /\ \A s \in Asset : Less(e.held, x)[s] = e.held[s] - x[s]
    BY <1>1, <1>2, <1>3 DEF Less, Holding, Covers
  <2>4. /\ f \in escrow_object /\ f.from = e.from /\ f.escrow_id = e.escrow_id
        /\ f.held = Less(e.held, x) /\ f.pending_fee = Nothing /\ is_approved(f)
    BY <1>1, <1>2, <1>3, <2>1, <2>3 DEF escrow_object, is_approved
  <2>5. Ratified(f)
    BY <2>4 DEF Ratified
  <2>6. \A s \in Asset : InEscrow(f)[s] = e.held[s] - x[s] + 0
    BY <2>3, <2>4 DEF InEscrow, Both, Nothing
  <2>7. /\ EscrowInv'
        /\ \A s \in Asset :
             /\ InEscrow(e)[s] \in Nat /\ InEscrow(f)[s] \in Nat
             /\ Held(EscrowWorth, escrows, s) \in Nat
             /\ Held(EscrowWorth, escrows', s) =
                Held(EscrowWorth, escrows, s) - InEscrow(e)[s] + InEscrow(f)[s]
    BY <1>2, <2>2, <2>4, <2>5, EscrowReplaced
  <2>8. \A s \in Asset : TotalHeld(balance', s) + Held(EscrowWorth, escrows', s) =
                         TotalHeld(balance, s) + Held(EscrowWorth, escrows, s)
    BY <1>4, <1>5, <2>6, <2>7
  <2>9. QED  BY <1>2, <1>4, <2>7, <2>8, EscrowStep
<1>8. QED  BY <1>6, <1>7

(* All that is done with escrows keeps the invariant. *)
LEMMA EscrowKeeps == ASSUME IInv, UseEscrow PROVE IInv'
BY EscrowTransferKeeps, EscrowApproveKeeps, EscrowRejectKeeps, EscrowDisputeKeeps,
   EscrowReleaseKeeps DEF UseEscrow

-----------------------------------------------------------------------------
(* Conversion *)

(* Asking for a conversion keeps the invariant. *)
LEMMA ConversionKeeps == ASSUME IInv, UseConversion PROVE IInv'
<1>1. PICK a \in Signer, x \in use.amounts, rid \in RequestNo : convert(a, x, rid)
  BY DEF UseConversion
<1>2. PICK y : y = Amount(x, "GBD")
  OBVIOUS
<1>3. /\ y \in Holding /\ a \in Account /\ balance \in [Account -> Holding] /\ now \in Nat
      /\ use \in Uses
  BY <1>2, UsesAssumption, MaxTimeAssumption DEF IInv, Signer, AccountsTypeOK, Amount, Holding
<1>4. PICK c : c = [owner |-> a, requestid |-> rid, amount |-> y, date |-> now + ConversionDelay]
  OBVIOUS
<1>5. /\ balance' = Debit(balance, a, y) /\ Covers(balance[a], y)
      /\ converts' = converts \cup {c} /\ trades' = <<>>
      /\ UNCHANGED <<savings, supply, now, orders, next_order, median>>
      /\ UNCHANGED <<savingsVars, escrows, crowdVars, use>>
      /\ ~\E d \in converts : d.owner = a /\ d.requestid = rid
  BY <1>1, <1>2, <1>4 DEF convert, UseConversion
<1>6. c \in convert_request /\ c \notin converts /\ ConvertWorth[c] = y
  BY <1>3, <1>4, <1>5, MarketAssumption DEF convert_request, ConvertWorth
<1>7. Store(converts, convert_request) /\ Pays(convert_request, ConvertWorth)
  BY WorthsPay DEF IInv, ConvertsInv
<1>8. ConvertsInv'
  <2>1. Store(converts', convert_request)
    BY <1>5, <1>6, <1>7, StoreGrows
  <2>2. QED  BY <1>5, <2>1 DEF IInv, ConvertsInv
<1>9. /\ SavingsInv' /\ EscrowInv' /\ CrowdInv' /\ Raised' = Raised /\ withdraws' = withdraws
      /\ OrdersInv' /\ TradesHonourLimits'
  BY <1>5, SavingsKept, EscrowsKept, CrowdKept, OrdersKept, NoTrades DEF IInv, savingsVars
<1>10. /\ balance' \in [Account -> Holding]
       /\ \A s \in Asset : /\ TotalHeld(balance, s) \in Int /\ y[s] \in Nat
                           /\ TotalHeld(balance', s) = TotalHeld(balance, s) - y[s]
  BY <1>3, <1>5, DebitHolds
<1>11. BooksBalanced'
  <2>1. ASSUME NEW s \in Asset
        PROVE  supply'[s] = Books(balance', savings', converts', orders', escrows', withdraws', Raised', s)
    <3>1. TotalHeld(balance', s) = TotalHeld(balance, s) - y[s] /\ y[s] \in Nat
      BY <1>10
    <3>2. Held(ConvertWorth, converts', s) = Held(ConvertWorth, converts, s) + y[s]
      BY <1>5, <1>6, <1>7, StoreAdd
    <3>3. /\ TotalHeld(balance, s) \in Int /\ TotalHeld(savings, s) \in Int
          /\ Held(ConvertWorth, converts, s) \in Nat /\ Held(OrderWorth, orders, s) \in Nat
          /\ Held(EscrowWorth, escrows, s) \in Nat /\ Held(WithdrawWorth, withdraws, s) \in Nat
          /\ Held(InvestWorth, Raised, s) \in Nat
          /\ supply[s] = Books(balance, savings, converts, orders, escrows, withdraws, Raised, s)
      BY BooksType
    <3>4. /\ savings' = savings /\ orders' = orders /\ escrows' = escrows /\ withdraws' = withdraws
          /\ Raised' = Raised /\ supply' = supply
      BY <1>5, <1>9
    <3>5. QED  BY <3>1, <3>2, <3>3, <3>4 DEF Books
  <2>2. QED  BY <2>1 DEF BooksBalanced, Balanced
<1>12. AccountsTypeOK'
  BY <1>5, <1>10 DEF IInv, AccountsTypeOK
<1>13. QED  BY <1>3, <1>5, <1>8, <1>9, <1>11, <1>12, PartsHold

-----------------------------------------------------------------------------
(* Crowdfunding *)

(* An operation that moves money between an account and a campaign. *)
LEMMA CrowdStep ==
  ASSUME IInv, Quiet, UNCHANGED <<savings, supply, now, savingsVars, escrows>>,
         balance' \in [Account -> Holding], CrowdInv',
         \A s \in Asset : TotalHeld(balance', s) + Held(InvestWorth, Raised', s) =
                          TotalHeld(balance, s) + Held(InvestWorth, Raised, s)
  PROVE  IInv'
<1>1. /\ use' \in Uses /\ OrdersInv' /\ ConvertsInv' /\ TradesHonourLimits'
      /\ orders' = orders /\ converts' = converts
  BY QuietKeeps
<1>2. SavingsInv' /\ EscrowInv' /\ withdraws' = withdraws
  BY SavingsKept, EscrowsKept DEF IInv, savingsVars
<1>3. BooksBalanced'
  <2>1. Store(Raised', crowdfunding_invest_object)
    BY FS_Subset DEF CrowdInv, Store, Raised
  <2>2. ASSUME NEW s \in Asset
        PROVE  supply'[s] = Books(balance', savings', converts', orders', escrows', withdraws', Raised', s)
    <3>1. TotalHeld(balance', s) \in Int
      BY CreditHolds, AccountAssumption
    <3>2. Held(InvestWorth, Raised', s) \in Nat
      BY <2>1, WorthsPay, StoreType
    <3>3. QED  BY <1>1, <1>2, <3>1, <3>2, BooksType DEF Books
  <2>3. QED  BY <2>2 DEF BooksBalanced, Balanced
<1>4. AccountsTypeOK'
  BY DEF IInv, AccountsTypeOK
<1>5. QED  BY <1>1, <1>2, <1>3, <1>4, PartsHold

(* Investments are worth what they raise, in GBC. *)
LEMMA RaisedWorth ==
  ASSUME NEW S, Store(S, crowdfunding_invest_object)
  PROVE  /\ Held(InvestWorth, S, "GBC") = RaisedBy(S) /\ RaisedBy(S) \in Nat
         /\ Held(InvestWorth, S, "GBD") = 0
<1>1. [i \in S |-> InvestWorth[i]["GBC"]] = [i \in S |-> i.raise]
  BY DEF InvestWorth, Store, Amount, Asset
<1>2. Held(InvestWorth, S, "GBC") = RaisedBy(S)
  BY <1>1 DEF Held, RaisedBy
<1>3. RaisedBy(S) \in Nat
  <2>1. "GBC" \in Asset
    BY DEF Asset
  <2>2. Held(InvestWorth, S, "GBC") \in Nat
    BY <2>1, WorthsPay, StoreType
  <2>3. QED  BY <1>2, <2>2
<1>4. Held(InvestWorth, S, "GBD") = 0
  <2>1. PICK f : f = [i \in S |-> InvestWorth[i]["GBD"]]
    OBVIOUS
  <2>2. IsFiniteSet(S) /\ (\A i \in S : f[i] \in Int) /\ (\A i \in S : f[i] = 0)
    BY <2>1 DEF InvestWorth, Store, Amount, Asset
  <2>3. SumFunctionOnSet(f, S) = 0
    BY <2>2, SumType
  <2>4. QED  BY <2>1, <2>3 DEF Held, SumFunction
<1>5. QED  BY <1>2, <1>3, <1>4

(* Opening a campaign keeps the invariant. *)
LEMMA CampaignKeeps ==
  ASSUME IInv, Quiet, UNCHANGED <<savingsVars, escrows>>,
         NEW a \in Signer, NEW p \in Permlink, NEW goal \in use.amounts, crowdfunding(a, p, goal)
  PROVE  IInv'
<1>1. a \in Account /\ goal \in Nat /\ balance \in [Account -> Holding] /\ now \in Nat
  BY UsesAssumption, MaxTimeAssumption DEF IInv, Signer, AccountsTypeOK
<1>2. PICK c : c = [originator |-> a, permlink |-> p, expire |-> now + CampaignLife,
                   total_raise_value |-> goal, curator_raise_value |-> 0, finish |-> 0]
  OBVIOUS
<1>3. /\ c \in crowdfunding_object /\ c.originator = a /\ c.permlink = p
      /\ c.expire = now + CampaignLife /\ c.finish = 0 /\ c.curator_raise_value = 0
  BY <1>1, <1>2, CampaignAssumption DEF crowdfunding_object
<1>4. /\ campaigns' = campaigns \cup {c} /\ UNCHANGED <<balance, savings, supply, now, invests>>
      /\ \A d \in campaigns : ~(d.originator = a /\ d.permlink = p)
      /\ last_expire' = [last_expire EXCEPT ![a] = now + CampaignLife]
  BY <1>2 DEF crowdfunding, accounts
<1>5. CrowdInv /\ CampaignsKeyed /\ CampaignsCounted
  BY DEF IInv, CrowdInv
<1>6. \A i \in invests : ~Invested(i, c)
  BY <1>3, <1>4, <1>5 DEF CampaignsKeyed, Invested
<1>7. Raised' = Raised
  BY <1>4, <1>6 DEF Raised
<1>8. CrowdInv'
  <2>1. Store(campaigns', crowdfunding_object) /\ Store(invests', crowdfunding_invest_object)
    BY <1>3, <1>4, <1>5, StoreGrows DEF CrowdInv
  <2>2. last_expire' \in [Account -> Int]
    BY <1>1, <1>4, <1>5, CampaignAssumption DEF CrowdInv
  <2>3. CampaignsKeyed'
    <3>1. \A d, e \in campaigns' : d.originator = e.originator /\ d.permlink = e.permlink => d = e
      BY <1>3, <1>4, <1>5 DEF CampaignsKeyed
    <3>2. \A i \in invests' : \E d \in campaigns' : Invested(i, d) /\ i.expire = d.expire
      BY <1>4, <1>5 DEF CampaignsKeyed
    <3>3. \A d \in campaigns' : d.finish # 0 => d.expire <= now'
      BY <1>3, <1>4, <1>5 DEF CampaignsKeyed
    <3>4. QED  BY <3>1, <3>2, <3>3 DEF CampaignsKeyed
  <2>4. CampaignsCounted'
    <3>1. CASE \A d \in campaigns : d.finish = 0 /\ d.curator_raise_value = RaisedBy(InvestedIn(d))
      <4>1. \A d : InvestedIn(d)' = InvestedIn(d)
        BY <1>4 DEF InvestedIn
      <4>2. InvestedIn(c) = {}
        BY <1>6 DEF InvestedIn
      <4>3. RaisedBy({}) = 0
        <5>1. Store({}, crowdfunding_invest_object)
          BY FS_EmptySet DEF Store
        <5>2. QED  BY <5>1, RaisedWorth, StoreNone DEF Asset
      <4>4. \A d \in campaigns' : d.finish = 0 /\ d.curator_raise_value = RaisedBy(InvestedIn(d)')
        BY <1>3, <1>4, <3>1, <4>1, <4>2, <4>3
      <4>5. QED  BY <4>4 DEF CampaignsCounted, RaisedBy
    <3>2. CASE \E d \in First : d.finish # 0
      <4>1. PICK d \in First : d.finish # 0
        BY <3>2
      <4>2. d \in campaigns /\ \A e \in campaigns \ {d} : Before(d, e)
        BY <4>1 DEF First
      <4>3. d.expire <= now /\ d.expire \in Nat
        BY <1>5, <4>1, <4>2 DEF CampaignsKeyed, CrowdInv, Store, crowdfunding_object
      <4>4. Before(d, c)
        BY <1>1, <1>3, <4>3, CampaignAssumption DEF Before
      <4>5. d \in First'
        BY <1>4, <4>2, <4>4 DEF First
      <4>6. QED  BY <4>1, <4>5 DEF CampaignsCounted
    <3>3. QED  BY <1>5, <3>1, <3>2 DEF CampaignsCounted
  <2>5. QED  BY <2>1, <2>2, <2>3, <2>4 DEF CrowdInv
<1>9. QED  BY <1>1, <1>4, <1>7, <1>8, CrowdStep

(* Investing keeps the invariant. *)
LEMMA InvestKeeps ==
  ASSUME IInv, Quiet, UNCHANGED <<savingsVars, escrows>>,
         NEW a \in Signer, NEW c \in campaigns, NEW n \in use.amounts, invest(a, c, n)
  PROVE  IInv'
<1>1. a \in Account /\ n \in Nat /\ balance \in [Account -> Holding] /\ now \in Nat
  BY UsesAssumption, MaxTimeAssumption DEF IInv, Signer, AccountsTypeOK
<1>2. PICK mine : mine = {i \in invests : Invested(i, c) /\ i.invester = a}
  OBVIOUS
<1>3. PICK new : new = [invester |-> a, originator |-> c.originator, permlink |-> c.permlink,
                       expire |-> c.expire, raise |-> RaisedBy(mine) + n]
  OBVIOUS
<1>4. PICK d : d = [c EXCEPT !.curator_raise_value = @ + n]
  OBVIOUS
<1>5. /\ now < c.expire /\ balance[a]["GBC"] >= n
      /\ balance' = Debit(balance, a, Amount(n, "GBC"))
      /\ campaigns' = (campaigns \ {c}) \cup {d} /\ invests' = (invests \ mine) \cup {new}
      /\ UNCHANGED <<savings, supply, now, last_expire>>
  BY <1>2, <1>3, <1>4 DEF invest, RaisedBy
<1>6. CrowdInv /\ CampaignsKeyed /\ CampaignsCounted /\ Store(invests, crowdfunding_invest_object)
      /\ Store(campaigns, crowdfunding_object) /\ last_expire \in [Account -> Int]
  BY DEF IInv, CrowdInv
<1>7. /\ c.originator \in Account /\ c.permlink \in Permlink /\ c.expire \in Nat
      /\ c.curator_raise_value \in Nat /\ c \in crowdfunding_object
  BY <1>6 DEF Store, crowdfunding_object
<1>8. c.finish = 0
  BY <1>1, <1>5, <1>6, <1>7 DEF CampaignsKeyed
<1>9. /\ d \in crowdfunding_object /\ d.originator = c.originator /\ d.permlink = c.permlink
      /\ d.expire = c.expire /\ d.finish = 0 /\ d.curator_raise_value = c.curator_raise_value + n
  BY <1>1, <1>4, <1>7, <1>8 DEF crowdfunding_object
<1>10. Store(mine, crowdfunding_invest_object) /\ RaisedBy(mine) \in Nat
  <2>1. Store(mine, crowdfunding_invest_object)
    BY <1>2, <1>6, FS_Subset DEF Store
  <2>2. QED  BY <2>1, RaisedWorth
<1>11. new \in crowdfunding_invest_object
  BY <1>1, <1>3, <1>7, <1>10 DEF crowdfunding_invest_object
<1>12. /\ new.invester = a /\ new.originator = c.originator /\ new.permlink = c.permlink
       /\ new.expire = c.expire /\ new.raise = RaisedBy(mine) + n
       /\ Invested(new, c) /\ new \notin invests \ mine
       /\ \A e : Invested(new, e) <=> (e.originator = c.originator /\ e.permlink = c.permlink)
  BY <1>2, <1>3 DEF Invested
<1>13. /\ \A i : Invested(i, d) <=> Invested(i, c)
       /\ \A e \in campaigns : (e.originator = c.originator /\ e.permlink = c.permlink) => e = c
  BY <1>6, <1>9 DEF Invested, CampaignsKeyed
<1>14. ASSUME NEW S, mine \subseteq S, S \subseteq invests, NEW R, R = (S \ mine) \cup {new}
       PROVE  /\ Store(R, crowdfunding_invest_object) /\ RaisedBy(S) \in Nat
              /\ RaisedBy(R) = RaisedBy(S) + n
  <2>1. PICK D : D = S \ mine
    OBVIOUS
  <2>2. Store(S, crowdfunding_invest_object)
    BY <1>6, <1>14, FS_Subset DEF Store
  <2>3. "GBC" \in Asset /\ Pays(crowdfunding_invest_object, InvestWorth)
    BY WorthsPay DEF Asset
  <2>4. /\ Store(D, crowdfunding_invest_object)
        /\ Held(InvestWorth, D, "GBC") = Held(InvestWorth, S, "GBC") - Held(InvestWorth, mine, "GBC")
    BY <1>14, <2>1, <2>2, <2>3, StoreMinus
  <2>5. R = D \cup {new} /\ new \notin D
    BY <1>12, <1>14, <2>1
  <2>6. Store(R, crowdfunding_invest_object)
    BY <1>11, <2>4, <2>5, StoreGrows
  <2>7. Held(InvestWorth, R, "GBC") = Held(InvestWorth, D, "GBC") + InvestWorth[new]["GBC"]
    BY <1>11, <2>3, <2>4, <2>5, StoreAdd
  <2>8. InvestWorth[new]["GBC"] = RaisedBy(mine) + n
    BY <1>11, <1>12, <2>3 DEF InvestWorth, Amount
  <2>9. /\ Held(InvestWorth, S, "GBC") = RaisedBy(S) /\ RaisedBy(S) \in Nat
        /\ Held(InvestWorth, R, "GBC") = RaisedBy(R) /\ Held(InvestWorth, mine, "GBC") = RaisedBy(mine)
    BY <1>10, <2>2, <2>6, RaisedWorth
  <2>10. QED  BY <1>1, <1>10, <2>4, <2>6, <2>7, <2>8, <2>9
<1>15. mine \subseteq Raised /\ Raised \subseteq invests /\ Raised' = (Raised \ mine) \cup {new}
  <2>1. mine \subseteq Raised /\ Raised \subseteq invests
    BY <1>2, <1>8 DEF Raised
  <2>2. ASSUME NEW i \in Raised \ mine PROVE i \in Raised'
    BY <1>5, <1>9, <1>13 DEF Raised
  <2>3. new \in Raised'
    BY <1>5, <1>9, <1>12, <1>13 DEF Raised
  <2>4. ASSUME NEW i \in Raised' PROVE i \in (Raised \ mine) \cup {new}
    BY <1>5, <1>8, <1>13 DEF Raised
  <2>5. QED  BY <2>1, <2>2, <2>3, <2>4
<1>16. CrowdInv'
  <2>1. Store(invests', crowdfunding_invest_object)
    BY <1>2, <1>5, <1>14
  <2>2. Store(campaigns', crowdfunding_object)
    <3>1. IsFiniteSet(campaigns \ {c})
      BY <1>6, FS_RemoveElement DEF Store
    <3>2. IsFiniteSet(campaigns')
      BY <1>5, <3>1, FS_AddElement
    <3>3. QED  BY <1>5, <1>6, <1>9, <3>2 DEF Store
  <2>3. CampaignsKeyed'
    <3>1. \A e, f \in campaigns' : e.originator = f.originator /\ e.permlink = f.permlink => e = f
      BY <1>5, <1>6, <1>9 DEF CampaignsKeyed
    <3>2. ASSUME NEW i \in invests' PROVE \E e \in campaigns' : Invested(i, e) /\ i.expire = e.expire
      <4>1. CASE i = new
        BY <1>5, <1>9, <1>12, <1>13, <4>1
      <4>2. CASE i # new
        <5>1. PICK e \in campaigns : Invested(i, e) /\ i.expire = e.expire
          BY <1>5, <1>6, <4>2 DEF CampaignsKeyed
        <5>2. CASE e = c
          BY <1>5, <1>9, <1>13, <5>1, <5>2
        <5>3. CASE e # c
          BY <1>5, <5>1, <5>3
        <5>4. QED  BY <5>2, <5>3
      <4>3. QED  BY <4>1, <4>2
    <3>3. \A e \in campaigns' : e.finish # 0 => e.expire <= now'
      BY <1>5, <1>6, <1>9 DEF CampaignsKeyed
    <3>4. QED  BY <3>1, <3>2, <3>3 DEF CampaignsKeyed
  <2>4. CampaignsCounted'
    <3>1. CASE \A e \in campaigns : e.finish = 0 /\ e.curator_raise_value = RaisedBy(InvestedIn(e))
      <4>1. mine \subseteq InvestedIn(c) /\ InvestedIn(c) \subseteq invests
        BY <1>2 DEF InvestedIn
      <4>2. InvestedIn(d)' = (InvestedIn(c) \ mine) \cup {new}
        BY <1>5, <1>12, <1>13 DEF InvestedIn
      <4>3. RaisedBy(InvestedIn(d)') = RaisedBy(InvestedIn(c)) + n
        BY <1>14, <4>1, <4>2
      <4>4. d.curator_raise_value = RaisedBy(InvestedIn(d)')
        BY <1>9, <3>1, <4>3
      <4>5. ASSUME NEW e \in campaigns, e # c PROVE InvestedIn(e)' = InvestedIn(e)
        <5>1. ~(e.originator = c.originator /\ e.permlink = c.permlink)
          BY <1>13, <4>5
        <5>2. ~Invested(new, e) /\ \A i \in mine : ~Invested(i, e)
          BY <1>2, <1>12, <5>1 DEF Invested
        <5>3. QED  BY <1>5, <5>2 DEF InvestedIn
      <4>6. ASSUME NEW e \in campaigns'
            PROVE  e.finish = 0 /\ e.curator_raise_value = RaisedBy(InvestedIn(e)')
        <5>1. CASE e = d
          BY <1>9, <4>4, <5>1
        <5>2. CASE e # d
          <6>1. e \in campaigns /\ e # c
            BY <1>5, <5>2
          <6>2. QED  BY <3>1, <4>5, <6>1
        <5>3. QED  BY <5>1, <5>2
      <4>7. QED  BY <4>6 DEF CampaignsCounted, RaisedBy
    <3>2. CASE \E e \in First : e.finish # 0
      <4>1. PICK e \in First : e.finish # 0
        BY <3>2
      <4>2. e \in campaigns /\ e # c /\ \A f \in campaigns \ {e} : Before(e, f)
        BY <1>8, <4>1 DEF First
      <4>3. Before(e, d)
        BY <1>9, <4>2 DEF Before
      <4>4. e \in First'
        BY <1>5, <4>2, <4>3 DEF First
      <4>5. QED  BY <4>1, <4>4 DEF CampaignsCounted
    <3>3. QED  BY <1>6, <3>1, <3>2 DEF CampaignsCounted
  <2>5. QED  BY <1>5, <1>6, <2>1, <2>2, <2>3, <2>4 DEF CrowdInv
<1>17. PICK y : y = Amount(n, "GBC")
  OBVIOUS
<1>18. y \in Holding /\ Covers(balance[a], y) /\ y["GBC"] = n /\ y["GBD"] = 0
  BY <1>1, <1>5, <1>17 DEF Amount, Holding, Covers, Asset
<1>19. /\ balance' \in [Account -> Holding]
       /\ \A s \in Asset : /\ TotalHeld(balance, s) \in Int /\ y[s] \in Nat
                           /\ TotalHeld(balance', s) = TotalHeld(balance, s) - y[s]
  BY <1>1, <1>5, <1>17, <1>18, DebitHolds
<1>20. ASSUME NEW s \in Asset
       PROVE  TotalHeld(balance', s) + Held(InvestWorth, Raised', s) =
              TotalHeld(balance, s) + Held(InvestWorth, Raised, s)
  <2>1. Store(Raised', crowdfunding_invest_object) /\ RaisedBy(Raised) \in Nat
        /\ RaisedBy(Raised') = RaisedBy(Raised) + n
    BY <1>14, <1>15
  <2>2. Store(Raised, crowdfunding_invest_object)
    BY InvStores DEF Stores
  <2>3. /\ Held(InvestWorth, Raised, "GBC") = RaisedBy(Raised) /\ Held(InvestWorth, Raised, "GBD") = 0
        /\ Held(InvestWorth, Raised', "GBC") = RaisedBy(Raised') /\ Held(InvestWorth, Raised', "GBD") = 0
    BY <2>1, <2>2, RaisedWorth
  <2>4. s = "GBC" \/ s = "GBD"
    BY DEF Asset
  <2>5. QED  BY <1>1, <1>18, <1>19, <2>1, <2>3, <2>4
<1>21. QED  BY <1>5, <1>16, <1>19, <1>20, CrowdStep

(* All that is done with campaigns keeps the invariant. *)
LEMMA CrowdfundingKeeps == ASSUME IInv, UseCrowdfunding PROVE IInv'
BY CampaignKeeps, InvestKeeps DEF UseCrowdfunding

-----------------------------------------------------------------------------
(* Prices *)

(* Products keep the order. *)
LEMMA MulMonotone ==
  ASSUME NEW a \in Nat, NEW b \in Nat, NEW c \in Nat, a <= b
  PROVE  a * c <= b * c
<1>1. PICK d \in Nat : b = a + d
  <2>1. b - a \in Nat /\ b = a + (b - a)
    OBVIOUS
  <2>2. QED  BY <2>1
<1>2. b * c = a * c + d * c
  BY <1>1
<1>3. d * c \in Nat /\ a * c \in Nat
  OBVIOUS
<1>4. QED  BY <1>2, <1>3

(* And so it can be read off them. *)
LEMMA MulCancels ==
  ASSUME NEW a \in Nat, NEW b \in Nat, NEW c \in Nat \ {0}, a * c <= b * c
  PROVE  a <= b
<1> SUFFICES ASSUME b < a PROVE FALSE
  OBVIOUS
<1>1. b + 1 \in Nat /\ b + 1 <= a
  OBVIOUS
<1>2. (b + 1) * c <= a * c
  BY <1>1, MulMonotone
<1>3. (b + 1) * c = b * c + c
  OBVIOUS
<1>4. b * c \in Nat /\ a * c \in Nat
  OBVIOUS
<1>5. QED  BY <1>2, <1>3, <1>4

(* Division rounds down. *)
LEMMA DivDown ==
  ASSUME NEW x \in Nat, NEW d \in Nat \ {0}
  PROVE  /\ x \div d \in Nat /\ (x \div d) * d <= x /\ x < (x \div d) * d + d
         /\ \A k \in Nat : k <= x \div d <=> k * d <= x
<1>1. PICK q \in Nat : q = x \div d
  OBVIOUS
<1>2. q * d <= x /\ x < q * d + d
  BY <1>1
<1>3. ASSUME NEW k \in Nat PROVE k <= q <=> k * d <= x
  <2>0. k * d \in Nat /\ q * d \in Nat /\ (q + 1) * d = q * d + d
    OBVIOUS
  <2>1. ASSUME k <= q PROVE k * d <= x
    <3>1. k * d <= q * d
      BY <2>1, MulMonotone
    <3>2. QED  BY <1>2, <2>0, <3>1
  <2>2. ASSUME k * d <= x, ~(k <= q) PROVE FALSE
    <3>1. q + 1 \in Nat /\ q + 1 <= k
      BY <2>2
    <3>2. (q + 1) * d <= k * d
      BY <3>1, MulMonotone
    <3>3. QED  BY <1>2, <2>0, <2>2, <3>2
  <2>3. QED  BY <2>1, <2>2
<1>4. QED  BY <1>1, <1>2, <1>3

(* Two ratios, each at least the next. *)
LEMMA RatiosChain ==
  ASSUME NEW k \in Nat, NEW n \in Nat, NEW p1 \in Nat \ {0}, NEW p2 \in Nat \ {0},
         NEW q1 \in Nat \ {0}, NEW q2 \in Nat \ {0},
         p2 * q2 <= p1 * q1, k * q1 <= n * q2
  PROVE  k * p2 <= n * p1
<1>1. /\ p2 * q2 \in Nat /\ p1 * q1 \in Nat /\ k * q1 \in Nat /\ n * q2 \in Nat
      /\ k * p2 \in Nat /\ n * p1 \in Nat
  OBVIOUS
<1>2. (p2 * q2) * k <= (p1 * q1) * k
  BY <1>1, MulMonotone
<1>3. (k * q1) * p1 <= (n * q2) * p1
  BY <1>1, MulMonotone
<1>4. /\ (p2 * q2) * k = (k * p2) * q2 /\ (p1 * q1) * k = (k * q1) * p1
      /\ (n * q2) * p1 = (n * p1) * q2
  OBVIOUS
<1>5. (k * p2) * q2 \in Nat /\ (k * q1) * p1 \in Nat /\ (n * p1) * q2 \in Nat
  BY <1>1
<1>6. (k * p2) * q2 <= (n * p1) * q2
  BY <1>2, <1>3, <1>4, <1>5
<1>7. QED  BY <1>1, <1>6, MulCancels

APrice == (Nat \ {0}) \X (Nat \ {0})

(* A trade pays both sides their price or better, from what they have, and   *)
(* one of them all of it.                                                    *)
LEMMA MatchTrades ==
  ASSUME NEW new, new.for_sale \in Nat, new.price \in APrice,
         NEW old, old.for_sale \in Nat, old.price \in APrice,
         Crosses(new, old), ~IsDust(new), ~IsDust(old), NEW m, m = Match(new, old)
  PROVE  /\ m.pays \in Nat \ {0} /\ m.receives \in Nat \ {0}
         /\ m.pays <= new.for_sale /\ m.receives <= old.for_sale
         /\ m.receives >= AtPrice(m.pays, new.price) /\ m.pays >= AtPrice(m.receives, old.price)
         /\ m.pays = new.for_sale \/ m.receives = old.for_sale
<1>1. PICK p1 \in Nat \ {0}, p2 \in Nat \ {0} : p1 = old.price[1] /\ p2 = old.price[2]
  BY DEF APrice
<1>2. PICK q1 \in Nat \ {0}, q2 \in Nat \ {0} : q1 = new.price[1] /\ q2 = new.price[2]
  BY DEF APrice
<1>3. PICK n \in Nat, F \in Nat : n = new.for_sale /\ F = old.for_sale
  OBVIOUS
<1>4. p2 * q2 <= p1 * q1
  BY <1>1, <1>2 DEF Crosses
<1>5. /\ n * q2 \in Nat /\ F * p2 \in Nat /\ n * p1 \in Nat
      /\ p1 * q1 \in Nat /\ p2 * q2 \in Nat /\ q2 * p2 = p2 * q2 /\ q1 * p1 = p1 * q1
  OBVIOUS
<1>6. PICK k \in Nat : k = (n * q2) \div q1
  BY <1>5, DivDown
<1>7. PICK l \in Nat : l = (F * p2) \div p1
  BY <1>5, DivDown
<1>8. k # 0 /\ l # 0
  BY <1>1, <1>2, <1>3, <1>6, <1>7 DEF IsDust, AtPrice
<1>9. k * q1 <= n * q2 /\ l * p1 <= F * p2
  BY <1>5, <1>6, <1>7, DivDown
<1>10. CASE n <= l
  <2>1. PICK r \in Nat : r = (n * p1) \div p2
    BY <1>5, DivDown
  <2>2. m = [pays |-> n, receives |-> r]
    BY <1>1, <1>3, <1>7, <1>10, <2>1 DEF Match, AtPrice, AgainstPrice
  <2>3. k <= r
    <3>1. k * p2 <= n * p1
      BY <1>4, <1>9, RatiosChain
    <3>2. QED  BY <1>5, <2>1, <3>1, DivDown
  <2>4. n # 0
    <3>1. n = 0 => n * q2 = 0
      OBVIOUS
    <3>2. ~(k * q1 <= 0)
      <4>1. 1 * q1 <= k * q1
        BY <1>8, MulMonotone
      <4>2. k * q1 \in Nat
        OBVIOUS
      <4>3. QED  BY <4>1, <4>2
    <3>3. QED  BY <1>9, <3>1, <3>2
  <2>5. r * p2 <= n * p1
    BY <1>5, <2>1, DivDown
  <2>6. r <= F
    <3>1. n * p1 <= l * p1
      BY <1>10, MulMonotone
    <3>2. l * p1 \in Nat /\ r * p2 \in Nat
      OBVIOUS
    <3>3. r * p2 <= F * p2
      BY <1>5, <1>9, <2>5, <3>1, <3>2
    <3>4. QED  BY <3>3, MulCancels
  <2>7. (r * p2) \div p1 <= n
    <3>1. PICK h \in Nat : h = (r * p2) \div p1 /\ h * p1 <= r * p2
      <4>1. r * p2 \in Nat
        OBVIOUS
      <4>2. QED  BY <4>1, DivDown
    <3>2. h * p1 \in Nat /\ r * p2 \in Nat
      OBVIOUS
    <3>3. h * p1 <= n * p1
      BY <1>5, <2>5, <3>1, <3>2
    <3>4. h <= n
      BY <3>3, MulCancels
    <3>5. QED  BY <3>1, <3>4
  <2>8. r # 0
    BY <1>8, <2>3
  <2>9. /\ m.pays = n /\ m.receives = r
        /\ AtPrice(m.pays, new.price) = k /\ AtPrice(m.receives, old.price) = (r * p2) \div p1
    BY <1>1, <1>2, <1>6, <2>2 DEF AtPrice
  <2>10. (r * p2) \div p1 \in Nat
    <3>1. r * p2 \in Nat
      OBVIOUS
    <3>2. QED  BY <3>1, DivDown
  <2>11. QED  BY <1>3, <2>3, <2>4, <2>6, <2>7, <2>8, <2>9, <2>10
<1>11. CASE ~(n <= l)
  <2>1. m = [pays |-> l, receives |-> F]
    BY <1>1, <1>3, <1>7, <1>11 DEF Match, AtPrice
  <2>2. F # 0
    <3>1. F = 0 => F * p2 = 0
      OBVIOUS
    <3>2. 1 * p1 <= l * p1
      BY <1>8, MulMonotone
    <3>3. l * p1 \in Nat
      OBVIOUS
    <3>4. QED  BY <1>9, <3>1, <3>2, <3>3
  <2>3. l * q2 <= F * q1
    BY <1>4, <1>5, <1>9, RatiosChain
  <2>4. PICK h \in Nat : h = (l * q2) \div q1 /\ h * q1 <= l * q2
    <3>1. l * q2 \in Nat
      OBVIOUS
    <3>2. QED  BY <3>1, DivDown
  <2>5. h <= F
    <3>1. h * q1 \in Nat /\ l * q2 \in Nat /\ F * q1 \in Nat
      OBVIOUS
    <3>2. h * q1 <= F * q1
      BY <2>3, <2>4, <3>1
    <3>3. QED  BY <3>2, MulCancels
  <2>6. /\ m.pays = l /\ m.receives = F
        /\ AtPrice(m.pays, new.price) = h /\ AtPrice(m.receives, old.price) = l
    BY <1>1, <1>2, <1>7, <2>1, <2>4 DEF AtPrice
  <2>7. QED  BY <1>3, <1>8, <1>11, <2>2, <2>5, <2>6
<1>12. QED  BY <1>10, <1>11

(* The price of o is at least that of p. *)
AtLeast(o, p) == p.price[1] * o.price[2] <= o.price[1] * p.price[2]

(* Prices are ordered. *)
LEMMA PricesOrdered ==
  ASSUME NEW o, NEW p, NEW q, o.price \in APrice, p.price \in APrice, q.price \in APrice
  PROVE  /\ AtLeast(o, p) /\ AtLeast(p, q) => AtLeast(o, q)
         /\ AtLeast(o, p) \/ AtLeast(p, o)
<1>1. PICK o1 \in Nat \ {0}, o2 \in Nat \ {0} : o1 = o.price[1] /\ o2 = o.price[2]
  BY DEF APrice
<1>2. PICK p1 \in Nat \ {0}, p2 \in Nat \ {0} : p1 = p.price[1] /\ p2 = p.price[2]
  BY DEF APrice
<1>3. PICK q1 \in Nat \ {0}, q2 \in Nat \ {0} : q1 = q.price[1] /\ q2 = q.price[2]
  BY DEF APrice
<1>4. p1 * o2 \in Nat /\ o1 * p2 \in Nat
  OBVIOUS
<1>5. AtLeast(o, p) \/ AtLeast(p, o)
  BY <1>1, <1>2, <1>4 DEF AtLeast
<1>6. ASSUME AtLeast(o, p), AtLeast(p, q) PROVE AtLeast(o, q)
  <2>1. p1 * o2 <= o1 * p2 /\ q1 * p2 <= p1 * q2
    BY <1>1, <1>2, <1>3, <1>6 DEF AtLeast
  <2>2. o2 * p1 <= o1 * p2 /\ q1 * p2 <= q2 * p1
    BY <2>1
  <2>3. q1 * o2 <= q2 * o1
    BY <2>2, RatiosChain
  <2>4. q1 * o2 <= o1 * q2
    BY <2>3
  <2>5. QED  BY <1>1, <1>3, <2>4 DEF AtLeast
<1>7. QED  BY <1>5, <1>6

(* by_price, in these words. *)
LEMMA PrecedesIs ==
  ASSUME NEW o, NEW p, o.price \in APrice, p.price \in APrice
  PROVE  Precedes(o, p) <=> ~AtLeast(p, o) \/ (AtLeast(p, o) /\ AtLeast(o, p) /\ o.id < p.id)
<1>1. PICK a \in Nat, b \in Nat : a = o.price[1] * p.price[2] /\ b = p.price[1] * o.price[2]
  BY DEF APrice
<1>2. Precedes(o, p) <=> (a > b \/ (a = b /\ o.id < p.id))
  BY <1>1 DEF Precedes
<1>3. (AtLeast(o, p) <=> b <= a) /\ (AtLeast(p, o) <=> a <= b)
  BY <1>1 DEF AtLeast
<1>4. QED  BY <1>2, <1>3

(* There is a first order. *)
LEMMA BestFirst ==
  ASSUME NEW S, IsFiniteSet(S), S # {}, \A o \in S : o.price \in APrice /\ o.id \in Nat,
         \A o, p \in S : o.id = p.id => o = p
  PROVE  Best(S) \in S
<1> DEFINE IsBest(o, T) == \A p \in T \ {o} : Precedes(o, p)
           Q == {T \in SUBSET S : T = {} \/ \E o \in T : IsBest(o, T)}
<1>1. ASSUME NEW o \in S, NEW p \in S, NEW q \in S, Precedes(o, p), Precedes(p, q)
      PROVE  Precedes(o, q)
  <2>1. o.price \in APrice /\ p.price \in APrice /\ q.price \in APrice
    OBVIOUS
  <2>2. o.id \in Nat /\ p.id \in Nat /\ q.id \in Nat
    OBVIOUS
  <2>3. /\ ~AtLeast(p, o) \/ (AtLeast(p, o) /\ AtLeast(o, p) /\ o.id < p.id)
        /\ ~AtLeast(q, p) \/ (AtLeast(q, p) /\ AtLeast(p, q) /\ p.id < q.id)
    BY <1>1, <2>1, PrecedesIs
  <2>4. /\ AtLeast(o, p) /\ AtLeast(p, q) => AtLeast(o, q)
        /\ AtLeast(q, o) /\ AtLeast(o, p) => AtLeast(q, p)
        /\ AtLeast(p, q) /\ AtLeast(q, o) => AtLeast(p, o)
        /\ AtLeast(o, p) \/ AtLeast(p, o)
        /\ AtLeast(p, q) \/ AtLeast(q, p)
    BY <2>1, PricesOrdered
  <2>5. (o.id < p.id /\ p.id < q.id) => o.id < q.id
    BY <2>2
  <2>6. ~AtLeast(q, o) \/ (AtLeast(q, o) /\ AtLeast(o, q) /\ o.id < q.id)
    BY <2>3, <2>4, <2>5
  <2>7. QED  BY <2>1, <2>6, PrecedesIs
<1>2. ASSUME NEW o \in S, NEW p \in S, o # p PROVE Precedes(o, p) \/ Precedes(p, o)
  <2>1. o.price \in APrice /\ p.price \in APrice
    OBVIOUS
  <2>2. o.id < p.id \/ p.id < o.id
    BY <1>2
  <2>3. QED  BY <2>1, <2>2, PrecedesIs, PricesOrdered
<1>3. ASSUME NEW T \in SUBSET S, \A x \in T : T \ {x} \in Q PROVE T \in Q
  <2>1. CASE T = {}
    BY <2>1
  <2>2. CASE T # {}
    <3>1. PICK x \in T : TRUE
      BY <2>2
    <3>2. T \ {x} = {} \/ \E o \in T \ {x} : IsBest(o, T \ {x})
      BY <1>3, <3>1
    <3>3. CASE T \ {x} = {}
      <4>1. IsBest(x, T)
        BY <3>3
      <4>2. QED  BY <3>1, <4>1
    <3>4. CASE \E o \in T \ {x} : IsBest(o, T \ {x})
      <4>1. PICK o \in T \ {x} : IsBest(o, T \ {x})
        BY <3>4
      <4>2. CASE Precedes(o, x)
        <5>1. IsBest(o, T)
          BY <4>1, <4>2
        <5>2. QED  BY <4>1, <5>1
      <4>3. CASE Precedes(x, o)
        <5>1. ASSUME NEW p \in T \ {x} PROVE Precedes(x, p)
          <6>1. CASE p = o
            BY <4>3, <6>1
          <6>2. CASE p # o
            BY <1>1, <3>1, <4>1, <4>3, <6>2
          <6>3. QED  BY <6>1, <6>2
        <5>2. QED  BY <3>1, <5>1
      <4>4. QED  BY <1>2, <3>1, <4>1, <4>2, <4>3
    <3>5. QED  BY <3>2, <3>3, <3>4
  <2>3. QED  BY <2>1, <2>2
<1> HIDE DEF Q
<1>4. \A T \in SUBSET S : T \in Q
  BY <1>3, Growing
<1>5. \E o \in S : \A p \in S \ {o} : Precedes(o, p)
  BY <1>4 DEF Q
<1>6. QED  BY <1>5 DEF Best

-----------------------------------------------------------------------------
(* The market *)

(* An order of which nothing may be left, and what of o is left is not given *)
(* back as too small.                                                        *)
OrderLeft ==
  [id : Nat, seller : Account, orderid : OrderId, sells : Asset, for_sale : Nat,
   price : APrice, expiration : Nat]
Rest(o) == IF IsDust(o) THEN Nothing ELSE ForSale(o)

(* o is what is left of p. *)
Kept(o, p) ==
  /\ o.id = p.id /\ o.seller = p.seller /\ o.orderid = p.orderid /\ o.sells = p.sells
  /\ o.price = p.price /\ o.expiration = p.expiration

(* The fills that honour both limits. *)
Honest ==
  {f \in [new : OrderLeft, old : OrderLeft, pays : Nat, receives : Nat] :
     /\ f.receives > 0 /\ f.receives >= AtPrice(f.pays, f.new.price)
     /\ f.pays > 0 /\ f.pays >= AtPrice(f.receives, f.old.price)}

(* What each round of apply_order() keeps: the orders are what is left of    *)
(* those that were there, the ones the new order has passed do not cross it, *)
(* and no money is made or lost.                                             *)
BookOrders(b, new) ==
  /\ b.new \in OrderLeft /\ Kept(b.new, new) /\ Store(b.others, limit_order_object)
  /\ \A o \in b.others : ~IsDust(o) /\ \E p \in orders : Kept(o, p)
  /\ \A o, p \in b.others : o.id = p.id => o = p
BookRange(b, new) ==
  /\ b.left \subseteq b.others
  /\ \A o \in b.left : Crosses(new, o)
  /\ ~IsDust(b.new) => \A o \in b.others \ b.left : ~Crosses(new, o)
BookMoney(b, s) == TotalHeld(b.held, s) + Held(OrderWorth, b.others, s) + Rest(b.new)[s]
BookSound(b, new, total) ==
  /\ BookOrders(b, new) /\ BookRange(b, new)
  /\ b.held \in [Account -> Holding] /\ b.trades \in Seq(Honest)
  /\ \A s \in Asset : BookMoney(b, s) = total[s]

(* What is left of an order, given back or not, is an amount. *)
LEMMA LeftWorth ==
  ASSUME NEW o \in OrderLeft, NEW s \in Asset
  PROVE  /\ ForSale(o) \in Holding /\ Refund(o) \in Holding /\ Rest(o) \in Holding
         /\ Refund(o)[s] + Rest(o)[s] = ForSale(o)[s]
         /\ ForSale(o)[s] = IF s = o.sells THEN o.for_sale ELSE 0
<1>1. ForSale(o) \in Holding /\ Nothing \in Holding
  BY DEF OrderLeft, ForSale, Amount, Nothing, Holding
<1>2. ForSale(o)[s] = (IF s = o.sells THEN o.for_sale ELSE 0) /\ Nothing[s] = 0
  BY DEF ForSale, Amount, Nothing
<1>3. ForSale(o)[s] \in Nat
  BY <1>1 DEF Holding
<1>4. CASE IsDust(o)
  BY <1>1, <1>2, <1>3, <1>4 DEF Refund, Rest
<1>5. CASE ~IsDust(o)
  BY <1>1, <1>2, <1>3, <1>5 DEF Refund, Rest
<1>6. QED  BY <1>4, <1>5

(* fill_order() leaves an order; one that would sell for something has       *)
(* something to sell.                                                        *)
LEMMA FilledLeft ==
  ASSUME NEW o \in OrderLeft, NEW n \in Nat, n <= o.for_sale
  PROVE  /\ Filled(o, n) \in OrderLeft /\ Kept(Filled(o, n), o)
         /\ Filled(o, n).for_sale = o.for_sale - n
         /\ n = o.for_sale => IsDust(Filled(o, n))
         /\ ~IsDust(Filled(o, n)) => Filled(o, n) \in limit_order_object
<1> DEFINE f == Filled(o, n)
<1>1. f \in OrderLeft /\ Kept(f, o) /\ f.for_sale = o.for_sale - n
  BY DEF Filled, OrderLeft, Kept
<1>2. f.price \in APrice /\ f.price[1] \in Nat \ {0} /\ f.price[2] \in Nat \ {0}
  BY <1>1 DEF OrderLeft, APrice
<1>3. 0 * f.price[2] = 0 /\ 0 \div f.price[1] = 0
  BY <1>2
<1>4. f.for_sale = 0 => IsDust(f)
  BY <1>3 DEF IsDust, AtPrice
<1>5. f.for_sale # 0 => f \in limit_order_object
  BY <1>1 DEF OrderLeft, limit_order_object, APrice
<1>6. QED  BY <1>1, <1>4, <1>5 DEF OrderLeft

(* What crosses an order crosses what is left of it. *)
LEMMA KeptCrosses ==
  ASSUME NEW o, NEW p, NEW q, Kept(o, p)
  PROVE  (Crosses(o, q) <=> Crosses(p, q)) /\ (Crosses(q, o) <=> Crosses(q, p))
BY DEF Kept, Crosses

(* Crossing is mutual, and no order crosses itself. *)
LEMMA CrossesBoth ==
  ASSUME NEW o \in OrderLeft, NEW p \in OrderLeft
  PROVE  (Crosses(o, p) <=> Crosses(p, o)) /\ ~Crosses(o, o)
<1>1. /\ o.price[1] \in Nat /\ o.price[2] \in Nat /\ p.price[1] \in Nat /\ p.price[2] \in Nat
      /\ o.sells \in Asset /\ p.sells \in Asset
  BY DEF OrderLeft, APrice
<1>2. /\ o.price[1] * p.price[1] = p.price[1] * o.price[1]
      /\ o.price[2] * p.price[2] = p.price[2] * o.price[2]
  BY <1>1
<1>3. (o.sells = Other(p.sells) <=> p.sells = Other(o.sells)) /\ o.sells # Other(o.sells)
  BY <1>1 DEF Other, Asset
<1>4. QED  BY <1>2, <1>3 DEF Crosses

(* Orders that can rest together. *)
Resting(S) ==
  /\ Store(S, limit_order_object) /\ \A o \in S : ~IsDust(o)
  /\ \A o, p \in S : o.id = p.id => o = p

(* The orders S after a trade that leaves rest of old. *)
Traded(S, old, rest) == (S \ {old}) \cup (IF IsDust(rest) THEN {} ELSE {rest})
Moved(S, old, rest, R) ==
  \A s \in Asset : /\ Held(OrderWorth, S, s) \in Nat /\ ForSale(old)[s] \in Nat /\ Rest(rest)[s] \in Nat
                   /\ Held(OrderWorth, R, s) =
                      Held(OrderWorth, S, s) - ForSale(old)[s] + Rest(rest)[s]

(* They can still rest together, and hold less by what was traded or given   *)
(* back.                                                                     *)
LEMMA BookTraded ==
  ASSUME NEW S, Resting(S), NEW old \in S, NEW n \in Nat, n <= old.for_sale,
         NEW rest, rest = Filled(old, n), NEW R, R = Traded(S, old, rest)
  PROVE  Resting(R) /\ (\A o \in R : o \in S \/ Kept(o, old)) /\ Moved(S, old, rest, R)
<1>1. (\A o \in S : ~IsDust(o)) /\ \A o, p \in S : o.id = p.id => o = p
  BY DEF Resting
<1>2. /\ Pays(limit_order_object, OrderWorth) /\ old \in limit_order_object
      /\ Store(S, limit_order_object)
  BY WorthsPay DEF Resting, Store
<1>3. OrderWorth[old] = ForSale(old) /\ old \in OrderLeft
  BY <1>2 DEF OrderWorth, OrderLeft, limit_order_object, APrice
<1>4. rest \in OrderLeft /\ Kept(rest, old) /\ (~IsDust(rest) => rest \in limit_order_object)
  BY <1>3, FilledLeft
<1>5. CASE IsDust(rest)
  <2>1. R = S \ {old}
    BY <1>5 DEF Traded
  <2>2. ASSUME NEW s \in Asset
        PROVE  /\ Store(R, limit_order_object)
               /\ Held(OrderWorth, S, s) \in Nat /\ ForSale(old)[s] \in Nat /\ Rest(rest)[s] \in Nat
               /\ Held(OrderWorth, R, s) =
                  Held(OrderWorth, S, s) - ForSale(old)[s] + Rest(rest)[s]
    <3>1. /\ Store(R, limit_order_object)
          /\ Held(OrderWorth, S, s) \in Nat /\ ForSale(old)[s] \in Nat
          /\ Held(OrderWorth, R, s) = Held(OrderWorth, S, s) - ForSale(old)[s]
      BY <1>2, <1>3, <2>1, StoreRemove
    <3>2. Rest(rest)[s] = 0
      BY <1>5 DEF Rest, Nothing
    <3>3. QED  BY <3>1, <3>2
  <2>3. Store(R, limit_order_object)
    BY <2>2 DEF Asset
  <2>4. QED  BY <1>1, <2>1, <2>2, <2>3 DEF Resting, Moved
<1>6. CASE ~IsDust(rest)
  <2>1. R = (S \ {old}) \cup {rest} /\ rest \in limit_order_object
    BY <1>6, <1>4 DEF Traded
  <2>2. rest \notin S \ {old}
    BY <1>1, <1>4 DEF Kept
  <2>3. OrderWorth[rest] = Rest(rest)
    BY <1>6, <2>1 DEF OrderWorth, Rest
  <2>4. ASSUME NEW s \in Asset
        PROVE  /\ Store(R, limit_order_object)
               /\ Held(OrderWorth, S, s) \in Nat /\ ForSale(old)[s] \in Nat /\ Rest(rest)[s] \in Nat
               /\ Held(OrderWorth, R, s) =
                  Held(OrderWorth, S, s) - ForSale(old)[s] + Rest(rest)[s]
    <3>1. PICK Q : Q = (S \ {old}) \cup {rest}
      OBVIOUS
    <3>2. /\ Store(Q, limit_order_object) /\ Held(OrderWorth, S, s) \in Nat
          /\ OrderWorth[old][s] \in Nat /\ OrderWorth[rest][s] \in Nat
          /\ Held(OrderWorth, Q, s) =
             Held(OrderWorth, S, s) - OrderWorth[old][s] + OrderWorth[rest][s]
      BY <1>2, <2>1, <2>2, <3>1, StoreReplace
    <3>3. QED  BY <1>3, <2>1, <2>3, <3>1, <3>2
  <2>5. Store(R, limit_order_object)
    BY <2>4 DEF Asset
  <2>6. \A o, p \in R : o.id = p.id => o = p
    BY <1>1, <1>4, <2>1 DEF Kept
  <2>7. (\A o \in R : ~IsDust(o)) /\ \A o \in R : o \in S \/ Kept(o, old)
    BY <1>1, <1>4, <1>6, <2>1
  <2>8. QED  BY <2>4, <2>5, <2>6, <2>7 DEF Resting, Moved
<1>7. QED  BY <1>5, <1>6

(* Two orders that trade are paid, together, what is no longer for sale. *)
LEMMA TradeMoney ==
  ASSUME NEW a \in OrderLeft, NEW b \in OrderLeft, NEW x \in Nat, NEW y \in Nat,
         x <= a.for_sale, y <= b.for_sale, NEW new, new = Filled(a, x), NEW rest, rest = Filled(b, y),
         NEW paid, paid = Both(Amount(y, b.sells), Refund(new)),
         NEW got, got = Both(Amount(x, a.sells), Refund(rest)), NEW s \in Asset
  PROVE  /\ paid \in Holding /\ got \in Holding
         /\ paid[s] + got[s] + Rest(new)[s] + Rest(rest)[s] = ForSale(a)[s] + ForSale(b)[s]
<1>1. /\ new \in OrderLeft /\ new.for_sale = a.for_sale - x /\ new.sells = a.sells
      /\ rest \in OrderLeft /\ rest.for_sale = b.for_sale - y /\ rest.sells = b.sells
      /\ a.for_sale \in Nat /\ b.for_sale \in Nat
  BY FilledLeft DEF Kept, OrderLeft
<1>2. /\ Refund(new) \in Holding /\ Refund(rest) \in Holding
      /\ Rest(new) \in Holding /\ Rest(rest) \in Holding
      /\ Refund(new)[s] + Rest(new)[s] = IF s = a.sells THEN a.for_sale - x ELSE 0
      /\ Refund(rest)[s] + Rest(rest)[s] = IF s = b.sells THEN b.for_sale - y ELSE 0
      /\ ForSale(a)[s] = IF s = a.sells THEN a.for_sale ELSE 0
      /\ ForSale(b)[s] = IF s = b.sells THEN b.for_sale ELSE 0
  BY <1>1, LeftWorth
<1>3. Amount(x, a.sells) \in Holding /\ Amount(y, b.sells) \in Holding
  BY DEF Amount, Holding
<1>4. /\ Amount(x, a.sells)[s] = IF s = a.sells THEN x ELSE 0
      /\ Amount(y, b.sells)[s] = IF s = b.sells THEN y ELSE 0
  BY DEF Amount
<1>5. /\ paid[s] = Amount(y, b.sells)[s] + Refund(new)[s]
      /\ got[s] = Amount(x, a.sells)[s] + Refund(rest)[s]
  BY DEF Both
<1>6. paid \in Holding /\ got \in Holding
  BY <1>2, <1>3 DEF Both, Holding
<1>7. /\ Refund(new)[s] \in Nat /\ Refund(rest)[s] \in Nat
      /\ Rest(new)[s] \in Nat /\ Rest(rest)[s] \in Nat
  BY <1>2 DEF Holding
<1>8. QED  BY <1>1, <1>2, <1>4, <1>5, <1>6, <1>7

(* One round keeps the book sound, and passes an order or ends.  *)
LEMMA RoundSound ==
  ASSUME NEW new, NEW total, NEW b, BookSound(b, new, total), NEW r, r = Round(b),
         ~IsDust(b.new), b.left # {}
  PROVE  /\ BookSound(r, new, total)
         /\ \E o \in b.left : r.left = b.left \ {o}
<1>1. /\ b.new \in OrderLeft /\ Kept(b.new, new) /\ Store(b.others, limit_order_object)
      /\ \A o \in b.others : ~IsDust(o)
      /\ \A o \in b.others : \E p \in orders : Kept(o, p)
      /\ \A o, p \in b.others : o.id = p.id => o = p
  BY DEF BookSound, BookOrders
<1>2. /\ b.left \subseteq b.others /\ \A o \in b.left : Crosses(new, o)
      /\ \A o \in b.others \ b.left : ~Crosses(new, o)
  BY DEF BookSound, BookRange
<1>3. \A o \in limit_order_object : o \in OrderLeft
  BY DEF limit_order_object, OrderLeft, APrice
<1>4. Best(b.left) \in b.left
  <2>1. IsFiniteSet(b.left)
    BY <1>1, <1>2, FS_Subset DEF Store
  <2>2. \A o \in b.left : o.price \in APrice /\ o.id \in Nat
    BY <1>1, <1>2 DEF Store, limit_order_object, APrice
  <2>3. \A o, p \in b.left : o.id = p.id => o = p
    BY <1>1, <1>2
  <2>4. QED  BY <2>1, <2>2, <2>3, BestFirst
<1>5. PICK old \in b.left : old = Best(b.left)
  BY <1>4
<1>6. old \in b.others /\ old \in limit_order_object /\ old \in OrderLeft /\ ~IsDust(old)
  BY <1>1, <1>2, <1>3 DEF Store
<1>7. Crosses(b.new, old)
  BY <1>1, <1>2, KeptCrosses
<1>8. PICK m : m = Match(b.new, old)
  OBVIOUS
<1>9. /\ m.pays \in Nat \ {0} /\ m.receives \in Nat \ {0}
      /\ m.pays <= b.new.for_sale /\ m.receives <= old.for_sale
      /\ m.receives >= AtPrice(m.pays, b.new.price) /\ m.pays >= AtPrice(m.receives, old.price)
      /\ m.pays = b.new.for_sale \/ m.receives = old.for_sale
  <2>1. b.new.for_sale \in Nat /\ b.new.price \in APrice /\ old.for_sale \in Nat /\ old.price \in APrice
    BY <1>1, <1>6 DEF OrderLeft
  <2>2. QED  BY <1>6, <1>7, <1>8, <2>1, MatchTrades
<1>10. PICK left : left = Filled(b.new, m.pays)
  OBVIOUS
<1>11. PICK rest : rest = Filled(old, m.receives)
  OBVIOUS
<1>12. PICK paid : paid = Both(Amount(m.receives, old.sells), Refund(left))
  OBVIOUS
<1>13. PICK got : got = Both(Amount(m.pays, left.sells), Refund(rest))
  OBVIOUS
<1>14. PICK fill : fill = [new |-> b.new, old |-> old, pays |-> m.pays, receives |-> m.receives]
  OBVIOUS
<1>15. /\ r.new = left /\ r.left = b.left \ {old}
       /\ r.others = (b.others \ {old}) \cup (IF IsDust(rest) THEN {} ELSE {rest})
       /\ r.held = Credit(Credit(b.held, left.seller, paid), old.seller, got)
       /\ r.trades = Append(b.trades, fill)
  BY <1>5, <1>8, <1>10, <1>11, <1>12, <1>13, <1>14 DEF Round
<1>16. /\ left \in OrderLeft /\ Kept(left, b.new)
       /\ m.pays = b.new.for_sale => IsDust(left)
  BY <1>1, <1>9, <1>10, FilledLeft
<1>17. /\ rest \in OrderLeft /\ Kept(rest, old)
       /\ m.receives = old.for_sale => IsDust(rest)
       /\ ~IsDust(rest) => rest \in limit_order_object
  BY <1>6, <1>9, <1>11, FilledLeft
<1>18. /\ Store(r.others, limit_order_object) /\ \A o \in r.others : ~IsDust(o)
       /\ \A o, p \in r.others : o.id = p.id => o = p
       /\ \A o \in r.others : o \in b.others \/ Kept(o, old)
       /\ \A s \in Asset : /\ Held(OrderWorth, b.others, s) \in Nat /\ ForSale(old)[s] \in Nat
                           /\ Rest(rest)[s] \in Nat
                           /\ Held(OrderWorth, r.others, s) =
                              Held(OrderWorth, b.others, s) - ForSale(old)[s] + Rest(rest)[s]
  <2>1. PICK S : S = b.others
    OBVIOUS
  <2>2. PICK R : R = r.others
    OBVIOUS
  <2>3. Resting(S) /\ old \in S
    BY <1>1, <1>6, <2>1 DEF Resting
  <2>4. R = Traded(S, old, rest)
    BY <1>15, <2>1, <2>2 DEF Traded
  <2>5. Resting(R) /\ (\A o \in R : o \in S \/ Kept(o, old)) /\ Moved(S, old, rest, R)
    BY <1>9, <1>11, <2>3, <2>4, BookTraded
  <2>6. QED  BY <2>1, <2>2, <2>5 DEF Resting, Moved
<1>19. BookOrders(r, new)
  <2>1. Kept(r.new, new)
    BY <1>1, <1>15, <1>16 DEF Kept
  <2>2. \A o \in r.others : \E p \in orders : Kept(o, p)
    <3>1. ASSUME NEW o \in r.others PROVE \E p \in orders : Kept(o, p)
      <4>1. CASE o \in b.others
        BY <1>1, <4>1
      <4>2. CASE Kept(o, old)
        <5>1. PICK p \in orders : Kept(old, p)
          BY <1>1, <1>6
        <5>2. QED  BY <4>2, <5>1 DEF Kept
      <4>3. QED  BY <1>18, <4>1, <4>2
    <3>2. QED  BY <3>1
  <2>3. QED  BY <1>15, <1>16, <1>18, <2>1, <2>2 DEF BookOrders
<1>20. BookRange(r, new)
  <2>1. ~IsDust(r.new) => IsDust(rest)
    BY <1>9, <1>15, <1>16, <1>17
  <2>2. ~IsDust(r.new) => r.others = b.others \ {old}
    BY <1>15, <2>1
  <2>3. QED  BY <1>2, <1>15, <2>2 DEF BookRange
<1>21. fill \in Honest
  BY <1>1, <1>6, <1>9, <1>14 DEF Honest
<1>22. r.trades \in Seq(Honest)
  BY <1>15, <1>21 DEF BookSound
<1>23. left.seller \in Account /\ old.seller \in Account /\ left.sells = b.new.sells
  BY <1>6, <1>16 DEF OrderLeft, Kept
<1>24. ASSUME NEW s \in Asset
       PROVE  /\ paid \in Holding /\ got \in Holding
              /\ paid[s] + got[s] + Rest(left)[s] + Rest(rest)[s] = ForSale(b.new)[s] + ForSale(old)[s]
  BY <1>1, <1>6, <1>9, <1>10, <1>11, <1>12, <1>13, <1>23, TradeMoney
<1>25. paid \in Holding /\ got \in Holding
  BY <1>24 DEF Asset
<1>26. PICK mid : mid = Credit(b.held, left.seller, paid)
  OBVIOUS
<1>27. b.held \in [Account -> Holding]
  BY DEF BookSound
<1>28. /\ mid \in [Account -> Holding]
       /\ \A s \in Asset : /\ TotalHeld(b.held, s) \in Int /\ paid[s] \in Nat
                           /\ TotalHeld(mid, s) = TotalHeld(b.held, s) + paid[s]
  BY <1>23, <1>25, <1>26, <1>27, CreditHolds
<1>29. /\ r.held \in [Account -> Holding]
       /\ \A s \in Asset : /\ TotalHeld(mid, s) \in Int /\ got[s] \in Nat
                           /\ TotalHeld(r.held, s) = TotalHeld(mid, s) + got[s]
  <2>1. r.held = Credit(mid, old.seller, got)
    BY <1>15, <1>26
  <2>2. QED  BY <1>23, <1>25, <1>28, <2>1, CreditHolds
<1>30. ASSUME NEW s \in Asset PROVE BookMoney(r, s) = total[s]
  <2>1. Rest(b.new)[s] = ForSale(b.new)[s] /\ ForSale(b.new)[s] \in Nat /\ Rest(left)[s] \in Nat
    BY <1>1, <1>16, LeftWorth DEF Rest, Holding
  <2>2. BookMoney(b, s) = total[s]
    BY DEF BookSound
  <2>3. BookMoney(r, s) = BookMoney(b, s)
    <3>1. PICK h \in Int : h = TotalHeld(b.held, s)
      BY <1>28
    <3>2. PICK k \in Nat : k = Held(OrderWorth, b.others, s)
      BY <1>18
    <3>3. TotalHeld(r.held, s) = h + paid[s] + got[s] /\ paid[s] \in Nat /\ got[s] \in Nat
      BY <1>28, <1>29, <3>1
    <3>4. /\ Held(OrderWorth, r.others, s) = k - ForSale(old)[s] + Rest(rest)[s]
          /\ ForSale(old)[s] \in Nat /\ Rest(rest)[s] \in Nat
      BY <1>18, <3>2
    <3>5. Rest(r.new)[s] = Rest(left)[s]
      BY <1>15
    <3>6. paid[s] + got[s] + Rest(left)[s] + Rest(rest)[s] = Rest(b.new)[s] + ForSale(old)[s]
      BY <1>24, <2>1
    <3>7. BookMoney(r, s) = (h + paid[s] + got[s]) + (k - ForSale(old)[s] + Rest(rest)[s]) + Rest(left)[s]
      BY <3>3, <3>4, <3>5 DEF BookMoney
    <3>8. BookMoney(b, s) = h + k + Rest(b.new)[s]
      BY <3>1, <3>2 DEF BookMoney
    <3>9. QED  BY <2>1, <3>3, <3>4, <3>6, <3>7, <3>8
  <2>4. QED  BY <2>2, <2>3
<1>31. QED  BY <1>15, <1>19, <1>20, <1>22, <1>29, <1>30 DEF BookSound

(* apply_order() as the rounds it goes through. *)
IsRounds(g, N, start) == g = [n \in 0..N |-> IF n = 0 THEN start ELSE Round(g[n - 1])]
Start(new, held) ==
  [new |-> new, left |-> {o \in orders : Crosses(new, o)}, others |-> orders, held |-> held,
   trades |-> <<>>]

(* There are such rounds. *)
LEMMA RoundsExist ==
  ASSUME NEW start, NEW N \in Nat
  PROVE  \E g : IsRounds(g, N, start)
<1> DEFINE Q == {n \in Nat : \E g : IsRounds(g, n, start)}
<1>1. 0 \in Q
  <2>1. PICK g : g = [n \in 0..0 |-> start]
    OBVIOUS
  <2>2. g = [n \in 0..0 |-> IF n = 0 THEN start ELSE Round(g[n - 1])]
    BY <2>1
  <2>3. IsRounds(g, 0, start)
    BY <2>2 DEF IsRounds
  <2>4. QED  BY <2>3
<1>2. ASSUME NEW n \in Nat, n \in Q PROVE n + 1 \in Q
  <2>1. PICK g : IsRounds(g, n, start)
    BY <1>2
  <2>2. g = [k \in 0..n |-> IF k = 0 THEN start ELSE Round(g[k - 1])]
    BY <2>1 DEF IsRounds
  <2>3. PICK h : h = [k \in 0..n + 1 |-> IF k <= n THEN g[k] ELSE Round(g[n])]
    OBVIOUS
  <2>4. \A k \in 0..n + 1 : h[k] = IF k = 0 THEN start ELSE Round(h[k - 1])
    <3>1. ASSUME NEW k \in 0..n + 1 PROVE h[k] = IF k = 0 THEN start ELSE Round(h[k - 1])
      <4>1. CASE k = 0
        <5>1. 0 \in 0..n + 1 /\ 0 <= n /\ 0 \in 0..n
          OBVIOUS
        <5>2. QED  BY <2>2, <2>3, <4>1, <5>1
      <4>2. CASE k # 0 /\ k <= n
        <5>1. k \in 0..n /\ k - 1 \in 0..n + 1 /\ k - 1 <= n
          BY <4>2
        <5>2. QED  BY <2>2, <2>3, <4>2, <5>1
      <4>3. CASE k = n + 1
        <5>1. n \in 0..n + 1 /\ n <= n /\ k - 1 = n /\ ~(k <= n) /\ k # 0
          BY <4>3
        <5>2. QED  BY <2>3, <5>1
      <4>4. QED  BY <4>1, <4>2, <4>3
    <3>2. QED  BY <3>1
  <2>5. h = [k \in 0..n + 1 |-> IF k = 0 THEN start ELSE Round(h[k - 1])]
    BY <2>3, <2>4
  <2>6. IsRounds(h, n + 1, start) /\ n + 1 \in Nat
    BY <2>5 DEF IsRounds
  <2>7. QED  BY <2>6
<1>3. \A n \in Nat : n \in Q
  <2> HIDE DEF Q
  <2>1. QED  BY <1>1, <1>2, Counting
<1>4. QED  BY <1>3

(* And apply_order() is the last of them. *)
LEMMA ApplyRounds ==
  ASSUME NEW new, NEW held, IsFiniteSet(orders)
  PROVE  \E g : \E N \in Nat :
           /\ N = Cardinality({o \in orders : Crosses(new, o)})
           /\ IsRounds(g, N, Start(new, held)) /\ apply_order(new, held) = g[N]
<1>1. PICK S : S = {o \in orders : Crosses(new, o)}
  OBVIOUS
<1>2. PICK N \in Nat : N = Cardinality(S)
  BY <1>1, FS_Subset, FS_CardinalityType
<1>3. PICK start : start = Start(new, held)
  OBVIOUS
<1>4. PICK g : g = (CHOOSE h : IsRounds(h, N, start))
  OBVIOUS
<1>5. IsRounds(g, N, start)
  BY <1>4, RoundsExist
<1>6. apply_order(new, held) = g[N]
  BY <1>1, <1>2, <1>3, <1>4 DEF apply_order, IsRounds, Start
<1>7. QED  BY <1>1, <1>2, <1>3, <1>5, <1>6

(* What apply_order() returns is sound, and it has come to the end of the    *)
(* range unless nothing is left of the new order.                            *)
LEMMA ApplySound ==
  ASSUME OrdersInv, NEW new \in limit_order_object, ~IsDust(new), NEW held \in [Account -> Holding],
         NEW total, \A s \in Asset :
           total[s] = TotalHeld(held, s) + Held(OrderWorth, orders, s) + ForSale(new)[s],
         NEW b, b = apply_order(new, held)
  PROVE  BookSound(b, new, total) /\ (IsDust(b.new) \/ b.left = {})
<1>1. IsFiniteSet(orders)
  BY DEF OrdersInv, Store
<1>2. PICK start : start = Start(new, held)
  OBVIOUS
<1>3. PICK g : \E N \in Nat : /\ N = Cardinality({o \in orders : Crosses(new, o)})
                              /\ IsRounds(g, N, start) /\ b = g[N]
  BY <1>1, <1>2, ApplyRounds
<1>4. PICK N \in Nat : /\ N = Cardinality({o \in orders : Crosses(new, o)})
                       /\ IsRounds(g, N, start) /\ b = g[N]
  BY <1>3
<1>5. g[0] = start /\ \A n \in 1..N : g[n] = Round(g[n - 1])
  BY <1>4 DEF IsRounds
<1> DEFINE Passing(c, n) == IsDust(c.new) \/ (IsFiniteSet(c.left) /\ Cardinality(c.left) = N - n)
           Q == {n \in Nat : n <= N => BookSound(g[n], new, total) /\ Passing(g[n], n)}
<1>6. 0 \in Q
  <2>1. /\ start.new = new /\ start.left = {o \in orders : Crosses(new, o)}
        /\ start.others = orders /\ start.held = held /\ start.trades = <<>>
    BY <1>2 DEF Start
  <2>2. BookOrders(start, new)
    <3>1. new \in OrderLeft /\ Kept(new, new)
      BY DEF limit_order_object, OrderLeft, APrice, Kept
    <3>2. \A o \in orders : Kept(o, o)
      BY DEF Kept
    <3>3. QED  BY <2>1, <3>1, <3>2 DEF BookOrders, OrdersInv
  <2>3. BookRange(start, new)
    BY <2>1 DEF BookRange
  <2>4. start.trades \in Seq(Honest)
    BY <2>1
  <2>5. \A s \in Asset : BookMoney(start, s) = total[s]
    BY <2>1 DEF BookMoney, Rest
  <2>6. Passing(start, 0)
    BY <1>1, <1>4, <2>1, FS_Subset
  <2>7. QED  BY <1>5, <2>1, <2>2, <2>3, <2>4, <2>5, <2>6 DEF BookSound
<1>7. ASSUME NEW n \in Nat, n \in Q PROVE n + 1 \in Q
  <2> SUFFICES ASSUME n + 1 <= N PROVE BookSound(g[n + 1], new, total) /\ Passing(g[n + 1], n + 1)
    OBVIOUS
  <2>1. PICK c : c = g[n]
    OBVIOUS
  <2>2. BookSound(c, new, total) /\ Passing(c, n)
    BY <1>7, <2>1
  <2>3. PICK r : r = g[n + 1]
    OBVIOUS
  <2>4. r = Round(c)
    BY <1>5, <2>1, <2>3
  <2>5. CASE IsDust(c.new)
    <3>1. r = c
      BY <2>4, <2>5 DEF Round
    <3>2. QED  BY <2>2, <2>3, <2>5, <3>1
  <2>6. CASE ~IsDust(c.new)
    <3>1. IsFiniteSet(c.left) /\ Cardinality(c.left) = N - n
      BY <2>2, <2>6
    <3>2. c.left # {}
      BY <3>1, FS_EmptySet
    <3>3. BookSound(r, new, total) /\ \E o \in c.left : r.left = c.left \ {o}
      BY <2>2, <2>4, <2>6, <3>2, RoundSound
    <3>4. PICK o \in c.left : r.left = c.left \ {o}
      BY <3>3
    <3>5. IsFiniteSet(r.left) /\ Cardinality(r.left) = N - (n + 1)
      BY <3>1, <3>4, FS_RemoveElement
    <3>6. QED  BY <2>3, <3>3, <3>5
  <2>7. QED  BY <2>5, <2>6
<1>8. \A n \in Nat : n \in Q
  <2> HIDE DEF Q
  <2>1. QED  BY <1>6, <1>7, Counting
<1>9. BookSound(b, new, total) /\ Passing(b, N)
  BY <1>4, <1>8
<1>10. Passing(b, N) => IsDust(b.new) \/ b.left = {}
  BY FS_EmptySet
<1>11. QED  BY <1>9, <1>10

(* What does not happen in a market operation. *)
LEMMA MarketStep ==
  ASSUME IInv, UNCHANGED <<savings, supply, now, converts, median, savingsVars, escrows, crowdVars, use>>,
         balance' \in [Account -> Holding], OrdersInv', TradesHonourLimits',
         \A s \in Asset : TotalHeld(balance', s) + Held(OrderWorth, orders', s) =
                          TotalHeld(balance, s) + Held(OrderWorth, orders, s)
  PROVE  IInv'
<1>1. SavingsInv' /\ EscrowInv' /\ ConvertsInv' /\ CrowdInv' /\ Raised' = Raised
  BY SavingsKept, EscrowsKept, ConvertsKept, CrowdKept DEF IInv
<1>2. BooksBalanced'
  <2>1. ASSUME NEW s \in Asset
        PROVE  supply'[s] = Books(balance', savings', converts', orders', escrows', withdraws', Raised', s)
    <3>1. /\ TotalHeld(balance, s) \in Int /\ TotalHeld(savings, s) \in Int
          /\ Held(ConvertWorth, converts, s) \in Nat /\ Held(OrderWorth, orders, s) \in Nat
          /\ Held(EscrowWorth, escrows, s) \in Nat /\ Held(WithdrawWorth, withdraws, s) \in Nat
          /\ Held(InvestWorth, Raised, s) \in Nat
          /\ supply[s] = Books(balance, savings, converts, orders, escrows, withdraws, Raised, s)
      BY BooksType
    <3>2. TotalHeld(balance', s) \in Int /\ Held(OrderWorth, orders', s) \in Nat
      BY CreditHolds, AccountAssumption, WorthsPay, StoreType DEF OrdersInv
    <3>3. QED  BY <1>1, <3>1, <3>2 DEF Books, savingsVars
  <2>2. QED  BY <2>1 DEF BooksBalanced, Balanced
<1>3. use' \in Uses /\ AccountsTypeOK'
  BY DEF IInv, AccountsTypeOK
<1>4. QED  BY <1>1, <1>2, <1>3, PartsHold

(* The orders of a book with what is left of the new order, and what they hold. *)
Placed(b) == b.others \cup (IF IsDust(b.new) THEN {} ELSE {b.new})
PlacedMoney(b, R) ==
  \A s \in Asset : /\ Held(OrderWorth, b.others, s) \in Nat /\ Rest(b.new)[s] \in Nat
                   /\ Held(OrderWorth, R, s) = Held(OrderWorth, b.others, s) + Rest(b.new)[s]

(* The orders of a sound book can rest together. *)
LEMMA BookPlaced ==
  ASSUME OrdersInv, NEW new \in limit_order_object, new.id = next_order, NEW total, NEW b,
         BookSound(b, new, total), IsDust(b.new) \/ b.left = {}, next_order' = next_order + 1,
         orders' = Placed(b)
  PROVE  OrdersInv' /\ PlacedMoney(b, orders')
<1>1. /\ b.new \in OrderLeft /\ Kept(b.new, new) /\ Store(b.others, limit_order_object)
      /\ \A o \in b.others : ~IsDust(o)
      /\ \A o \in b.others : \E p \in orders : Kept(o, p)
      /\ \A o, p \in b.others : o.id = p.id => o = p
  BY DEF BookSound, BookOrders
<1>2. ~IsDust(b.new) => \A o \in b.others : ~Crosses(b.new, o)
  BY <1>1, KeptCrosses DEF BookSound, BookRange
<1>3. \A o \in b.others : o.id < next_order /\ o \in OrderLeft
  <2>1. ASSUME NEW o \in b.others PROVE o.id < next_order
    <3>1. PICK p \in orders : Kept(o, p)
      BY <1>1
    <3>2. QED  BY <3>1 DEF Kept, OrdersInv
  <2>2. ASSUME NEW o \in b.others PROVE o \in OrderLeft
    BY <1>1 DEF Store, limit_order_object, OrderLeft, APrice
  <2>3. QED  BY <2>1, <2>2
<1>4. next_order \in Nat /\ b.new.id = next_order
  BY <1>1 DEF OrdersInv, Kept
<1>5. \A o, p \in b.others : ~Crosses(o, p)
  <2>1. ASSUME NEW o \in b.others, NEW p \in b.others PROVE ~Crosses(o, p)
    <3>1. PICK x \in orders : Kept(o, x)
      BY <1>1
    <3>2. PICK y \in orders : Kept(p, y)
      BY <1>1
    <3>3. ~Crosses(x, y)
      BY DEF OrdersInv, BookNotCrossed
    <3>4. QED  BY <3>1, <3>2, <3>3, KeptCrosses
  <2>2. QED  BY <2>1
<1>6. CASE IsDust(b.new)
  <2>1. orders' = b.others
    BY <1>6 DEF Placed
  <2>2. BookNotCrossed'
    BY <1>5, <2>1 DEF BookNotCrossed
  <2>3. \A o \in orders' : o.id < next_order' /\ ~IsDust(o)
    BY <1>1, <1>3, <1>4, <2>1 DEF OrderLeft
  <2>4. OrdersInv'
    <3>1. Store(orders', limit_order_object)
      BY <1>1, <2>1, Zenon
    <3>2. \A o, p \in orders' : o.id = p.id => o = p
      BY <1>1, <2>1, Zenon
    <3>3. QED  BY <1>4, <2>2, <2>3, <3>1, <3>2 DEF OrdersInv
  <2>5. ASSUME NEW s \in Asset
        PROVE  /\ Held(OrderWorth, b.others, s) \in Nat /\ Rest(b.new)[s] \in Nat
               /\ Held(OrderWorth, orders', s) = Held(OrderWorth, b.others, s) + Rest(b.new)[s]
    <3>1. Held(OrderWorth, b.others, s) \in Nat
      BY <1>1, WorthsPay, StoreType
    <3>2. Rest(b.new)[s] = 0
      BY <1>6 DEF Rest, Nothing
    <3>3. Held(OrderWorth, orders', s) = Held(OrderWorth, b.others, s)
      BY <2>1, Zenon
    <3>4. QED  BY <3>1, <3>2, <3>3
  <2>6. QED  BY <2>4, <2>5 DEF PlacedMoney
<1>7. CASE ~IsDust(b.new)
  <2>1. orders' = b.others \cup {b.new}
    BY <1>7 DEF Placed
  <2>2. b.new \notin b.others
    BY <1>3, <1>4
  <2>3. b.new \in limit_order_object
    <3>1. Filled(b.new, 0) = b.new
      BY <1>1 DEF Filled, OrderLeft
    <3>2. 0 \in Nat /\ 0 <= b.new.for_sale
      BY <1>1 DEF OrderLeft
    <3>3. QED  BY <1>1, <1>7, <3>1, <3>2, FilledLeft
  <2>4. Store(orders', limit_order_object)
    BY <1>1, <2>1, <2>3, StoreGrows
  <2>5. BookNotCrossed'
    <3>1. \A o \in b.others : ~Crosses(o, b.new) /\ ~Crosses(b.new, o) /\ ~Crosses(b.new, b.new)
      BY <1>1, <1>2, <1>3, <1>7, CrossesBoth
    <3>2. ~Crosses(b.new, b.new)
      BY <1>1, CrossesBoth
    <3>3. QED  BY <1>5, <2>1, <3>1, <3>2 DEF BookNotCrossed
  <2>6. \A o \in orders' : o.id < next_order' /\ ~IsDust(o)
    <3>1. ASSUME NEW o \in b.others PROVE o.id < next_order' /\ ~IsDust(o)
      BY <1>1, <1>3, <1>4 DEF OrderLeft
    <3>2. QED  BY <1>4, <1>7, <2>1, <3>1
  <2>7. \A o, p \in orders' : o.id = p.id => o = p
    <3>1. \A o \in b.others : o.id # b.new.id
      BY <1>3, <1>4
    <3>2. QED  BY <1>1, <2>1, <3>1
  <2>8. OrdersInv'
    BY <1>4, <2>4, <2>5, <2>6, <2>7 DEF OrdersInv
  <2>9. OrderWorth[b.new] = Rest(b.new)
    BY <1>7, <2>3 DEF OrderWorth, Rest
  <2>10. ASSUME NEW s \in Asset
         PROVE  /\ Held(OrderWorth, b.others, s) \in Nat /\ Rest(b.new)[s] \in Nat
                /\ Held(OrderWorth, orders', s) = Held(OrderWorth, b.others, s) + Rest(b.new)[s]
    BY <1>1, <2>1, <2>2, <2>3, <2>9, WorthsPay, StoreAdd
  <2>11. QED  BY <2>8, <2>10 DEF PlacedMoney
<1>8. QED  BY <1>6, <1>7

(* Placing an order keeps the invariant. *)
LEMMA PlaceKeeps ==
  ASSUME IInv, UNCHANGED <<savingsVars, escrows, crowdVars, use>>,
         NEW a \in Signer, NEW oid \in OrderId, NEW s \in Asset, NEW n \in Nat \ {0},
         NEW price \in APrice, NEW life \in OrderLife, NEW kill, AtPrice(n, price) > 0,
         PlaceOrder(a, oid, s, n, price, life, kill)
  PROVE  IInv'
<1>1. PICK new : new = [id |-> next_order, seller |-> a, orderid |-> oid, sells |-> s,
                        for_sale |-> n, price |-> price, expiration |-> now + life]
  OBVIOUS
<1>2. PICK held : held = Debit(balance, a, Amount(n, s))
  OBVIOUS
<1>3. PICK b : b = apply_order(new, held)
  OBVIOUS
<1>4. /\ balance[a][s] >= n /\ balance' = b.held /\ trades' = b.trades
      /\ orders' = Placed(b)
      /\ next_order' = next_order + 1 /\ UNCHANGED <<savings, supply, now, converts, median>>
  BY <1>1, <1>2, <1>3 DEF PlaceOrder, Placed
<1>5. /\ OrdersInv /\ next_order \in Nat /\ a \in Account /\ now + life \in Nat
      /\ balance \in [Account -> Holding]
  BY MarketAssumption, MaxTimeAssumption DEF IInv, OrdersInv, Signer, AccountsTypeOK
<1>6. new \in limit_order_object /\ new.id = next_order
  BY <1>1, <1>5 DEF limit_order_object, APrice
<1>7. ~IsDust(new)
  BY <1>1 DEF IsDust
<1>8. Amount(n, s) \in Holding /\ Covers(balance[a], Amount(n, s))
  <2>1. balance[a] \in Holding
    BY <1>5
  <2>2. QED  BY <1>4, <2>1 DEF Amount, Holding, Covers
<1>9. /\ held \in [Account -> Holding]
      /\ \A t \in Asset : /\ TotalHeld(balance, t) \in Int /\ Amount(n, s)[t] \in Nat
                          /\ TotalHeld(held, t) = TotalHeld(balance, t) - Amount(n, s)[t]
  BY <1>2, <1>5, <1>8, DebitHolds
<1>10. PICK total : total = [t \in Asset |->
                      TotalHeld(held, t) + Held(OrderWorth, orders, t) + ForSale(new)[t]]
  OBVIOUS
<1>11. \A t \in Asset : total[t] = TotalHeld(held, t) + Held(OrderWorth, orders, t) + ForSale(new)[t]
  BY <1>10
<1>12. BookSound(b, new, total) /\ (IsDust(b.new) \/ b.left = {})
  BY <1>3, <1>5, <1>6, <1>7, <1>9, <1>11, ApplySound
<1>13. OrdersInv' /\ PlacedMoney(b, orders')
  BY <1>4, <1>5, <1>6, <1>12, BookPlaced
<1>14. b.held \in [Account -> Holding] /\ b.trades \in Seq(Honest)
  BY <1>12 DEF BookSound
<1>15. TradesHonourLimits'
  <2>1. ASSUME NEW i \in DOMAIN trades'
        PROVE  LET f == trades'[i] IN
                 /\ f.receives > 0 /\ f.receives >= AtPrice(f.pays, f.new.price)
                 /\ f.pays > 0 /\ f.pays >= AtPrice(f.receives, f.old.price)
    <3>1. trades'[i] \in Honest
      BY <1>4, <1>14, <2>1
    <3>2. QED  BY <3>1 DEF Honest
  <2>2. QED  BY <2>1 DEF TradesHonourLimits
<1>16. ASSUME NEW t \in Asset
       PROVE  TotalHeld(balance', t) + Held(OrderWorth, orders', t) =
              TotalHeld(balance, t) + Held(OrderWorth, orders, t)
  <2>1. TotalHeld(b.held, t) + Held(OrderWorth, b.others, t) + Rest(b.new)[t] = total[t]
    BY <1>12 DEF BookSound, BookMoney
  <2>2. total[t] = TotalHeld(balance, t) - Amount(n, s)[t] + Held(OrderWorth, orders, t) + Amount(n, s)[t]
    BY <1>1, <1>9, <1>11 DEF ForSale
  <2>3. /\ TotalHeld(balance, t) \in Int /\ Amount(n, s)[t] \in Nat /\ Held(OrderWorth, orders, t) \in Nat
    BY <1>9, BooksType
  <2>4. TotalHeld(b.held, t) \in Int
    BY <1>14, CreditHolds, AccountAssumption
  <2>5. /\ Held(OrderWorth, b.others, t) \in Nat /\ Rest(b.new)[t] \in Nat
        /\ Held(OrderWorth, orders', t) = Held(OrderWorth, b.others, t) + Rest(b.new)[t]
    BY <1>13 DEF PlacedMoney
  <2>6. TotalHeld(balance', t) = TotalHeld(b.held, t)
    BY <1>4, Zenon
  <2>7. QED  BY <2>1, <2>2, <2>3, <2>4, <2>5, <2>6
<1>17. QED  BY <1>4, <1>13, <1>14, <1>15, <1>16, MarketStep

(* Cancelling an order keeps the invariant. *)
LEMMA CancelOrderKeeps ==
  ASSUME IInv, UNCHANGED <<savingsVars, escrows, crowdVars, use>>,
         NEW o \in orders, limit_order_cancel(o)
  PROVE  IInv'
<1>1. /\ balance' = Credit(balance, o.seller, ForSale(o)) /\ orders' = orders \ {o}
      /\ trades' = <<>> /\ UNCHANGED <<savings, supply, now, next_order, converts, median>>
  BY DEF limit_order_cancel
<1>2. /\ OrdersInv /\ Store(orders, limit_order_object) /\ Pays(limit_order_object, OrderWorth)
      /\ balance \in [Account -> Holding]
  BY WorthsPay DEF IInv, OrdersInv, AccountsTypeOK
<1>3. o \in limit_order_object /\ o.seller \in Account /\ OrderWorth[o] = ForSale(o)
  BY <1>2 DEF Store, limit_order_object, OrderWorth
<1>4. ForSale(o) \in Holding
  BY <1>2, <1>3 DEF Pays
<1>5. /\ balance' \in [Account -> Holding]
      /\ \A s \in Asset : /\ TotalHeld(balance, s) \in Int /\ ForSale(o)[s] \in Nat
                          /\ TotalHeld(balance', s) = TotalHeld(balance, s) + ForSale(o)[s]
  BY <1>1, <1>2, <1>3, <1>4, CreditHolds
<1>6. ASSUME NEW s \in Asset
      PROVE  /\ Held(OrderWorth, orders, s) \in Nat
             /\ Held(OrderWorth, orders', s) = Held(OrderWorth, orders, s) - ForSale(o)[s]
  <2>1. PICK R : R = orders \ {o}
    OBVIOUS
  <2>2. Held(OrderWorth, orders, s) \in Nat /\ Held(OrderWorth, R, s) = Held(OrderWorth, orders, s) - ForSale(o)[s]
    BY <1>2, <1>3, <2>1, StoreRemove
  <2>3. Held(OrderWorth, orders', s) = Held(OrderWorth, R, s)
    BY <1>1, <2>1, Zenon
  <2>4. QED  BY <2>2, <2>3
<1>7. OrdersInv'
  <2>1. Store(orders', limit_order_object)
    BY <1>1, <1>2, FS_RemoveElement DEF Store
  <2>2. QED  BY <1>1, <1>2, <2>1 DEF OrdersInv, BookNotCrossed
<1>8. TradesHonourLimits'
  BY <1>1, NoTrades
<1>9. \A s \in Asset : TotalHeld(balance', s) + Held(OrderWorth, orders', s) =
                       TotalHeld(balance, s) + Held(OrderWorth, orders, s)
  BY <1>5, <1>6
<1>10. QED  BY <1>1, <1>5, <1>7, <1>8, <1>9, MarketStep

(* All that is done in the market keeps the invariant. *)
LEMMA MarketKeeps == ASSUME IInv, UseMarket PROVE IInv'
<1>1. UNCHANGED <<savingsVars, escrows, crowdVars, use>>
  BY DEF UseMarket
<1>2. \A n \in use.amounts : n \in Nat \ {0}
  BY UsesAssumption DEF IInv
<1>3. \A p \in Price : p \in APrice
  BY PriceAssumption DEF APrice
<1>4. ASSUME NEW a \in Signer, NEW oid \in OrderId, NEW s \in Asset, NEW n \in use.amounts,
             NEW m \in use.amounts, NEW life \in OrderLife, NEW kill \in BOOLEAN,
             limit_order_create(a, oid, s, n, m, life, kill)
      PROVE  IInv'
  <2>1. PICK price : price = <<n, m>>
    OBVIOUS
  <2>2. price \in APrice /\ n \in Nat \ {0} /\ m \in Nat \ {0} /\ price[1] = n /\ price[2] = m
    BY <1>2, <2>1 DEF APrice
  <2>3. AtPrice(n, price) > 0
    <3>1. PICK x \in Nat : x = n * m
      BY <2>2
    <3>2. m * n <= x
      BY <2>2, <3>1
    <3>3. m <= x \div n /\ x \div n \in Nat
      BY <2>2, <3>2, DivDown
    <3>4. AtPrice(n, price) = x \div n
      BY <2>2, <3>1 DEF AtPrice
    <3>5. QED  BY <2>2, <3>3, <3>4
  <2>4. PlaceOrder(a, oid, s, n, price, life, kill)
    BY <1>4, <2>1 DEF limit_order_create
  <2>5. QED  BY <1>1, <2>2, <2>3, <2>4, PlaceKeeps
<1>5. ASSUME NEW a \in Signer, NEW oid \in OrderId, NEW s \in Asset, NEW n \in use.amounts,
             NEW p \in Price, NEW life \in OrderLife, NEW kill \in BOOLEAN,
             limit_order_create2(a, oid, s, n, p, life, kill)
      PROVE  IInv'
  <2>1. p \in APrice /\ n \in Nat \ {0}
    BY <1>2, <1>3
  <2>2. AtPrice(n, p) > 0 /\ PlaceOrder(a, oid, s, n, p, life, kill)
    BY <1>5 DEF limit_order_create2
  <2>3. QED  BY <1>1, <2>1, <2>2, PlaceKeeps
<1>6. ASSUME NEW o \in orders, limit_order_cancel(o) PROVE IInv'
  BY <1>1, <1>6, CancelOrderKeeps
<1>7. QED  BY <1>4, <1>5, <1>6 DEF UseMarket

-----------------------------------------------------------------------------
(* The settlement of a block *)

CampaignWorth == [c \in crowdfunding_object |-> Amount(c.curator_raise_value, "GBC")]
IssuedWorth(m) == [c \in convert_request |-> Issued(c, m)]

(* The total of what accounts hold is a natural number. *)
LEMMA TotalNat ==
  ASSUME NEW held \in [Account -> Holding], NEW s \in Asset
  PROVE  TotalHeld(held, s) \in Nat
<1>1. PICK f : f = [a \in Account |-> held[a][s]]
  OBVIOUS
<1>2. IsFiniteSet(Account) /\ \A a \in Account : f[a] \in Int /\ f[a] >= 0
  BY <1>1, AccountAssumption DEF Holding
<1>3. SumFunctionOnSet(f, Account) \in Int /\ SumFunctionOnSet(f, Account) >= 0
  BY <1>2, SumType
<1>4. TotalHeld(held, s) = SumFunctionOnSet(f, Account)
  BY <1>1 DEF TotalHeld, SumFunction
<1>5. QED  BY <1>3, <1>4

(* clear_null_account_balance() takes what the null account has off the total. *)
LEMMA ClearedTotal ==
  ASSUME NEW b \in [Account -> Holding], NEW c, c = Cleared(b)
  PROVE  /\ c \in [Account -> Holding]
         /\ \A s \in Asset : /\ TotalHeld(b, s) \in Int /\ b[NullAccount][s] \in Nat
                             /\ TotalHeld(c, s) = TotalHeld(b, s) - b[NullAccount][s]
<1>1. NullAccount \in Account /\ b[NullAccount] \in Holding
  BY AccountAssumption
<1>2. Less(b[NullAccount], b[NullAccount]) = Nothing /\ Covers(b[NullAccount], b[NullAccount])
  BY <1>1 DEF Less, Nothing, Holding, Covers
<1>3. c = Debit(b, NullAccount, b[NullAccount])
  BY <1>2 DEF Cleared, Debit
<1>4. QED  BY <1>1, <1>2, <1>3, DebitHolds

(* Expired orders are paid back to their sellers. *)
OrdersBack(new, held, S) == new = CreditAll(held, S, LAMBDA x : x.seller, ForSale)

(* Which adds what they hold to the accounts. *)
LEMMA OrdersPaid ==
  ASSUME NEW held \in [Account -> Holding], NEW S, Store(S, limit_order_object),
         NEW new, OrdersBack(new, held, S)
  PROVE  /\ new \in [Account -> Holding]
         /\ \A s \in Asset : /\ TotalHeld(held, s) \in Int
                             /\ TotalHeld(new, s) = TotalHeld(held, s) + Held(OrderWorth, S, s)
<1>1. PICK own : own = [x \in limit_order_object |-> x.seller]
  OBVIOUS
<1>2. PICK paid : paid = OrderWorth
  OBVIOUS
<1>3. Pays(limit_order_object, paid) /\ Store(S, limit_order_object)
  BY <1>2, WorthsPay
<1>4. \A x \in S : own[x] = x.seller /\ own[x] \in Account /\ paid[x] = ForSale(x)
  BY <1>1, <1>2 DEF Store, limit_order_object, OrderWorth
<1>5. new = [a \in Account |-> [s \in Asset |->
               held[a][s] + SumFunctionOnSet([x \in S |-> ForSale(x)[s]], {x \in S : x.seller = a})]]
  BY DEF OrdersBack, CreditAll
<1>6. ASSUME NEW a \in Account, NEW s \in Asset
      PROVE  new[a][s] =
               held[a][s] + SumFunctionOnSet([x \in S |-> paid[x][s]], {x \in S : own[x] = a})
  <2>1. {x \in S : x.seller = a} = {x \in S : own[x] = a}
    BY <1>4
  <2>2. [x \in S |-> ForSale(x)[s]] = [x \in S |-> paid[x][s]]
    BY <1>4
  <2>3. new[a][s] =
          held[a][s] + SumFunctionOnSet([x \in S |-> ForSale(x)[s]], {x \in S : x.seller = a})
    BY <1>5
  <2>4. QED  BY <2>1, <2>2, <2>3, Zenon
<1>7. new = [a \in Account |-> [s \in Asset |-> new[a][s]]]
  BY <1>5
<1>8. Credited(new, held, S, own, paid)
  BY <1>6, <1>7 DEF Credited
<1>9. \A x \in S : own[x] \in Account
  BY <1>4
<1>10. /\ new \in [Account -> Holding]
       /\ \A s \in Asset : /\ TotalHeld(held, s) \in Int
                           /\ TotalHeld(new, s) = TotalHeld(held, s) + Held(paid, S, s)
  BY <1>3, <1>8, <1>9, CreditAllTotal
<1>11. QED  BY <1>2, <1>10

(* Withdrawals are paid to the accounts they name. *)
WithdrawsOut(new, held, S) == new = CreditAll(held, S, LAMBDA x : x.to, LAMBDA x : x.amount)

(* Which adds what they hold to the accounts. *)
LEMMA WithdrawsPaid ==
  ASSUME NEW held \in [Account -> Holding], NEW S, Store(S, SavingsWithdraw),
         NEW new, WithdrawsOut(new, held, S)
  PROVE  /\ new \in [Account -> Holding]
         /\ \A s \in Asset : /\ TotalHeld(held, s) \in Int
                             /\ TotalHeld(new, s) = TotalHeld(held, s) + Held(WithdrawWorth, S, s)
<1>1. PICK own : own = [x \in SavingsWithdraw |-> x.to]
  OBVIOUS
<1>2. PICK paid : paid = WithdrawWorth
  OBVIOUS
<1>3. Pays(SavingsWithdraw, paid) /\ Store(S, SavingsWithdraw)
  BY <1>2, WorthsPay
<1>4. \A x \in S : own[x] = x.to /\ own[x] \in Account /\ paid[x] = x.amount
  BY <1>1, <1>2 DEF Store, SavingsWithdraw, WithdrawWorth
<1>5. new = [a \in Account |-> [s \in Asset |->
               held[a][s] + SumFunctionOnSet([x \in S |-> x.amount[s]], {x \in S : x.to = a})]]
  BY DEF WithdrawsOut, CreditAll
<1>6. ASSUME NEW a \in Account, NEW s \in Asset
      PROVE  new[a][s] =
               held[a][s] + SumFunctionOnSet([x \in S |-> paid[x][s]], {x \in S : own[x] = a})
  <2>1. {x \in S : x.to = a} = {x \in S : own[x] = a}
    BY <1>4
  <2>2. [x \in S |-> x.amount[s]] = [x \in S |-> paid[x][s]]
    BY <1>4
  <2>3. new[a][s] =
          held[a][s] + SumFunctionOnSet([x \in S |-> x.amount[s]], {x \in S : x.to = a})
    BY <1>5
  <2>4. QED  BY <2>1, <2>2, <2>3, Zenon
<1>7. new = [a \in Account |-> [s \in Asset |-> new[a][s]]]
  BY <1>5
<1>8. Credited(new, held, S, own, paid)
  BY <1>6, <1>7 DEF Credited
<1>9. \A x \in S : own[x] \in Account
  BY <1>4
<1>10. /\ new \in [Account -> Holding]
       /\ \A s \in Asset : /\ TotalHeld(held, s) \in Int
                           /\ TotalHeld(new, s) = TotalHeld(held, s) + Held(paid, S, s)
  BY <1>3, <1>8, <1>9, CreditAllTotal
<1>11. QED  BY <1>2, <1>10

(* Investments are paid back. *)
InvestsBack(new, held, S) == new = CreditAll(held, S, LAMBDA x : x.invester, LAMBDA x : Amount(x.raise, "GBC"))

(* Which adds what they hold to the accounts. *)
LEMMA InvestsPaid ==
  ASSUME NEW held \in [Account -> Holding], NEW S, Store(S, crowdfunding_invest_object),
         NEW new, InvestsBack(new, held, S)
  PROVE  /\ new \in [Account -> Holding]
         /\ \A s \in Asset : /\ TotalHeld(held, s) \in Int
                             /\ TotalHeld(new, s) = TotalHeld(held, s) + Held(InvestWorth, S, s)
<1>1. PICK own : own = [x \in crowdfunding_invest_object |-> x.invester]
  OBVIOUS
<1>2. PICK paid : paid = InvestWorth
  OBVIOUS
<1>3. Pays(crowdfunding_invest_object, paid) /\ Store(S, crowdfunding_invest_object)
  BY <1>2, WorthsPay
<1>4. \A x \in S : own[x] = x.invester /\ own[x] \in Account /\ paid[x] = Amount(x.raise, "GBC")
  BY <1>1, <1>2 DEF Store, crowdfunding_invest_object, InvestWorth
<1>5. new = [a \in Account |-> [s \in Asset |->
               held[a][s] + SumFunctionOnSet([x \in S |-> Amount(x.raise, "GBC")[s]], {x \in S : x.invester = a})]]
  BY DEF InvestsBack, CreditAll
<1>6. ASSUME NEW a \in Account, NEW s \in Asset
      PROVE  new[a][s] =
               held[a][s] + SumFunctionOnSet([x \in S |-> paid[x][s]], {x \in S : own[x] = a})
  <2>1. {x \in S : x.invester = a} = {x \in S : own[x] = a}
    BY <1>4
  <2>2. [x \in S |-> Amount(x.raise, "GBC")[s]] = [x \in S |-> paid[x][s]]
    BY <1>4
  <2>3. new[a][s] =
          held[a][s] + SumFunctionOnSet([x \in S |-> Amount(x.raise, "GBC")[s]], {x \in S : x.invester = a})
    BY <1>5
  <2>4. QED  BY <2>1, <2>2, <2>3, Zenon
<1>7. new = [a \in Account |-> [s \in Asset |-> new[a][s]]]
  BY <1>5
<1>8. Credited(new, held, S, own, paid)
  BY <1>6, <1>7 DEF Credited
<1>9. \A x \in S : own[x] \in Account
  BY <1>4
<1>10. /\ new \in [Account -> Holding]
       /\ \A s \in Asset : /\ TotalHeld(held, s) \in Int
                           /\ TotalHeld(new, s) = TotalHeld(held, s) + Held(paid, S, s)
  BY <1>3, <1>8, <1>9, CreditAllTotal
<1>11. QED  BY <1>2, <1>10

(* What a campaign has raised is a holding. *)
LEMMA CampaignsPay == Pays(crowdfunding_object, CampaignWorth)
BY DEF Pays, CampaignWorth, crowdfunding_object, Amount, Holding

(* Campaigns are paid to their originators. *)
CampaignsOut(new, held, S) == new = CreditAll(held, S, LAMBDA x : x.originator, LAMBDA x : Amount(x.curator_raise_value, "GBC"))

(* Which adds what they hold to the accounts. *)
LEMMA CampaignsPaid ==
  ASSUME NEW held \in [Account -> Holding], NEW S, Store(S, crowdfunding_object),
         NEW new, CampaignsOut(new, held, S)
  PROVE  /\ new \in [Account -> Holding]
         /\ \A s \in Asset : /\ TotalHeld(held, s) \in Int
                             /\ TotalHeld(new, s) = TotalHeld(held, s) + Held(CampaignWorth, S, s)
<1>1. PICK own : own = [x \in crowdfunding_object |-> x.originator]
  OBVIOUS
<1>2. PICK paid : paid = CampaignWorth
  OBVIOUS
<1>3. Pays(crowdfunding_object, paid) /\ Store(S, crowdfunding_object)
  BY <1>2, CampaignsPay
<1>4. \A x \in S : own[x] = x.originator /\ own[x] \in Account /\ paid[x] = Amount(x.curator_raise_value, "GBC")
  BY <1>1, <1>2 DEF Store, crowdfunding_object, CampaignWorth
<1>5. new = [a \in Account |-> [s \in Asset |->
               held[a][s] + SumFunctionOnSet([x \in S |-> Amount(x.curator_raise_value, "GBC")[s]], {x \in S : x.originator = a})]]
  BY DEF CampaignsOut, CreditAll
<1>6. ASSUME NEW a \in Account, NEW s \in Asset
      PROVE  new[a][s] =
               held[a][s] + SumFunctionOnSet([x \in S |-> paid[x][s]], {x \in S : own[x] = a})
  <2>1. {x \in S : x.originator = a} = {x \in S : own[x] = a}
    BY <1>4
  <2>2. [x \in S |-> Amount(x.curator_raise_value, "GBC")[s]] = [x \in S |-> paid[x][s]]
    BY <1>4
  <2>3. new[a][s] =
          held[a][s] + SumFunctionOnSet([x \in S |-> Amount(x.curator_raise_value, "GBC")[s]], {x \in S : x.originator = a})
    BY <1>5
  <2>4. QED  BY <2>1, <2>2, <2>3, Zenon
<1>7. new = [a \in Account |-> [s \in Asset |-> new[a][s]]]
  BY <1>5
<1>8. Credited(new, held, S, own, paid)
  BY <1>6, <1>7 DEF Credited
<1>9. \A x \in S : own[x] \in Account
  BY <1>4
<1>10. /\ new \in [Account -> Holding]
       /\ \A s \in Asset : /\ TotalHeld(held, s) \in Int
                           /\ TotalHeld(new, s) = TotalHeld(held, s) + Held(paid, S, s)
  BY <1>3, <1>8, <1>9, CreditAllTotal
<1>11. QED  BY <1>2, <1>10

(* Unratified escrows are paid back. *)
EscrowsBack(new, held, S) == new = CreditAll(held, S, LAMBDA x : x.from, InEscrow)

(* Which adds what they hold to the accounts. *)
LEMMA EscrowsPaid ==
  ASSUME NEW held \in [Account -> Holding], NEW S, Store(S, escrow_object),
         NEW new, EscrowsBack(new, held, S)
  PROVE  /\ new \in [Account -> Holding]
         /\ \A s \in Asset : /\ TotalHeld(held, s) \in Int
                             /\ TotalHeld(new, s) = TotalHeld(held, s) + Held(EscrowWorth, S, s)
<1>1. PICK own : own = [x \in escrow_object |-> x.from]
  OBVIOUS
<1>2. PICK paid : paid = EscrowWorth
  OBVIOUS
<1>3. Pays(escrow_object, paid) /\ Store(S, escrow_object)
  BY <1>2, WorthsPay
<1>4. \A x \in S : own[x] = x.from /\ own[x] \in Account /\ paid[x] = InEscrow(x)
  BY <1>1, <1>2 DEF Store, escrow_object, EscrowWorth
<1>5. new = [a \in Account |-> [s \in Asset |->
               held[a][s] + SumFunctionOnSet([x \in S |-> InEscrow(x)[s]], {x \in S : x.from = a})]]
  BY DEF EscrowsBack, CreditAll
<1>6. ASSUME NEW a \in Account, NEW s \in Asset
      PROVE  new[a][s] =
               held[a][s] + SumFunctionOnSet([x \in S |-> paid[x][s]], {x \in S : own[x] = a})
  <2>1. {x \in S : x.from = a} = {x \in S : own[x] = a}
    BY <1>4
  <2>2. [x \in S |-> InEscrow(x)[s]] = [x \in S |-> paid[x][s]]
    BY <1>4
  <2>3. new[a][s] =
          held[a][s] + SumFunctionOnSet([x \in S |-> InEscrow(x)[s]], {x \in S : x.from = a})
    BY <1>5
  <2>4. QED  BY <2>1, <2>2, <2>3, Zenon
<1>7. new = [a \in Account |-> [s \in Asset |-> new[a][s]]]
  BY <1>5
<1>8. Credited(new, held, S, own, paid)
  BY <1>6, <1>7 DEF Credited
<1>9. \A x \in S : own[x] \in Account
  BY <1>4
<1>10. /\ new \in [Account -> Holding]
       /\ \A s \in Asset : /\ TotalHeld(held, s) \in Int
                           /\ TotalHeld(new, s) = TotalHeld(held, s) + Held(paid, S, s)
  BY <1>3, <1>8, <1>9, CreditAllTotal
<1>11. QED  BY <1>2, <1>10

(* What a conversion pays is a holding. *)
LEMMA IssuedPays == ASSUME NEW m \in Feed PROVE Pays(convert_request, IssuedWorth(m))
<1>1. ASSUME NEW c \in convert_request PROVE Issued(c, m) \in Holding
  <2>1. PICK x \in Nat : x = c.amount["GBD"]
    BY DEF convert_request, Holding, Asset
  <2>2. m[1] \in Nat \ {0} /\ m[2] \in Nat \ {0}
    BY PriceAssumption
  <2>3. x * m[2] \in Nat
    BY <2>2
  <2>4. AtPrice(x, m) \in Nat
    BY <2>2, <2>3, DivDown DEF AtPrice
  <2>5. QED  BY <2>1, <2>4 DEF Issued, Amount, Holding
<1>2. QED  BY <1>1 DEF Pays, IssuedWorth

(* Conversions are paid at the median price. *)
ConvertsOut(new, held, S, m) == new = CreditAll(held, S, LAMBDA x : x.owner, LAMBDA x : Issued(x, m))

(* Which adds what they hold to the accounts. *)
LEMMA ConvertsPaid ==
  ASSUME NEW held \in [Account -> Holding], NEW S, Store(S, convert_request), NEW m, m \in Feed \/ S = {},
         NEW new, ConvertsOut(new, held, S, m)
  PROVE  /\ new \in [Account -> Holding]
         /\ \A s \in Asset : /\ TotalHeld(held, s) \in Int
                             /\ TotalHeld(new, s) = TotalHeld(held, s) + Held(IssuedWorth(m), S, s)
<1>1. PICK own : own = [x \in convert_request |-> x.owner]
  OBVIOUS
<1>2. PICK paid : paid = IssuedWorth(m)
  OBVIOUS
<1>3. Pays(S, paid) /\ Store(S, S)
  BY <1>2, IssuedPays DEF Pays, Store
<1>4. \A x \in S : own[x] = x.owner /\ own[x] \in Account /\ paid[x] = Issued(x, m)
  BY <1>1, <1>2 DEF Store, convert_request, IssuedWorth
<1>5. new = [a \in Account |-> [s \in Asset |->
               held[a][s] + SumFunctionOnSet([x \in S |-> Issued(x, m)[s]], {x \in S : x.owner = a})]]
  BY DEF ConvertsOut, CreditAll
<1>6. ASSUME NEW a \in Account, NEW s \in Asset
      PROVE  new[a][s] =
               held[a][s] + SumFunctionOnSet([x \in S |-> paid[x][s]], {x \in S : own[x] = a})
  <2>1. {x \in S : x.owner = a} = {x \in S : own[x] = a}
    BY <1>4
  <2>2. [x \in S |-> Issued(x, m)[s]] = [x \in S |-> paid[x][s]]
    BY <1>4
  <2>3. new[a][s] =
          held[a][s] + SumFunctionOnSet([x \in S |-> Issued(x, m)[s]], {x \in S : x.owner = a})
    BY <1>5
  <2>4. QED  BY <2>1, <2>2, <2>3, Zenon
<1>7. new = [a \in Account |-> [s \in Asset |-> new[a][s]]]
  BY <1>5
<1>8. Credited(new, held, S, own, paid)
  BY <1>6, <1>7 DEF Credited
<1>9. \A x \in S : own[x] \in Account
  BY <1>4
<1>10. /\ new \in [Account -> Holding]
       /\ \A s \in Asset : /\ TotalHeld(held, s) \in Int
                           /\ TotalHeld(new, s) = TotalHeld(held, s) + Held(paid, S, s)
  BY <1>3, <1>8, <1>9, CreditAllTotal
<1>11. QED  BY <1>2, <1>10

(* At most one campaign is the first. *)
LEMMA OneFirst ==
  ASSUME CrowdInv, NEW c \in First, NEW d \in First
  PROVE  c = d
<1>1. SUFFICES ASSUME c # d PROVE FALSE
  OBVIOUS
<1>2. Before(c, d) /\ Before(d, c)
  BY <1>1 DEF First
<1>3. /\ c.expire \in Nat /\ d.expire \in Nat
      /\ c.originator \in Account /\ d.originator \in Account
  BY DEF First, CrowdInv, Store, crowdfunding_object
<1>4. c.originator \in Nat /\ d.originator \in Nat
  BY <1>3, AccountAssumption
<1>5. QED  BY <1>2, <1>3, <1>4 DEF Before

(* When none is settled nothing changes. *)
LEMMA NoneSettled ==
  ASSUME CrowdInv, NEW t, now \in Nat, now' \in Nat, now <= now', process_crowdfunding(t), last_expire' = last_expire,
         Settled(t) = {}
  PROVE  /\ CrowdInv' /\ Raised' = Raised /\ Refunded(t) = {} /\ Settled(t) \ Failed(t) = {}
<1>1. Failed(t) = {} /\ Refunded(t) = {}
  BY DEF Failed, Refunded
<1>2. campaigns' = campaigns /\ invests' = invests
  BY <1>1 DEF process_crowdfunding
<1>3. Raised' = Raised /\ First' = First
  BY <1>2 DEF Raised, First
<1>4. CampaignsKeyed'
  <2>1. \A c \in campaigns : c.expire \in Nat
    BY DEF CrowdInv, Store, crowdfunding_object
  <2>2. \A c \in campaigns : c.finish # 0 => c.expire <= now'
    BY <2>1 DEF CrowdInv, CampaignsKeyed
  <2>3. QED  BY <1>2, <2>2 DEF CrowdInv, CampaignsKeyed
<1>5. CampaignsCounted'
  <2>1. \A c : InvestedIn(c)' = InvestedIn(c)
    BY <1>2 DEF InvestedIn
  <2>2. QED  BY <1>2, <1>3, <2>1 DEF CrowdInv, CampaignsCounted, RaisedBy
<1>6. CrowdInv'
  BY <1>2, <1>4, <1>5 DEF CrowdInv
<1>7. QED  BY <1>1, <1>3, <1>6

(* The one that is settled is the first ever. *)
LEMMA OneSettled ==
  ASSUME CrowdInv, NEW t, now' = t, process_crowdfunding(t), last_expire' = last_expire,
         NEW c \in Settled(t), NEW k, k = (IF c \in Failed(t) THEN 2 ELSE 1),
         NEW d, d = [c EXCEPT !.finish = k]
  PROVE  /\ Settled(t) = {c} /\ c \in campaigns /\ c.expire <= t
         /\ campaigns' = (campaigns \ {c}) \cup {d}
         /\ \A e \in campaigns : e.finish = 0 /\ e.curator_raise_value = RaisedBy(InvestedIn(e))
         /\ Raised = invests /\ CrowdInv'
<1>1. c \in First /\ c \in campaigns /\ c.expire <= t /\ c.finish = 0
  BY DEF Settled, First
<1>2. Settled(t) = {c}
  BY <1>1, OneFirst DEF Settled
<1>3. campaigns' = (campaigns \ {c}) \cup {d}
  BY <1>2 DEF process_crowdfunding
<1>4. \A e \in campaigns : e.finish = 0 /\ e.curator_raise_value = RaisedBy(InvestedIn(e))
  BY <1>1, OneFirst DEF CrowdInv, CampaignsCounted
<1>5. Raised = invests
  BY <1>4 DEF Raised, CrowdInv, CampaignsKeyed
<1>6. /\ d \in crowdfunding_object /\ d.finish = k /\ k \in {1, 2} /\ d.expire = c.expire
      /\ d.originator = c.originator /\ d.permlink = c.permlink
  BY <1>1 DEF CrowdInv, Store, crowdfunding_object
<1>7. Store(campaigns', crowdfunding_object)
  <2>1. Store(campaigns \ {c}, crowdfunding_object)
    BY FS_RemoveElement, <1>1 DEF CrowdInv, Store
  <2>2. QED  BY <1>3, <1>6, <2>1, StoreGrows
<1>8. Store(invests', crowdfunding_invest_object) /\ invests' \subseteq invests
  <2>1. invests' \subseteq invests
    BY DEF process_crowdfunding
  <2>2. QED  BY <2>1, FS_Subset DEF CrowdInv, Store
<1>9. CampaignsKeyed'
  <2>1. \A e, f \in campaigns : e.originator = f.originator /\ e.permlink = f.permlink => e = f
    BY DEF CrowdInv, CampaignsKeyed
  <2>2. \A e, f \in campaigns' : e.originator = f.originator /\ e.permlink = f.permlink => e = f
    <3>1. \A e \in campaigns \ {c} : ~(e.originator = d.originator /\ e.permlink = d.permlink)
      BY <1>1, <1>6, <2>1
    <3>2. \A e \in campaigns' : e = d \/ (e \in campaigns /\ e \in campaigns \ {c})
      BY <1>3
    <3>3. ASSUME NEW e \in campaigns', NEW f \in campaigns',
                 e.originator = f.originator /\ e.permlink = f.permlink
          PROVE  e = f
      BY <2>1, <3>1, <3>2, <3>3
    <3>4. QED  BY <3>3
  <2>3. \A i \in invests' : \E e \in campaigns' : Invested(i, e) /\ i.expire = e.expire
    <3>1. ASSUME NEW i \in invests' PROVE \E e \in campaigns' : Invested(i, e) /\ i.expire = e.expire
      <4>1. PICK e \in campaigns : Invested(i, e) /\ i.expire = e.expire
        BY <1>8 DEF CrowdInv, CampaignsKeyed
      <4>2. CASE e = c
        <5>1. Invested(i, d) /\ i.expire = d.expire
          BY <1>6, <4>1, <4>2 DEF Invested
        <5>2. QED  BY <1>3, <5>1
      <4>3. CASE e # c
        BY <1>3, <4>1, <4>3
      <4>4. QED  BY <4>2, <4>3
    <3>2. QED  BY <3>1
  <2>4. \A e \in campaigns' : e.finish # 0 => e.expire <= now'
    BY <1>1, <1>3, <1>4, <1>6
  <2>5. QED  BY <2>2, <2>3, <2>4 DEF CampaignsKeyed, Invested
<1>10. CampaignsCounted'
  <2>1. \A e \in campaigns \ {c} : Before(c, e)
    BY <1>1 DEF First
  <2>2. \A e \in campaigns' \ {d} : Before(d, e)
    BY <1>3, <1>6, <2>1 DEF Before
  <2>3. d \in First'
    BY <1>3, <2>2 DEF First, Before
  <2>4. d.finish # 0
    BY <1>6
  <2>5. QED  BY <2>3, <2>4 DEF CampaignsCounted
<1>11. CrowdInv'
  BY <1>7, <1>8, <1>9, <1>10 DEF CrowdInv
<1>12. QED  BY <1>1, <1>2, <1>3, <1>4, <1>5, <1>11

(* process_crowdfunding() pays out what is no longer raised: the investments *)
(* in the campaign that has succeeded, or all that have expired with the one *)
(* that has failed.                                                          *)
LEMMA CrowdSettles ==
  ASSUME IInv, now' = now + 1, process_crowdfunding(now'), last_expire' = last_expire,
         NEW s \in Asset
  PROVE  /\ CrowdInv'
         /\ Store(Refunded(now'), crowdfunding_invest_object)
         /\ Store(Settled(now') \ Failed(now'), crowdfunding_object)
         /\ Held(InvestWorth, Refunded(now'), s) \in Nat
         /\ Held(CampaignWorth, Settled(now') \ Failed(now'), s) \in Nat
         /\ Held(InvestWorth, Raised', s) =
            Held(InvestWorth, Raised, s) - Held(InvestWorth, Refunded(now'), s)
            - Held(CampaignWorth, Settled(now') \ Failed(now'), s)
<1>1. /\ CrowdInv /\ Store(invests, crowdfunding_invest_object) /\ Store(campaigns, crowdfunding_object)
      /\ now \in Nat
  BY MaxTimeAssumption DEF IInv, CrowdInv, AccountsTypeOK
<1>2. PICK R : R = Refunded(now')
  OBVIOUS
<1>3. PICK P : P = Settled(now') \ Failed(now')
  OBVIOUS
<1>4. R \subseteq invests /\ P \subseteq campaigns
  BY <1>2, <1>3 DEF Refunded, Settled, First
<1>5. Store(R, crowdfunding_invest_object) /\ Store(P, crowdfunding_object)
  BY <1>1, <1>4, FS_Subset DEF Store
<1>6. Held(InvestWorth, R, s) \in Nat /\ Held(CampaignWorth, P, s) \in Nat
  BY <1>5, WorthsPay, CampaignsPay, StoreType
<1>7. Held(InvestWorth, Raised, s) \in Nat
  BY BooksType
<1>8. /\ CrowdInv'
      /\ Held(InvestWorth, Raised', s) =
         Held(InvestWorth, Raised, s) - Held(InvestWorth, R, s) - Held(CampaignWorth, P, s)
  <2>1. CASE Settled(now') = {}
    <3>1. CrowdInv' /\ Raised' = Raised /\ R = {} /\ P = {}
      <4>1. now' \in Nat /\ now <= now'
        BY <1>1
      <4>2. QED  BY <1>1, <1>2, <1>3, <2>1, <4>1, NoneSettled
    <3>2. Held(InvestWorth, R, s) = 0 /\ Held(CampaignWorth, P, s) = 0
      BY <3>1, StoreNone
    <3>3. Held(InvestWorth, Raised', s) = Held(InvestWorth, Raised, s)
      BY <3>1
    <3>4. QED  BY <1>7, <3>1, <3>2, <3>3
  <2>2. CASE Settled(now') # {}
    <3>1. PICK c \in Settled(now') : TRUE
      BY <2>2
    <3>2. PICK k : k = (IF c \in Failed(now') THEN 2 ELSE 1)
      OBVIOUS
    <3>3. PICK d : d = [c EXCEPT !.finish = k]
      OBVIOUS
    <3>4. /\ Settled(now') = {c} /\ c \in campaigns /\ c.expire <= now'
          /\ campaigns' = (campaigns \ {c}) \cup {d}
          /\ \A e \in campaigns : e.finish = 0 /\ e.curator_raise_value = RaisedBy(InvestedIn(e))
          /\ Raised = invests /\ CrowdInv'
      BY <1>1, <3>2, <3>3, OneSettled
    <3>5. d.finish = k /\ k # 0 /\ d.originator = c.originator /\ d.permlink = c.permlink
      BY <1>1, <3>2, <3>3, <3>4 DEF Store, crowdfunding_object
    <3>6. /\ \A e, f \in campaigns : e.originator = f.originator /\ e.permlink = f.permlink => e = f
          /\ \A i \in invests : \E e \in campaigns : Invested(i, e) /\ i.expire = e.expire
      BY <1>1 DEF CrowdInv, CampaignsKeyed
    <3>7. CASE c \in Failed(now')
      <4>1. R = {i \in invests : i.expire <= now'} /\ P = {} /\ invests' = invests \ R
        BY <1>2, <1>3, <3>4, <3>7 DEF Refunded, process_crowdfunding
      <4>2. Raised' = invests \ R
        <5>1. ASSUME NEW i \in invests \ R
              PROVE  \E e \in campaigns' : Invested(i, e) /\ e.finish = 0
          <6>1. PICK e \in campaigns : Invested(i, e) /\ i.expire = e.expire
            BY <3>6
          <6>2. e # c
            BY <3>4, <4>1, <6>1
          <6>3. QED  BY <3>4, <6>1, <6>2
        <5>2. Raised' = {i \in invests' : \E e \in campaigns' : Invested(i, e) /\ e.finish = 0}
          BY DEF Raised, Invested
        <5>3. QED  BY <4>1, <5>1, <5>2
      <4>3. Held(InvestWorth, invests \ R, s) = Held(InvestWorth, invests, s) - Held(InvestWorth, R, s)
        BY <1>1, <1>4, WorthsPay, StoreMinus
      <4>4. Held(CampaignWorth, P, s) = 0
        BY <4>1, StoreNone
      <4>5. Held(InvestWorth, Raised', s) = Held(InvestWorth, Raised, s) - Held(InvestWorth, R, s)
        BY <3>4, <4>2, <4>3, Zenon
      <4>6. QED  BY <1>6, <1>7, <3>4, <4>4, <4>5
    <3>8. CASE c \notin Failed(now')
      <4>1. Failed(now') = {} /\ R = {} /\ P = {c} /\ invests' = invests
        BY <1>2, <1>3, <3>4, <3>8 DEF Failed, Refunded, process_crowdfunding
      <4>2. PICK I : I = InvestedIn(c)
        OBVIOUS
      <4>3. I \subseteq invests
        BY <4>2 DEF InvestedIn
      <4>4. Raised' = invests \ I
        <5>1. Raised' = {i \in invests' : \E e \in campaigns' : Invested(i, e) /\ e.finish = 0}
          BY DEF Raised, Invested
        <5>2. ASSUME NEW i \in invests, ~Invested(i, c)
              PROVE  \E e \in campaigns' : Invested(i, e) /\ e.finish = 0
          <6>1. PICK e \in campaigns : Invested(i, e)
            BY <3>6
          <6>2. QED  BY <3>4, <5>2, <6>1
        <5>3. ASSUME NEW i \in invests, Invested(i, c), NEW e \in campaigns', Invested(i, e)
              PROVE  e.finish # 0
          <6>1. e.originator = c.originator /\ e.permlink = c.permlink
            BY <5>3 DEF Invested
          <6>2. e \in campaigns => e = c
            BY <3>4, <3>6, <6>1
          <6>3. e \in campaigns \ {c} \/ e = d
            BY <3>4
          <6>4. QED  BY <3>5, <6>2, <6>3
        <5>4. QED  BY <4>1, <4>2, <5>1, <5>2, <5>3 DEF InvestedIn
      <4>5. /\ Store(I, crowdfunding_invest_object)
            /\ Held(InvestWorth, invests \ I, s) = Held(InvestWorth, invests, s) - Held(InvestWorth, I, s)
        BY <1>1, <4>3, WorthsPay, StoreMinus
      <4>6. /\ Held(InvestWorth, I, "GBC") = RaisedBy(I) /\ RaisedBy(I) \in Nat
            /\ Held(InvestWorth, I, "GBD") = 0
        BY <4>5, RaisedWorth
      <4>7. Held(CampaignWorth, P, s) = CampaignWorth[c][s]
        <5>1. c \in crowdfunding_object
          BY <1>1, <3>4 DEF Store
        <5>2. QED  BY <4>1, <5>1, CampaignsPay, StoreOne
      <4>8. CampaignWorth[c] = Amount(RaisedBy(I), "GBC")
        BY <1>1, <3>4, <4>2 DEF CampaignWorth, Store
      <4>9. Held(CampaignWorth, P, s) = Held(InvestWorth, I, s)
        BY <4>6, <4>7, <4>8 DEF Amount, Asset
      <4>10. Held(InvestWorth, R, s) = 0
        BY <4>1, StoreNone
      <4>11. Held(InvestWorth, Raised', s) = Held(InvestWorth, Raised, s) - Held(InvestWorth, I, s)
        BY <3>4, <4>4, <4>5, Zenon
      <4>12. QED  BY <1>6, <1>7, <3>4, <4>9, <4>10, <4>11
    <3>9. QED  BY <3>7, <3>8
  <2>3. QED  BY <2>1, <2>2
<1>9. QED  BY <1>2, <1>3, <1>5, <1>6, <1>8, Zenon

(* process_savings_withdraws() counts the withdrawals it completes. *)
LEMMA WithdrawsSettle ==
  ASSUME SavingsInv, NEW t, process_savings_withdraws(t)
  PROVE  /\ SavingsInv' /\ withdraws' = withdraws \ CompletedWithdraws(t)
         /\ CompletedWithdraws(t) \subseteq withdraws
<1>1. PICK W : W = CompletedWithdraws(t)
  OBVIOUS
<1>2. /\ W \subseteq withdraws /\ withdraws' = withdraws \ W
      /\ requests' = [a \in Account |-> requests[a] - Cardinality({w \in W : w.from = a})]
  BY <1>1 DEF process_savings_withdraws, CompletedWithdraws
<1>3. /\ Store(withdraws, SavingsWithdraw) /\ requests \in [Account -> Int]
      /\ \A a \in Account : /\ requests[a] = Cardinality({w \in withdraws : w.from = a})
                            /\ requests[a] <= RequestLimit
  BY DEF SavingsInv, RequestsCounted
<1>4. Store(withdraws', SavingsWithdraw)
  BY <1>2, <1>3, FS_Subset DEF Store
<1>5. ASSUME NEW a \in Account
      PROVE  /\ requests'[a] \in Int /\ requests'[a] <= RequestLimit
             /\ requests'[a] = Cardinality({w \in withdraws' : w.from = a})
  <2>1. PICK A : A = {w \in withdraws : w.from = a}
    OBVIOUS
  <2>2. PICK B : B = {w \in W : w.from = a}
    OBVIOUS
  <2>3. IsFiniteSet(A) /\ IsFiniteSet(B) /\ A \cap B = B /\ {w \in withdraws' : w.from = a} = A \ B
    BY <1>2, <1>3, <2>1, <2>2, FS_Subset DEF Store
  <2>4. Cardinality(A) \in Nat /\ Cardinality(B) \in Nat /\ Cardinality(A \ B) = Cardinality(A) - Cardinality(B)
    BY <2>3, FS_CardinalityType, FS_Difference
  <2>5. requests'[a] = requests[a] - Cardinality(B) /\ requests[a] = Cardinality(A)
    BY <1>2, <1>3, <2>1, <2>2
  <2>6. Cardinality({w \in withdraws' : w.from = a}) = Cardinality(A \ B)
    BY <2>3, Zenon
  <2>7. requests[a] <= RequestLimit /\ RequestLimit \in Nat
    BY <1>3, SavingsAssumption
  <2>8. QED  BY <2>4, <2>5, <2>6, <2>7
<1>6. requests' \in [Account -> Int]
  BY <1>2, <1>5
<1>7. RequestsCounted'
  BY <1>5 DEF RequestsCounted
<1>8. QED  BY <1>1, <1>2, <1>4, <1>6, <1>7 DEF SavingsInv

(* expire_escrow_ratification() leaves no escrow behind its deadline. *)
LEMMA EscrowsSettle ==
  ASSUME EscrowInv, now \in Nat, now' = now + 1, expire_escrow_ratification(now')
  PROVE  /\ EscrowInv' /\ escrows' = escrows \ UnratifiedEscrows(now')
         /\ UnratifiedEscrows(now') \subseteq escrows
<1>1. /\ escrows' = escrows \ UnratifiedEscrows(now') /\ UnratifiedEscrows(now') \subseteq escrows
  BY DEF expire_escrow_ratification, UnratifiedEscrows
<1>2. Store(escrows', escrow_object)
  BY <1>1, FS_Subset DEF EscrowInv, Store
<1>3. RatificationEnforced'
  <2>1. ASSUME NEW e \in escrows'
        PROVE  IF is_approved(e) THEN e.pending_fee = Nothing ELSE now' < e.ratification_deadline
    <3>1. e \in escrows /\ e.ratification_deadline \in Nat
      BY <1>1 DEF EscrowInv, Store, escrow_object
    <3>2. ~is_approved(e) => ~(e.ratification_deadline <= now')
      BY <1>1, <3>1 DEF UnratifiedEscrows
    <3>3. is_approved(e) => e.pending_fee = Nothing
      BY <3>1 DEF EscrowInv, RatificationEnforced
    <3>4. QED  BY <3>1, <3>2, <3>3
  <2>2. QED  BY <2>1 DEF RatificationEnforced, is_approved
<1>4. QED  BY <1>1, <1>2, <1>3 DEF EscrowInv

(* clear_expired_orders() leaves a book that is still not crossed. *)
LEMMA OrdersSettle ==
  ASSUME OrdersInv, NEW X, X \subseteq orders, orders' = orders \ X, next_order' = next_order
  PROVE  OrdersInv'
<1>1. Store(orders', limit_order_object)
  BY FS_Subset DEF OrdersInv, Store
<1>2. QED  BY <1>1 DEF OrdersInv, BookNotCrossed

(* The supply after the conversions that are due. *)
LEMMA ConvertedIs ==
  ASSUME NEW sup, NEW D, D \subseteq convert_request, NEW m, NEW s \in Asset
  PROVE  Converted(sup, D, m)[s] =
           sup[s] + Held(IssuedWorth(m), D, s) - Held(ConvertWorth, D, s)
<1>1. [c \in D |-> Issued(c, m)[s]] = [c \in D |-> IssuedWorth(m)[c][s]]
  BY DEF IssuedWorth
<1>2. [c \in D |-> c.amount[s]] = [c \in D |-> ConvertWorth[c][s]]
  BY DEF ConvertWorth
<1>3. Converted(sup, D, m)[s] =
        sup[s] + SumFunction([c \in D |-> Issued(c, m)[s]]) - SumFunction([c \in D |-> c.amount[s]])
  BY DEF Converted, TotalOf
<1>4. QED  BY <1>1, <1>2, <1>3, Zenon DEF Held

(* The balances after a block: what has become due is paid, and the null     *)
(* account is cleared.                                                       *)
LEMMA BalanceSettles ==
  ASSUME IInv, NEW m \in Medians, NextBlock(m), NEW X, X = ExpiredOrders(now'),
         NEW D, D = DueConverts(now', m), NEW W, W = CompletedWithdraws(now'),
         NEW R, R = Refunded(now'), NEW P, P = Settled(now') \ Failed(now'),
         NEW E, E = UnratifiedEscrows(now'),
         Store(X, limit_order_object), Store(D, convert_request), Store(W, SavingsWithdraw),
         Store(R, crowdfunding_invest_object), Store(P, crowdfunding_object), Store(E, escrow_object)
  PROVE  /\ balance' \in [Account -> Holding] /\ savings' \in [Account -> Holding]
         /\ supply' = [s \in Asset |-> supply'[s]]
         /\ \E burned : \A s \in Asset :
              /\ burned[s] \in Int
              /\ TotalHeld(balance', s) + TotalHeld(savings', s) =
                 TotalHeld(balance, s) + TotalHeld(savings, s) - burned[s]
                 + Held(OrderWorth, X, s) + Held(IssuedWorth(m), D, s) + Held(WithdrawWorth, W, s)
                 + Held(InvestWorth, R, s) + Held(CampaignWorth, P, s) + Held(EscrowWorth, E, s)
              /\ Held(IssuedWorth(m), D, s) \in Nat
              /\ supply'[s] = supply[s] - burned[s] + Held(IssuedWorth(m), D, s) - Held(ConvertWorth, D, s)
<1>1. PICK u : u = CreditAll(balance, X, LAMBDA o : o.seller, ForSale)
  OBVIOUS
<1>2. PICK c : c = Cleared(u)
  OBVIOUS
<1>3. PICK v : v = CreditAll(c, D, LAMBDA x : x.owner, LAMBDA x : Issued(x, m))
  OBVIOUS
<1>4. PICK w : w = CreditAll(v, W, LAMBDA x : x.to, LAMBDA x : x.amount)
  OBVIOUS
<1>5. PICK r : r = CreditAll(w, R, LAMBDA i : i.invester, LAMBDA i : Amount(i.raise, "GBC"))
  OBVIOUS
<1>6. PICK p : p = CreditAll(r, P, LAMBDA x : x.originator,
                             LAMBDA x : Amount(x.curator_raise_value, "GBC"))
  OBVIOUS
<1>7. /\ OrdersBack(u, balance, X) /\ ConvertsOut(v, c, D, m) /\ WithdrawsOut(w, v, W)
      /\ InvestsBack(r, w, R) /\ CampaignsOut(p, r, P)
  BY <1>1, <1>3, <1>4, <1>5, <1>6
  DEF OrdersBack, ConvertsOut, WithdrawsOut, InvestsBack, CampaignsOut
<1>8. /\ balance' = CreditAll(p, E, LAMBDA x : x.from, InEscrow)
      /\ savings' = Cleared(savings)
      /\ supply' = Converted(Less(supply, Burned(u)), D, m)
  BY <1>1, <1>2, <1>3, <1>4, <1>5, <1>6, Zenon DEF NextBlock
<1>9. EscrowsBack(balance', p, E)
  BY <1>8 DEF EscrowsBack
<1>10. balance \in [Account -> Holding] /\ savings \in [Account -> Holding]
  BY DEF IInv, AccountsTypeOK
<1>11. m \in Feed \/ D = {}
  BY DEF Medians, DueConverts
<1>12. /\ u \in [Account -> Holding]
       /\ \A s \in Asset : /\ TotalHeld(balance, s) \in Int
                           /\ TotalHeld(u, s) = TotalHeld(balance, s) + Held(OrderWorth, X, s)
  BY <1>7, <1>10, OrdersPaid
<1>13. /\ c \in [Account -> Holding]
       /\ \A s \in Asset : /\ TotalHeld(u, s) \in Int /\ u[NullAccount][s] \in Nat
                           /\ TotalHeld(c, s) = TotalHeld(u, s) - u[NullAccount][s]
  BY <1>2, <1>12, ClearedTotal
<1>14. /\ v \in [Account -> Holding]
       /\ \A s \in Asset : /\ TotalHeld(c, s) \in Int
                           /\ TotalHeld(v, s) = TotalHeld(c, s) + Held(IssuedWorth(m), D, s)
  BY <1>7, <1>11, <1>13, ConvertsPaid
<1>15. /\ w \in [Account -> Holding]
       /\ \A s \in Asset : /\ TotalHeld(v, s) \in Int
                           /\ TotalHeld(w, s) = TotalHeld(v, s) + Held(WithdrawWorth, W, s)
  BY <1>7, <1>14, WithdrawsPaid
<1>16. /\ r \in [Account -> Holding]
       /\ \A s \in Asset : /\ TotalHeld(w, s) \in Int
                           /\ TotalHeld(r, s) = TotalHeld(w, s) + Held(InvestWorth, R, s)
  BY <1>7, <1>15, InvestsPaid
<1>17. /\ p \in [Account -> Holding]
       /\ \A s \in Asset : /\ TotalHeld(r, s) \in Int
                           /\ TotalHeld(p, s) = TotalHeld(r, s) + Held(CampaignWorth, P, s)
  BY <1>7, <1>16, CampaignsPaid
<1>18. /\ balance' \in [Account -> Holding]
       /\ \A s \in Asset : /\ TotalHeld(p, s) \in Int
                           /\ TotalHeld(balance', s) = TotalHeld(p, s) + Held(EscrowWorth, E, s)
  BY <1>9, <1>17, EscrowsPaid
<1>19. /\ savings' \in [Account -> Holding]
       /\ \A s \in Asset : /\ TotalHeld(savings, s) \in Int /\ savings[NullAccount][s] \in Nat
                           /\ TotalHeld(savings', s) = TotalHeld(savings, s) - savings[NullAccount][s]
  BY <1>8, <1>10, ClearedTotal
<1>20. \A s \in Asset : Burned(u)[s] = u[NullAccount][s] + savings[NullAccount][s]
  BY DEF Burned, Both
<1>21. ASSUME NEW s \in Asset
       PROVE  /\ Burned(u)[s] \in Int
              /\ TotalHeld(balance', s) + TotalHeld(savings', s) =
                 TotalHeld(balance, s) + TotalHeld(savings, s) - Burned(u)[s]
                 + Held(OrderWorth, X, s) + Held(IssuedWorth(m), D, s) + Held(WithdrawWorth, W, s)
                 + Held(InvestWorth, R, s) + Held(CampaignWorth, P, s) + Held(EscrowWorth, E, s)
              /\ Held(IssuedWorth(m), D, s) \in Nat
              /\ supply'[s] = supply[s] - Burned(u)[s] + Held(IssuedWorth(m), D, s) - Held(ConvertWorth, D, s)
  <2>1. Held(IssuedWorth(m), D, s) \in Nat
    <3>1. Pays(D, IssuedWorth(m)) /\ Store(D, D)
      BY <1>11, IssuedPays DEF Pays, Store
    <3>2. QED  BY <3>1, StoreType
  <2>2. /\ Held(OrderWorth, X, s) \in Nat /\ Held(WithdrawWorth, W, s) \in Nat
        /\ Held(InvestWorth, R, s) \in Nat /\ Held(CampaignWorth, P, s) \in Nat
        /\ Held(EscrowWorth, E, s) \in Nat
    BY WorthsPay, CampaignsPay, StoreType
  <2>3. /\ TotalHeld(balance, s) \in Int /\ TotalHeld(savings, s) \in Int
        /\ u[NullAccount][s] \in Nat /\ savings[NullAccount][s] \in Nat
        /\ Burned(u)[s] = u[NullAccount][s] + savings[NullAccount][s]
    BY <1>12, <1>13, <1>19, <1>20
  <2>4. TotalHeld(balance', s) =
          TotalHeld(balance, s) + Held(OrderWorth, X, s) - u[NullAccount][s]
          + Held(IssuedWorth(m), D, s) + Held(WithdrawWorth, W, s) + Held(InvestWorth, R, s)
          + Held(CampaignWorth, P, s) + Held(EscrowWorth, E, s)
    <3>1. TotalHeld(c, s) = TotalHeld(balance, s) + Held(OrderWorth, X, s) - u[NullAccount][s]
      BY <1>12, <1>13, <2>2, <2>3
    <3>2. TotalHeld(c, s) \in Int
      BY <2>2, <2>3, <3>1
    <3>3. TotalHeld(w, s) = TotalHeld(c, s) + Held(IssuedWorth(m), D, s) + Held(WithdrawWorth, W, s)
      BY <1>14, <1>15, <2>1, <2>2, <3>2
    <3>4. TotalHeld(p, s) = TotalHeld(w, s) + Held(InvestWorth, R, s) + Held(CampaignWorth, P, s)
      BY <1>16, <1>17, <2>2
    <3>5. TotalHeld(balance', s) = TotalHeld(p, s) + Held(EscrowWorth, E, s)
      BY <1>18
    <3>6. QED  BY <2>1, <2>2, <2>3, <3>1, <3>2, <3>3, <3>4, <3>5
  <2>5. TotalHeld(savings', s) = TotalHeld(savings, s) - savings[NullAccount][s]
    BY <1>19
  <2>6. supply'[s] = Less(supply, Burned(u))[s] + Held(IssuedWorth(m), D, s) - Held(ConvertWorth, D, s)
    BY <1>8, ConvertedIs DEF Store
  <2>7. Less(supply, Burned(u))[s] = supply[s] - Burned(u)[s]
    BY DEF Less
  <2>8. QED  BY <2>1, <2>2, <2>3, <2>4, <2>5, <2>6, <2>7
<1>22. supply' = [s \in Asset |-> supply'[s]]
  BY <1>8 DEF Converted, TotalOf
<1>23. QED  BY <1>18, <1>19, <1>21, <1>22

(* A block keeps the invariant. *)
LEMMA BlockKeeps == ASSUME IInv, NEW m \in Medians, NextBlock(m) PROVE IInv'
<1>1. /\ now < MaxTime /\ now' = now + 1 /\ median' = m
      /\ orders' = orders \ ExpiredOrders(now') /\ converts' = converts \ DueConverts(now', m)
      /\ process_savings_withdraws(now') /\ process_crowdfunding(now')
      /\ expire_escrow_ratification(now') /\ trades' = <<>>
      /\ next_order' = next_order /\ last_expire' = last_expire /\ use' = use
  BY Zenon DEF NextBlock
<1>2. now \in Nat /\ now' \in 0..MaxTime
  BY <1>1, MaxTimeAssumption DEF IInv, AccountsTypeOK
<1>3. PICK X : X = ExpiredOrders(now')
  OBVIOUS
<1>4. PICK D : D = DueConverts(now', m)
  OBVIOUS
<1>5. PICK W : W = CompletedWithdraws(now')
  OBVIOUS
<1>6. PICK R : R = Refunded(now')
  OBVIOUS
<1>7. PICK P : P = Settled(now') \ Failed(now')
  OBVIOUS
<1>8. PICK E : E = UnratifiedEscrows(now')
  OBVIOUS
<1>9. SavingsInv' /\ withdraws' = withdraws \ W /\ W \subseteq withdraws
  BY <1>1, <1>5, WithdrawsSettle DEF IInv
<1>10. EscrowInv' /\ escrows' = escrows \ E /\ E \subseteq escrows
  BY <1>1, <1>2, <1>8, EscrowsSettle DEF IInv
<1>11. X \subseteq orders /\ orders' = orders \ X /\ OrdersInv'
  <2>1. X \subseteq orders /\ orders' = orders \ X
    BY <1>1, <1>3 DEF ExpiredOrders
  <2>2. QED  BY <1>1, <2>1, OrdersSettle DEF IInv
<1>12. D \subseteq converts /\ converts' = converts \ D /\ ConvertsInv'
  <2>1. D \subseteq converts /\ converts' = converts \ D
    BY <1>1, <1>4 DEF DueConverts
  <2>2. m \in Feed \cup {NoFeed}
    BY DEF Medians
  <2>3. QED  BY <1>1, <2>1, <2>2, FS_Subset DEF IInv, ConvertsInv, Store
<1>13. ASSUME NEW s \in Asset
       PROVE  /\ CrowdInv' /\ Store(R, crowdfunding_invest_object) /\ Store(P, crowdfunding_object)
              /\ Held(InvestWorth, R, s) \in Nat /\ Held(CampaignWorth, P, s) \in Nat
              /\ Held(InvestWorth, Raised', s) =
                 Held(InvestWorth, Raised, s) - Held(InvestWorth, R, s) - Held(CampaignWorth, P, s)
  BY <1>1, <1>6, <1>7, CrowdSettles
<1>14. CrowdInv' /\ Store(R, crowdfunding_invest_object) /\ Store(P, crowdfunding_object)
  BY <1>13 DEF Asset
<1>15. /\ Store(orders, limit_order_object) /\ Store(converts, convert_request)
       /\ Store(withdraws, SavingsWithdraw) /\ Store(escrows, escrow_object)
  BY DEF IInv, OrdersInv, ConvertsInv, SavingsInv, EscrowInv
<1>16. ASSUME NEW s \in Asset
       PROVE  /\ Store(X, limit_order_object) /\ Held(OrderWorth, X, s) \in Nat
              /\ Held(OrderWorth, orders \ X, s) = Held(OrderWorth, orders, s) - Held(OrderWorth, X, s)
  BY <1>11, <1>15, WorthsPay, StoreMinus
<1>17. ASSUME NEW s \in Asset
       PROVE  /\ Store(D, convert_request) /\ Held(ConvertWorth, D, s) \in Nat
              /\ Held(ConvertWorth, converts \ D, s) =
                 Held(ConvertWorth, converts, s) - Held(ConvertWorth, D, s)
  BY <1>12, <1>15, WorthsPay, StoreMinus
<1>18. ASSUME NEW s \in Asset
       PROVE  /\ Store(W, SavingsWithdraw) /\ Held(WithdrawWorth, W, s) \in Nat
              /\ Held(WithdrawWorth, withdraws \ W, s) =
                 Held(WithdrawWorth, withdraws, s) - Held(WithdrawWorth, W, s)
  BY <1>9, <1>15, WorthsPay, StoreMinus
<1>19. ASSUME NEW s \in Asset
       PROVE  /\ Store(E, escrow_object) /\ Held(EscrowWorth, E, s) \in Nat
              /\ Held(EscrowWorth, escrows \ E, s) = Held(EscrowWorth, escrows, s) - Held(EscrowWorth, E, s)
  BY <1>10, <1>15, WorthsPay, StoreMinus
<1>20. /\ Store(X, limit_order_object) /\ Store(D, convert_request)
       /\ Store(W, SavingsWithdraw) /\ Store(E, escrow_object)
  BY <1>16, <1>17, <1>18, <1>19 DEF Asset
<1>21. /\ balance' \in [Account -> Holding] /\ savings' \in [Account -> Holding]
       /\ supply' = [s \in Asset |-> supply'[s]]
       /\ \E burned : \A s \in Asset :
            /\ burned[s] \in Int
            /\ TotalHeld(balance', s) + TotalHeld(savings', s) =
               TotalHeld(balance, s) + TotalHeld(savings, s) - burned[s]
               + Held(OrderWorth, X, s) + Held(IssuedWorth(m), D, s) + Held(WithdrawWorth, W, s)
               + Held(InvestWorth, R, s) + Held(CampaignWorth, P, s) + Held(EscrowWorth, E, s)
            /\ Held(IssuedWorth(m), D, s) \in Nat
            /\ supply'[s] = supply[s] - burned[s] + Held(IssuedWorth(m), D, s) - Held(ConvertWorth, D, s)
  BY <1>3, <1>4, <1>5, <1>6, <1>7, <1>8, <1>14, <1>20, BalanceSettles
<1>22. PICK burned : \A s \in Asset :
            /\ burned[s] \in Int
            /\ TotalHeld(balance', s) + TotalHeld(savings', s) =
               TotalHeld(balance, s) + TotalHeld(savings, s) - burned[s]
               + Held(OrderWorth, X, s) + Held(IssuedWorth(m), D, s) + Held(WithdrawWorth, W, s)
               + Held(InvestWorth, R, s) + Held(CampaignWorth, P, s) + Held(EscrowWorth, E, s)
            /\ Held(IssuedWorth(m), D, s) \in Nat
            /\ supply'[s] = supply[s] - burned[s] + Held(IssuedWorth(m), D, s) - Held(ConvertWorth, D, s)
  BY <1>21
<1>23. ASSUME NEW s \in Asset
       PROVE  /\ supply'[s] = Books(balance', savings', converts', orders', escrows', withdraws', Raised', s)
              /\ supply'[s] \in Nat
  <2>1. /\ Held(OrderWorth, orders', s) = Held(OrderWorth, orders, s) - Held(OrderWorth, X, s)
        /\ Held(ConvertWorth, converts', s) = Held(ConvertWorth, converts, s) - Held(ConvertWorth, D, s)
        /\ Held(WithdrawWorth, withdraws', s) = Held(WithdrawWorth, withdraws, s) - Held(WithdrawWorth, W, s)
        /\ Held(EscrowWorth, escrows', s) = Held(EscrowWorth, escrows, s) - Held(EscrowWorth, E, s)
    BY <1>9, <1>10, <1>11, <1>12, <1>16, <1>17, <1>18, <1>19, Zenon
  <2>2. /\ TotalHeld(balance, s) \in Int /\ TotalHeld(savings, s) \in Int
        /\ Held(ConvertWorth, converts, s) \in Nat /\ Held(OrderWorth, orders, s) \in Nat
        /\ Held(EscrowWorth, escrows, s) \in Nat /\ Held(WithdrawWorth, withdraws, s) \in Nat
        /\ Held(InvestWorth, Raised, s) \in Nat /\ supply[s] \in Nat
        /\ supply[s] = TotalHeld(balance, s) + TotalHeld(savings, s) + Held(ConvertWorth, converts, s)
                       + Held(OrderWorth, orders, s) + Held(EscrowWorth, escrows, s)
                       + Held(WithdrawWorth, withdraws, s) + Held(InvestWorth, Raised, s)
    BY BooksType DEF Books
  <2>3. TotalHeld(balance', s) \in Nat /\ TotalHeld(savings', s) \in Nat
    BY <1>21, TotalNat
  <2>4. /\ Held(ConvertWorth, converts', s) \in Nat /\ Held(OrderWorth, orders', s) \in Nat
        /\ Held(EscrowWorth, escrows', s) \in Nat /\ Held(WithdrawWorth, withdraws', s) \in Nat
        /\ Held(InvestWorth, Raised', s) \in Nat
    <3>1. Store(Raised', crowdfunding_invest_object)
      BY <1>14, FS_Subset DEF CrowdInv, Store, Raised
    <3>2. /\ Store(converts', convert_request) /\ Store(orders', limit_order_object)
          /\ Store(escrows', escrow_object) /\ Store(withdraws', SavingsWithdraw)
      BY <1>9, <1>10, <1>11, <1>12 DEF SavingsInv, EscrowInv, OrdersInv, ConvertsInv
    <3>3. QED  BY <3>1, <3>2, WorthsPay, StoreType
  <2>5. /\ Held(InvestWorth, Raised', s) =
           Held(InvestWorth, Raised, s) - Held(InvestWorth, R, s) - Held(CampaignWorth, P, s)
        /\ Held(InvestWorth, R, s) \in Nat /\ Held(CampaignWorth, P, s) \in Nat
    BY <1>13
  <2>6. /\ Held(OrderWorth, X, s) \in Nat /\ Held(ConvertWorth, D, s) \in Nat
        /\ Held(WithdrawWorth, W, s) \in Nat /\ Held(EscrowWorth, E, s) \in Nat
    BY <1>16, <1>17, <1>18, <1>19
  <2>7. /\ burned[s] \in Int /\ Held(IssuedWorth(m), D, s) \in Nat
        /\ TotalHeld(balance', s) + TotalHeld(savings', s) =
           TotalHeld(balance, s) + TotalHeld(savings, s) - burned[s]
           + Held(OrderWorth, X, s) + Held(IssuedWorth(m), D, s) + Held(WithdrawWorth, W, s)
           + Held(InvestWorth, R, s) + Held(CampaignWorth, P, s) + Held(EscrowWorth, E, s)
        /\ supply'[s] = supply[s] - burned[s] + Held(IssuedWorth(m), D, s) - Held(ConvertWorth, D, s)
    BY <1>22
  <2>8. supply'[s] = Books(balance', savings', converts', orders', escrows', withdraws', Raised', s)
    BY <2>1, <2>2, <2>3, <2>5, <2>6, <2>7 DEF Books
  <2>9. supply'[s] \in Nat
    BY <2>3, <2>4, <2>8 DEF Books
  <2>10. QED  BY <2>8, <2>9
<1>24. supply' \in Holding
  BY <1>21, <1>23 DEF Holding
<1>25. AccountsTypeOK'
  BY <1>2, <1>21, <1>24 DEF AccountsTypeOK
<1>26. BooksBalanced'
  BY <1>23 DEF BooksBalanced, Balanced
<1>27. use' \in Uses /\ TradesHonourLimits'
  BY <1>1, NoTrades DEF IInv
<1>28. QED  BY <1>9, <1>10, <1>11, <1>12, <1>14, <1>25, <1>26, <1>27, PartsHold

-----------------------------------------------------------------------------
(* The theorems *)

(* The invariant holds initially. *)
LEMMA InitInv == ASSUME Init PROVE IInv
<1>1. /\ use \in Uses /\ balance = use.opening /\ savings = [a \in Account |-> Nothing]
      /\ supply = [s \in Asset |-> TotalHeld(balance, s)] /\ now = 0
      /\ withdraws = {} /\ requests = [a \in Account |-> 0] /\ escrows = {}
      /\ orders = {} /\ next_order = 0 /\ trades = <<>> /\ converts = {} /\ median = NoFeed
      /\ campaigns = {} /\ invests = {} /\ last_expire = [a \in Account |-> -1]
  BY DEF Init, AccountsInit, SavingsInit, EscrowInit, MarketInit, CrowdInit
<1>2. balance \in [Account -> Holding] /\ savings \in [Account -> Holding]
  BY <1>1, UsesAssumption DEF Nothing, Holding
<1>3. supply \in Holding
  BY <1>1, <1>2, TotalNat DEF Holding
<1>4. AccountsTypeOK
  BY <1>1, <1>2, <1>3, MaxTimeAssumption DEF AccountsTypeOK
<1>5. IsFiniteSet({}) /\ Cardinality({}) = 0
  BY FS_EmptySet
<1>6. SavingsInv
  <2>1. \A a \in Account : {w \in withdraws : w.from = a} = {}
    BY <1>1
  <2>2. RequestsCounted
    BY <1>1, <1>5, <2>1, SavingsAssumption DEF RequestsCounted
  <2>3. QED  BY <1>1, <1>5, <2>2 DEF SavingsInv, Store
<1>7. EscrowInv
  BY <1>1, <1>5 DEF EscrowInv, Store, RatificationEnforced
<1>8. OrdersInv /\ ConvertsInv
  BY <1>1, <1>5 DEF OrdersInv, ConvertsInv, Store, BookNotCrossed
<1>9. CrowdInv
  BY <1>1, <1>5 DEF CrowdInv, Store, CampaignsKeyed, CampaignsCounted
<1>10. TradesHonourLimits
  BY <1>1 DEF TradesHonourLimits
<1>11. SupplyConserved
  <2>1. Raised = {} /\ Stores
    BY <1>1, <1>5 DEF Raised, Stores, Store
  <2>2. ASSUME NEW s \in Asset
        PROVE  supply[s] = Books(balance, savings, converts, orders, escrows, withdraws, Raised, s)
    <3>1. /\ Held(ConvertWorth, converts, s) = 0 /\ Held(OrderWorth, orders, s) = 0
          /\ Held(EscrowWorth, escrows, s) = 0 /\ Held(WithdrawWorth, withdraws, s) = 0
          /\ Held(InvestWorth, Raised, s) = 0
      BY <1>1, <2>1, StoreNone
    <3>2. TotalHeld(savings, s) = 0
      <4>1. PICK f : f = [a \in Account |-> savings[a][s]]
        OBVIOUS
      <4>2. IsFiniteSet(Account) /\ \A a \in Account : f[a] = 0 /\ f[a] \in Int
        BY <1>1, <4>1, AccountAssumption DEF Nothing
      <4>3. SumFunctionOnSet(f, Account) = 0
        BY <4>2, SumType
      <4>4. QED  BY <4>1, <4>3 DEF TotalHeld, SumFunction
    <3>3. supply[s] = TotalHeld(balance, s) /\ TotalHeld(balance, s) \in Nat
      BY <1>1, <1>2, TotalNat
    <3>4. QED  BY <3>1, <3>2, <3>3 DEF Books
  <2>3. QED  BY <2>1, <2>2, ConservedBalanced DEF BooksBalanced, Balanced
<1>12. QED  BY <1>1, <1>4, <1>6, <1>7, <1>8, <1>9, <1>10, <1>11 DEF IInv

(* Every step keeps it. *)
LEMMA NextInv == ASSUME IInv, [Next]_vars PROVE IInv'
<1>1. CASE Transfers
  BY <1>1, TransfersKeep
<1>2. CASE UseSavings
  BY <1>2, SavingsKeep
<1>3. CASE UseEscrow
  BY <1>3, EscrowKeeps
<1>4. CASE UseMarket
  BY <1>4, MarketKeeps
<1>5. CASE UseConversion
  BY <1>5, ConversionKeeps
<1>6. CASE UseCrowdfunding
  BY <1>6, CrowdfundingKeeps
<1>7. CASE \E m \in Medians : NextBlock(m)
  BY <1>7, BlockKeeps
<1>8. CASE UNCHANGED vars
  <2>1. /\ UNCHANGED <<balance, savings, supply, now, savingsVars, escrows, crowdVars, use>>
        /\ UNCHANGED <<orders, next_order, trades, converts, median>>
    BY <1>8 DEF vars, accounts, marketVars
  <2>2. OrdersInv' /\ TradesHonourLimits'
    BY <2>1, OrdersKept DEF IInv, TradesHonourLimits
  <2>3. balance' \in [Account -> Holding]
    BY <2>1 DEF IInv, AccountsTypeOK
  <2>4. QED  BY <2>1, <2>2, <2>3, MarketStep
<1>9. QED  BY <1>1, <1>2, <1>3, <1>4, <1>5, <1>6, <1>7, <1>8 DEF Next

(* The inductive invariant says what the runs check. *)
LEMMA InvSays == ASSUME IInv PROVE LedgerSound /\ BookNotCrossed /\ TradesHonourLimits
<1>1. SavingsTypeOK /\ EscrowTypeOK /\ MarketTypeOK /\ CrowdTypeOK
  BY DEF IInv, SavingsInv, EscrowInv, OrdersInv, ConvertsInv, CrowdInv, Store, convert_request,
         SavingsTypeOK, EscrowTypeOK, MarketTypeOK, CrowdTypeOK
<1>2. QED  BY <1>1 DEF IInv, SavingsInv, EscrowInv, OrdersInv, LedgerSound, TypeOK

(* The inductive invariant always holds. *)
THEOREM LedgerInv == Spec => []IInv
<1>1. Init => IInv
  BY InitInv
<1>2. IInv /\ [Next]_vars => IInv'
  BY NextInv
<1>3. QED  BY <1>1, <1>2, PTL DEF Spec

(* The books always balance: no operation and no settlement makes or loses   *)
(* money, no escrow outlives its deadline unratified, and the pending        *)
(* withdrawals of every account are counted (validate_invariants()).         *)
THEOREM LedgerAlwaysSound == Spec => []LedgerSound
<1>1. IInv => LedgerSound
  BY InvSays
<1>2. QED  BY <1>1, LedgerInv, PTL

(* After each operation and each block no two resting orders could trade:    *)
(* apply_order() always matches the new one as far as it goes.               *)
THEOREM BookNeverCrossed == Spec => []BookNotCrossed
<1>1. IInv => BookNotCrossed
  BY InvSays
<1>2. QED  BY <1>1, LedgerInv, PTL

(* No trade of match() is below a limit price, or for nothing, whatever the  *)
(* amounts and the prices.                                                   *)
THEOREM TradesAlwaysHonourLimits == Spec => []TradesHonourLimits
<1>1. IInv => TradesHonourLimits
  BY InvSays
<1>2. QED  BY <1>1, LedgerInv, PTL
=============================================================================
