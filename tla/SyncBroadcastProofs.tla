------------------------ MODULE SyncBroadcastProofs -------------------------
(***************************************************************************)
(* What is pending always applies, no transaction is applied twice or lost   *)
(* while it could be applied, and no callback outlives its promise: for      *)
(* any transactions, blocks, fork switches and clients.                      *)
(*                                                                           *)
(* All of it rests on what trying a list of transactions does (TriedSays),   *)
(* and on what each state of the chain remembers of the blocks below it      *)
(* (Remembers).                                                              *)
(***************************************************************************)
EXTENDS SyncBroadcast, NaturalsInduction, WellFoundedInduction, FiniteSetTheorems,
        SequenceTheorems, TLAPS

(* A block of the chain with its state; what trials have come to. *)
Entry == [block : Block, st : State]
Trial == [st : State, txs : Seq(Tx)]

-----------------------------------------------------------------------------
(* Runs of a loop *)

(* A set with 0 and the successor of each of its elements has every natural number. *)
LEMMA Counting ==
  ASSUME NEW Q, 0 \in Q, \A n \in Nat : n \in Q => n + 1 \in Q
  PROVE  \A n \in Nat : n \in Q
<1> SUFFICES ASSUME NEW k \in Nat, k \notin Q PROVE FALSE
  OBVIOUS
<1> DEFINE B == {n \in Nat : n \notin Q}
<1>1. \E x \in B : \A y \in B : ~(<<y, x>> \in OpToRel(<, Nat))
  BY NatLessThanWellFounded, WFMin
<1>2. PICK x \in B : \A y \in B : ~(<<y, x>> \in OpToRel(<, Nat))
  BY <1>1
<1>3. x \in Nat /\ x \notin Q
  BY <1>2
<1>4. x # 0
  BY <1>3
<1>5. x - 1 \in Nat /\ x - 1 < x /\ x = (x - 1) + 1
  BY <1>3, <1>4
<1>6. x - 1 \in Q
  BY <1>2, <1>5 DEF OpToRel
<1>7. QED  BY <1>3, <1>5, <1>6

(* f goes from a through N steps; the n-th is that of G[n], within X. *)
IsRun(f, a, N, G) == f = [n \in 0..N |-> IF n = 0 THEN a ELSE G[n][f[n - 1]]]

(* A loop whose steps stay in X has a run, which stays in X. *)
LEMMA RunExists ==
  ASSUME NEW X, NEW a \in X, NEW N \in Nat, NEW G \in [1..N -> [X -> X]]
  PROVE  \E f \in [0..N -> X] : IsRun(f, a, N, G)
<1> DEFINE Q == {n \in Nat : n <= N => \E f \in [0..n -> X] : IsRun(f, a, n, G)}
<1>1. 0 \in Q
  <2>1. PICK f : f = [n \in 0..0 |-> a]
    OBVIOUS
  <2>2. f \in [0..0 -> X] /\ f = [n \in 0..0 |-> IF n = 0 THEN a ELSE G[n][f[n - 1]]]
    BY <2>1
  <2>3. QED  BY <2>2 DEF IsRun
<1>2. ASSUME NEW n \in Nat, n \in Q PROVE n + 1 \in Q
  <2> SUFFICES ASSUME n + 1 <= N PROVE \E f \in [0..n + 1 -> X] : IsRun(f, a, n + 1, G)
    OBVIOUS
  <2>1. PICK f \in [0..n -> X] : IsRun(f, a, n, G)
    BY <1>2
  <2>2. f = [k \in 0..n |-> IF k = 0 THEN a ELSE G[k][f[k - 1]]]
    BY <2>1 DEF IsRun
  <2>3. PICK h : h = [k \in 0..n + 1 |-> IF k <= n THEN f[k] ELSE G[n + 1][f[n]]]
    OBVIOUS
  <2>4. f[n] \in X /\ G[n + 1] \in [X -> X]
    BY <2>1
  <2>5. h \in [0..n + 1 -> X]
    <3>1. ASSUME NEW k \in 0..n + 1 PROVE (IF k <= n THEN f[k] ELSE G[n + 1][f[n]]) \in X
      BY <2>1, <2>4
    <3>2. QED  BY <2>3, <3>1
  <2>6. ASSUME NEW k \in 0..n + 1 PROVE h[k] = IF k = 0 THEN a ELSE G[k][h[k - 1]]
    <3>1. CASE k = 0
      <4>1. 0 \in 0..n + 1 /\ 0 <= n /\ 0 \in 0..n
        OBVIOUS
      <4>2. QED  BY <2>2, <2>3, <3>1, <4>1
    <3>2. CASE k # 0 /\ k <= n
      <4>1. k \in 0..n /\ k - 1 \in 0..n + 1 /\ k - 1 <= n
        BY <3>2
      <4>2. QED  BY <2>2, <2>3, <3>2, <4>1
    <3>3. CASE k = n + 1
      <4>1. n \in 0..n + 1 /\ n <= n /\ k - 1 = n /\ ~(k <= n) /\ k # 0
        BY <3>3
      <4>2. QED  BY <2>3, <3>3, <4>1
    <3>4. QED  BY <3>1, <3>2, <3>3
  <2>7. h = [k \in 0..n + 1 |-> IF k = 0 THEN a ELSE G[k][h[k - 1]]]
    BY <2>3, <2>6
  <2>8. QED  BY <2>5, <2>7 DEF IsRun
<1>3. \A n \in Nat : n \in Q
  <2> HIDE DEF Q
  <2>1. QED  BY <1>1, <1>2, Counting
<1>4. QED  BY <1>3

(* Two functions that start alike and stay alike. *)
InStep(f, g, N) == f[0] = g[0] /\ \A n \in 1..N : f[n - 1] = g[n - 1] => f[n] = g[n]
Together(f, g, N) == \A n \in 0..N : f[n] = g[n]

(* Two runs that take the same steps are in the same places. *)
LEMMA SameRun ==
  ASSUME NEW N \in Nat, NEW f, NEW g, InStep(f, g, N)
  PROVE  Together(f, g, N)
<1> USE DEF InStep, Together
<1> DEFINE Q == {n \in Nat : n <= N => f[n] = g[n]}
<1>1. 0 \in Q
  OBVIOUS
<1>2. ASSUME NEW n \in Nat, n \in Q PROVE n + 1 \in Q
  <2> SUFFICES ASSUME n + 1 <= N PROVE f[n + 1] = g[n + 1]
    OBVIOUS
  <2>1. n + 1 \in 1..N /\ (n + 1) - 1 = n /\ f[n] = g[n]
    BY <1>2
  <2>2. QED  BY <2>1
<1>3. \A n \in Nat : n \in Q
  <2> HIDE DEF Q
  <2>1. QED  BY <1>1, <1>2, Counting
<1>4. QED  BY <1>3

(* What holds of <<>>, and of a list with one element more whenever it holds *)
(* of the list, holds of all lists.                                          *)
LEMMA Appending ==
  ASSUME NEW S, NEW Q, <<>> \in Q,
         \A s \in Seq(S) : \A x \in S : s \in Q => Append(s, x) \in Q
  PROVE  \A s \in Seq(S) : s \in Q
<1> DEFINE N == {n \in Nat : \A s \in Seq(S) : Len(s) = n => s \in Q}
<1>1. 0 \in N
  <2>1. \A s \in Seq(S) : Len(s) = 0 => s = <<>>
    OBVIOUS
  <2>2. QED  BY <2>1
<1>2. ASSUME NEW n \in Nat, n \in N PROVE n + 1 \in N
  <2> SUFFICES ASSUME NEW s \in Seq(S), Len(s) = n + 1 PROVE s \in Q
    OBVIOUS
  <2>1. PICK r : r = SubSeq(s, 1, n)
    OBVIOUS
  <2>2. r \in Seq(S) /\ Len(r) = n /\ s[n + 1] \in S
    BY <2>1
  <2>3. s = Append(r, s[n + 1])
    BY <2>1, <2>2
  <2>4. QED  BY <1>2, <2>2, <2>3
<1>3. \A n \in Nat : n \in N
  <2> HIDE DEF N
  <2>1. QED  BY <1>1, <1>2, Counting
<1>4. QED  BY <1>3

-----------------------------------------------------------------------------
(* Trying transactions *)

(* A transaction that applies becomes known and applied; another changes nothing. *)
LEMMA TryType ==
  ASSUME NEW x \in Trial, NEW t \in Tx
  PROVE  /\ Try(x, t) \in Trial
         /\ Applies(x.st, t) =>
              /\ Try(x, t).st = [known |-> x.st.known \cup {t}, applied |-> x.st.applied \cup {t},
                                 time |-> x.st.time]
              /\ Try(x, t).txs = Append(x.txs, t)
         /\ ~Applies(x.st, t) => Try(x, t) = x
<1>1. x.st \in State /\ x.txs \in Seq(Tx)
  BY DEF Trial
<1>a. ASSUME NEW st \in State
      PROVE  _apply_transaction(st, t) = [known |-> st.known \cup {t}, applied |-> st.applied \cup {t},
                                          time |-> st.time]
  <2>1. /\ st = [known |-> st.known, applied |-> st.applied, time |-> st.time]
        /\ DOMAIN st = {"known", "applied", "time"}
    BY DEF State
  <2>2. PICK r : r = [st EXCEPT !.known = @ \cup {t}]
    OBVIOUS
  <2>3. r = [known |-> st.known \cup {t}, applied |-> st.applied, time |-> st.time]
    BY <2>1, <2>2
  <2>4. r.applied = st.applied
    BY <2>3
  <2>5. [r EXCEPT !.applied = r.applied \cup {t}]
          = [known |-> st.known \cup {t}, applied |-> st.applied \cup {t}, time |-> st.time]
    <3>1. PICK a : a = st.applied \cup {t}
      OBVIOUS
    <3>2. [r EXCEPT !.applied = a] = [known |-> st.known \cup {t}, applied |-> a, time |-> st.time]
      BY <2>3
    <3>3. QED  BY <2>4, <3>1, <3>2
  <2>6. QED  BY <2>2, <2>4, <2>5 DEF _apply_transaction
<1>2. _apply_transaction(x.st, t) = [known |-> x.st.known \cup {t}, applied |-> x.st.applied \cup {t},
                                    time |-> x.st.time]
  BY <1>1, <1>a
<1>3. x.st.known \cup {t} \in SUBSET Tx /\ x.st.applied \cup {t} \in SUBSET Tx /\ x.st.time \in 0..MaxTime
  BY <1>1 DEF State
<1>4. _apply_transaction(x.st, t) \in State
  BY <1>2, <1>3 DEF State
<1>5. QED  BY <1>1, <1>2, <1>4 DEF Try, Trial

(* The trials of a list, recorded after each of its elements. *)
Untried(st) == [st |-> st, txs |-> <<>>]
IsTrial(g, st, txs) ==
  g = [n \in 0..Len(txs) |-> IF n = 0 THEN [st |-> st, txs |-> <<>>] ELSE Try(g[n - 1], txs[n])]

(* Trying a list is the run of a loop. *)
LEMMA TrialExists ==
  ASSUME NEW st \in State, NEW txs \in Seq(Tx)
  PROVE  \E g \in [0..Len(txs) -> Trial] : IsTrial(g, st, txs)
<1> DEFINE N == Len(txs)
           G == [n \in 1..N |-> [x \in Trial |-> Try(x, txs[n])]]
<1>1. N \in Nat /\ \A n \in 1..N : txs[n] \in Tx
  OBVIOUS
<1>2. G \in [1..N -> [Trial -> Trial]]
  BY <1>1, TryType
<1>3. Untried(st) \in Trial
  BY DEF Untried, Trial
<1> HIDE DEF N, G
<1>4. PICK g \in [0..N -> Trial] : IsRun(g, Untried(st), N, G)
  BY <1>1, <1>2, <1>3, RunExists
<1>5. g = [n \in 0..N |-> IF n = 0 THEN Untried(st) ELSE G[n][g[n - 1]]]
  BY <1>4 DEF IsRun
<1>6. ASSUME NEW n \in 0..N PROVE g[n] = IF n = 0 THEN Untried(st) ELSE Try(g[n - 1], txs[n])
  <2>1. CASE n = 0
    BY <1>5, <2>1
  <2>2. CASE n # 0
    <3>1. n \in 1..N /\ n - 1 \in 0..N
      BY <1>1, <2>2
    <3>2. g[n] = G[n][g[n - 1]] /\ g[n - 1] \in Trial
      BY <1>4, <1>5, <2>2, <3>1
    <3>3. G[n][g[n - 1]] = Try(g[n - 1], txs[n])
      BY <3>1, <3>2 DEF G
    <3>4. QED  BY <2>2, <3>2, <3>3
  <2>3. QED  BY <2>1, <2>2
<1>7. g = [n \in 0..N |-> IF n = 0 THEN Untried(st) ELSE Try(g[n - 1], txs[n])]
  BY <1>5, <1>6
<1>8. IsTrial(g, st, txs) /\ g \in [0..Len(txs) -> Trial]
  BY <1>4, <1>7 DEF IsTrial, Untried, N
<1>9. QED  BY <1>8

(* Any function that records the trials of a list step by step ends where    *)
(* Tried does.                                                               *)
LEMMA TriedRun ==
  ASSUME NEW st \in State, NEW txs \in Seq(Tx), NEW g, IsTrial(g, st, txs)
  PROVE  Tried(st, txs) = g[Len(txs)]
<1>1. PICK h : h = (CHOOSE f : IsTrial(f, st, txs))
  OBVIOUS
<1>2. IsTrial(h, st, txs)
  BY <1>1
<1>3. Tried(st, txs) = h[Len(txs)]
  BY <1>1 DEF Tried, IsTrial
<1> DEFINE N == Len(txs)
<1>4. N \in Nat
  OBVIOUS
<1>5. \A n \in 0..N : /\ g[n] = IF n = 0 THEN Untried(st) ELSE Try(g[n - 1], txs[n])
                      /\ h[n] = IF n = 0 THEN Untried(st) ELSE Try(h[n - 1], txs[n])
  BY <1>2 DEF IsTrial, Untried
<1>6. g[0] = h[0]
  BY <1>4, <1>5
<1>7. \A n \in 1..N : g[n - 1] = h[n - 1] => g[n] = h[n]
  <2>1. \A n \in 1..N : n \in 0..N /\ n # 0
    BY <1>4
  <2> HIDE DEF N
  <2>2. QED  BY <1>5, <2>1
<1> HIDE DEF N
<1>8. \A n \in 0..N : g[n] = h[n]
  <2>1. InStep(g, h, N)
    BY <1>6, <1>7 DEF InStep
  <2>2. Together(g, h, N)
    BY <1>4, <2>1, SameRun
  <2>3. QED  BY <2>2 DEF Together
<1>9. QED  BY <1>3, <1>4, <1>8 DEF N

(* Trying a list, and one more. *)
LEMMA TriedGrows ==
  ASSUME NEW st \in State
  PROVE  /\ Tried(st, <<>>) = Untried(st)
         /\ \A txs \in Seq(Tx) : Tried(st, txs) \in Trial
         /\ \A txs \in Seq(Tx) : \A t \in Tx : Tried(st, Append(txs, t)) = Try(Tried(st, txs), t)
<1>1. Tried(st, <<>>) = Untried(st)
  <2>1. <<>> \in Seq(Tx) /\ Len(<<>>) = 0
    OBVIOUS
  <2>2. PICK g \in [0..Len(<<>>) -> Trial] : IsTrial(g, st, <<>>)
    BY <2>1, TrialExists
  <2>3. Tried(st, <<>>) = g[0]
    BY <2>1, <2>2, TriedRun
  <2>4. g[0] = Untried(st)
    BY <2>1, <2>2 DEF IsTrial, Untried
  <2>5. QED  BY <2>3, <2>4
<1>2. ASSUME NEW txs \in Seq(Tx) PROVE Tried(st, txs) \in Trial
  <2>1. PICK g \in [0..Len(txs) -> Trial] : IsTrial(g, st, txs)
    BY TrialExists
  <2>2. QED  BY <2>1, TriedRun
<1>3. ASSUME NEW txs \in Seq(Tx), NEW t \in Tx
      PROVE  Tried(st, Append(txs, t)) = Try(Tried(st, txs), t)
  <2> DEFINE N == Len(txs)
             more == Append(txs, t)
  <2>1. /\ N \in Nat /\ more \in Seq(Tx) /\ Len(more) = N + 1 /\ more[N + 1] = t
        /\ \A n \in 1..N : more[n] = txs[n]
    OBVIOUS
  <2> HIDE DEF more
  <2>2. PICK g \in [0..Len(more) -> Trial] : IsTrial(g, st, more)
    BY <2>1, TrialExists
  <2>3. PICK h \in [0..Len(txs) -> Trial] : IsTrial(h, st, txs)
    BY TrialExists
  <2>4. Tried(st, more) = g[N + 1] /\ Tried(st, txs) = h[N]
    BY <2>1, <2>2, <2>3, TriedRun
  <2>5. \A n \in 0..N + 1 : g[n] = IF n = 0 THEN Untried(st) ELSE Try(g[n - 1], more[n])
    BY <2>1, <2>2 DEF IsTrial, Untried
  <2>6. \A n \in 0..N : h[n] = IF n = 0 THEN Untried(st) ELSE Try(h[n - 1], txs[n])
    BY <2>3 DEF IsTrial, Untried
  <2> HIDE DEF N
  <2>7. g[0] = h[0]
    BY <2>1, <2>5, <2>6
  <2>8. ASSUME NEW n \in 1..N, g[n - 1] = h[n - 1] PROVE g[n] = h[n]
    <3>1. n \in 0..N + 1 /\ n \in 0..N /\ n # 0
      BY <2>1
    <3>2. QED  BY <2>1, <2>5, <2>6, <2>8, <3>1
  <2>9. \A n \in 0..N : g[n] = h[n]
    <3>1. \A n \in 1..N : g[n - 1] = h[n - 1] => g[n] = h[n]
      BY <2>8
    <3>2. N \in Nat
      BY <2>1
    <3>3. InStep(g, h, N)
      BY <2>7, <3>1 DEF InStep
    <3>4. Together(g, h, N)
      BY <3>2, <3>3, SameRun
    <3>5. QED  BY <3>4 DEF Together
  <2>10. N \in 0..N /\ N + 1 \in 0..N + 1 /\ N + 1 # 0 /\ (N + 1) - 1 = N
    BY <2>1
  <2>11. g[N + 1] = Try(h[N], t)
    BY <2>1, <2>5, <2>9, <2>10
  <2>12. QED  BY <2>4, <2>11 DEF more
<1>4. QED  BY <1>1, <1>2, <1>3

-----------------------------------------------------------------------------
(* Lists without repetition, and lists in which what is needed comes first *)

(* No repetition; the elements before i; nothing needed that is not in A or  *)
(* before.                                                                   *)
Distinct(s) == \A i, j \in 1..Len(s) : s[i] = s[j] => i = j

Before(s, i) == {s[j] : j \in 1..(i - 1)}
Closed(A, s) == \A i \in 1..Len(s) : Needs[s[i]] \subseteq A \cup Before(s, i)

(* What Append does, position by position. *)
LEMMA AppendSays ==
  ASSUME NEW S, NEW s \in Seq(S), NEW x \in S
  PROVE  /\ Append(s, x) \in Seq(S) /\ Len(Append(s, x)) = Len(s) + 1 /\ Len(s) \in Nat
         /\ Append(s, x)[Len(s) + 1] = x /\ \A i \in 1..Len(s) : Append(s, x)[i] = s[i]
         /\ Range(Append(s, x)) = Range(s) \cup {x}
<1> DEFINE N == Len(s)
           more == Append(s, x)
<1>1. /\ more \in Seq(S) /\ Len(more) = N + 1 /\ N \in Nat
      /\ more[N + 1] = x /\ \A i \in 1..N : more[i] = s[i]
  OBVIOUS
<1>2. DOMAIN more = 1..(N + 1) /\ DOMAIN s = 1..N
  BY <1>1
<1> HIDE DEF more, N
<1>3. Range(more) = Range(s) \cup {x}
  <2>1. ASSUME NEW y \in Range(more) PROVE y \in Range(s) \cup {x}
    <3>1. PICK i \in 1..(N + 1) : y = more[i]
      BY <1>2 DEF Range
    <3>2. i \in 1..N \/ i = N + 1
      BY <1>1
    <3>3. QED  BY <1>1, <1>2, <3>1, <3>2 DEF Range
  <2>2. ASSUME NEW y \in Range(s) PROVE y \in Range(more)
    <3>1. PICK i \in 1..N : y = s[i]
      BY <1>2 DEF Range
    <3>2. i \in 1..(N + 1)
      BY <1>1
    <3>3. QED  BY <1>1, <1>2, <3>1, <3>2 DEF Range
  <2>3. x \in Range(more)
    <3>1. N + 1 \in 1..(N + 1)
      BY <1>1
    <3>2. QED  BY <1>1, <1>2, <3>1 DEF Range
  <2>4. QED  BY <2>1, <2>2, <2>3
<1>4. QED  BY <1>1, <1>3 DEF more, N

(* One element more that is not there, or whose needs are. *)
LEMMA AppendKeeps ==
  ASSUME NEW s \in Seq(Tx), NEW x \in Tx, NEW A
  PROVE  /\ Distinct(s) /\ x \notin Range(s) => Distinct(Append(s, x))
         /\ Closed(A, Append(s, x)) <=> Closed(A, s) /\ Needs[x] \subseteq A \cup Range(s)
<1> DEFINE N == Len(s)
<1>0. PICK more : more = Append(s, x)
  OBVIOUS
<1>1. /\ Len(more) = N + 1 /\ N \in Nat
      /\ more[N + 1] = x /\ \A i \in 1..N : more[i] = s[i]
  BY <1>0, AppendSays
<1>2. DOMAIN s = 1..N
  OBVIOUS
<1> HIDE DEF N
<1>3. ASSUME Distinct(s), x \notin Range(s) PROVE Distinct(more)
  <2> SUFFICES ASSUME NEW i \in 1..(N + 1), NEW j \in 1..(N + 1), more[i] = more[j] PROVE i = j
    BY <1>1 DEF Distinct
  <2>1. \A k \in 1..N : s[k] # x
    BY <1>2, <1>3 DEF Range
  <2>2. (i \in 1..N \/ i = N + 1) /\ (j \in 1..N \/ j = N + 1)
    BY <1>1
  <2>3. CASE i \in 1..N /\ j \in 1..N
    BY <1>1, <1>3, <2>3 DEF Distinct, N
  <2>4. QED  BY <1>1, <2>1, <2>2, <2>3
<1>4. \A i \in 1..N : Before(more, i) = Before(s, i)
  <2> SUFFICES ASSUME NEW i \in 1..N PROVE Before(more, i) = Before(s, i)
    OBVIOUS
  <2>1. \A j \in 1..(i - 1) : j \in 1..N
    BY <1>1
  <2>2. \A j \in 1..(i - 1) : more[j] = s[j]
    BY <1>1, <2>1
  <2>3. QED  BY <2>2 DEF Before
<1>5. Before(more, N + 1) = Range(s)
  <2>1. 1..((N + 1) - 1) = 1..N
    BY <1>1
  <2>2. Before(more, N + 1) = {s[j] : j \in 1..N}
    BY <1>1, <2>1 DEF Before
  <2>3. QED  BY <1>2, <2>2 DEF Range
<1>6. ASSUME Closed(A, more) PROVE Closed(A, s) /\ Needs[x] \subseteq A \cup Range(s)
  <2>1. \A i \in 1..(N + 1) : Needs[more[i]] \subseteq A \cup Before(more, i)
    BY <1>1, <1>6 DEF Closed
  <2>2. \A i \in 1..N : i \in 1..(N + 1)
    BY <1>1
  <2>3. ASSUME NEW i \in 1..N PROVE Needs[s[i]] \subseteq A \cup Before(s, i)
    BY <1>1, <1>4, <2>1, <2>2
  <2>4. N + 1 \in 1..(N + 1)
    BY <1>1
  <2>5. Needs[x] \subseteq A \cup Range(s)
    BY <1>1, <1>5, <2>1, <2>4
  <2>6. QED  BY <2>3, <2>5 DEF Closed, N
<1>7. ASSUME Closed(A, s), Needs[x] \subseteq A \cup Range(s) PROVE Closed(A, more)
  <2> SUFFICES ASSUME NEW i \in 1..(N + 1) PROVE Needs[more[i]] \subseteq A \cup Before(more, i)
    BY <1>1 DEF Closed
  <2>1. i \in 1..N \/ i = N + 1
    BY <1>1
  <2>2. CASE i \in 1..N
    <3>1. Needs[s[i]] \subseteq A \cup Before(s, i)
      BY <1>7, <2>2 DEF Closed, N
    <3>2. QED  BY <1>1, <1>4, <2>2, <3>1
  <2>3. CASE i = N + 1
    BY <1>1, <1>5, <1>7, <2>3
  <2>4. QED  BY <2>1, <2>2, <2>3
<1>8. QED  BY <1>0, <1>3, <1>6, <1>7

-----------------------------------------------------------------------------
(* What a trial that began in st has come to: the state knows what it took,  *)
(* which was not known and had not expired, and would all be taken again.    *)
Says(st, x) ==
  /\ x \in Trial
  /\ x.st.time = st.time
  /\ x.st.known = st.known \cup Range(x.txs)
  /\ x.st.applied = st.applied \cup Range(x.txs)
  /\ \A t \in Range(x.txs) : t \notin st.known /\ st.time < Expiration[t]
  /\ Distinct(x.txs)
  /\ Closed(st.applied, x.txs)
  /\ Tried(st, x.txs) = x

(* The empty list has no element, repeats none and lacks none. *)
LEMMA EmptyList == Range(<<>>) = {} /\ Distinct(<<>>) /\ \A A : Closed(A, <<>>)
BY DEF Range, Distinct, Closed

(* Before the first trial nothing has been claimed. *)
LEMMA UntriedSays == ASSUME NEW st \in State PROVE Says(st, Untried(st))
<1>1. Untried(st) \in Trial /\ Untried(st).st = st /\ Untried(st).txs = <<>>
  BY DEF Untried, Trial
<1>2. QED  BY <1>1, EmptyList, TriedGrows DEF Says

(* One more trial keeps all that is known of the trials so far. *)
LEMMA TrySays ==
  ASSUME NEW st \in State, NEW x, Says(st, x), NEW t \in Tx
  PROVE  Says(st, Try(x, t))
<1>1. CASE ~Applies(x.st, t)
  BY <1>1, TryType DEF Says
<1>2. CASE Applies(x.st, t)
  <2>1. x \in Trial /\ x.txs \in Seq(Tx) /\ x.st \in State
    BY DEF Says, Trial
  <2>2. PICK y : y = Try(x, t)
    OBVIOUS
  <2>3. /\ y \in Trial /\ y.txs = Append(x.txs, t)
        /\ y.st = [known |-> x.st.known \cup {t}, applied |-> x.st.applied \cup {t},
                   time |-> x.st.time]
    BY <1>2, <2>1, <2>2, TryType
  <2>4. Range(y.txs) = Range(x.txs) \cup {t}
    BY <2>1, <2>3, AppendSays
  <2>5. /\ t \notin x.st.known /\ x.st.time < Expiration[t] /\ Needs[t] \subseteq x.st.applied
    BY <1>2 DEF Applies
  <2>6. /\ y.st.time = st.time /\ y.st.known = st.known \cup Range(y.txs)
        /\ y.st.applied = st.applied \cup Range(y.txs)
    BY <2>3, <2>4 DEF Says
  <2>7. t \notin Range(x.txs) /\ t \notin st.known /\ st.time < Expiration[t]
        /\ Needs[t] \subseteq st.applied \cup Range(x.txs)
    BY <2>5 DEF Says
  <2>8. \A u \in Range(y.txs) : u \notin st.known /\ st.time < Expiration[u]
    BY <2>4, <2>7 DEF Says
  <2>9. Distinct(y.txs) /\ Closed(st.applied, y.txs)
    BY <2>1, <2>3, <2>7, AppendKeeps DEF Says
  <2>10. Tried(st, y.txs) = y
    BY <2>1, <2>2, <2>3, TriedGrows DEF Says
  <2>11. QED  BY <2>2, <2>3, <2>6, <2>8, <2>9, <2>10 DEF Says
<1>3. QED  BY <1>1, <1>2

(* What was not taken does not apply later either, if what it needs came     *)
(* before it.                                                                *)
Refuses(st, txs, A) ==
  Closed(A, txs) /\ A \subseteq st.applied =>
    \A u \in Range(txs) \ Range(Tried(st, txs).txs) : ~Applies(Tried(st, txs).st, u)

(* Trying a list takes some of it, which would be taken again as they stand, *)
(* and refuses the rest for good when what they need comes before them.      *)
LEMMA TriedSays ==
  ASSUME NEW st \in State, NEW txs \in Seq(Tx), NEW A
  PROVE  /\ Says(st, Tried(st, txs)) /\ Range(Tried(st, txs).txs) \subseteq Range(txs)
         /\ Refuses(st, txs, A)
<1> DEFINE Fine(s) == /\ Says(st, Tried(st, s)) /\ Range(Tried(st, s).txs) \subseteq Range(s)
                      /\ Refuses(st, s, A)
           Q == {s \in Seq(Tx) : Fine(s)}
<1>1. <<>> \in Q
  <2>1. Tried(st, <<>>) = Untried(st) /\ Untried(st).txs = <<>>
    BY TriedGrows DEF Untried
  <2>2. Says(st, Tried(st, <<>>)) /\ Range(Tried(st, <<>>).txs) = {}
    BY <2>1, EmptyList, UntriedSays
  <2>3. Refuses(st, <<>>, A)
    BY EmptyList DEF Refuses
  <2>4. <<>> \in Seq(Tx)
    OBVIOUS
  <2>5. QED  BY <2>2, <2>3, <2>4
<1>2. ASSUME NEW s \in Seq(Tx), NEW t \in Tx, s \in Q PROVE Append(s, t) \in Q
  <2>1. PICK x : x = Tried(st, s)
    OBVIOUS
  <2>2. PICK y : y = Try(x, t)
    OBVIOUS
  <2>3. Tried(st, Append(s, t)) = y /\ Append(s, t) \in Seq(Tx)
    BY <2>1, <2>2, TriedGrows, AppendSays
  <2>4. Says(st, x) /\ Range(x.txs) \subseteq Range(s) /\ Refuses(st, s, A)
    BY <1>2, <2>1
  <2>5. Says(st, y)
    BY <2>2, <2>4, TrySays
  <2>6. Range(Append(s, t)) = Range(s) \cup {t}
    BY AppendSays
  <2>7. x \in Trial /\ x.txs \in Seq(Tx) /\ x.st \in State
    BY <2>4 DEF Says, Trial
  <2>8. /\ Applies(x.st, t) => /\ Range(y.txs) = Range(x.txs) \cup {t}
                               /\ y.st = [known |-> x.st.known \cup {t},
                                          applied |-> x.st.applied \cup {t}, time |-> x.st.time]
        /\ ~Applies(x.st, t) => y = x
    <3>1. Range(Append(x.txs, t)) = Range(x.txs) \cup {t}
      BY <2>7, AppendSays
    <3>2. /\ Applies(x.st, t) => /\ y.txs = Append(x.txs, t)
                                 /\ y.st = [known |-> x.st.known \cup {t},
                                            applied |-> x.st.applied \cup {t}, time |-> x.st.time]
          /\ ~Applies(x.st, t) => y = x
      BY <2>2, <2>7, TryType
    <3>3. QED  BY <3>1, <3>2
  <2>9. Range(y.txs) \subseteq Range(Append(s, t))
    BY <2>4, <2>6, <2>8
  <2>10. Refuses(st, Append(s, t), A)
    <3> SUFFICES ASSUME Closed(A, Append(s, t)), A \subseteq st.applied,
                        NEW u \in Range(Append(s, t)), u \notin Range(y.txs), Applies(y.st, u)
                 PROVE  FALSE
      BY <2>3 DEF Refuses
    <3>1. Closed(A, s)
      BY AppendKeeps
    <3>2. \A v \in Range(s) \ Range(x.txs) : ~Applies(x.st, v)
      BY <2>1, <2>4, <3>1 DEF Refuses
    <3>3. CASE ~Applies(x.st, t)
      BY <2>6, <2>8, <3>2, <3>3
    <3>4. CASE Applies(x.st, t)
      <4>1. u \in Range(s) /\ u \notin Range(x.txs) /\ u # t
        BY <2>6, <2>8, <3>4
      <4>2. ~Applies(x.st, u)
        BY <3>2, <4>1
      <4>3. /\ y.st.known = x.st.known \cup {t} /\ y.st.applied = x.st.applied \cup {t}
            /\ y.st.time = x.st.time
        BY <2>8, <3>4
      <4>4. /\ u \notin x.st.known /\ x.st.time < Expiration[u]
            /\ Expiration[u] <= x.st.time + MaxUntilExpiration
            /\ Needs[u] \subseteq x.st.applied \cup {t}
            /\ Spends[u] # NoCoin => \A v \in x.st.applied \ {u} : Spends[v] # Spends[u]
        BY <4>3 DEF Applies
      <4>5. ~(Needs[u] \subseteq x.st.applied)
        BY <4>2, <4>4 DEF Applies
      <4>6. t \in Needs[u] /\ t \notin x.st.applied
        BY <4>4, <4>5
      <4>7. PICK i \in 1..Len(s) : u = s[i]
        BY <4>1 DEF Range
      <4>8. Needs[u] \subseteq A \cup Before(s, i)
        BY <3>1, <4>7 DEF Closed
      <4>9. Before(s, i) \subseteq Range(s)
        <5>1. \A j \in 1..(i - 1) : j \in DOMAIN s
          OBVIOUS
        <5>2. QED  BY <5>1 DEF Before, Range
      <4>10. t \notin A /\ t \notin Range(x.txs)
        BY <2>4, <4>6 DEF Says
      <4>11. t \in Range(s)
        BY <4>6, <4>8, <4>9, <4>10
      <4>12. QED  BY <3>2, <3>4, <4>10, <4>11
    <3>5. QED  BY <3>3, <3>4
  <2>11. QED  BY <2>3, <2>5, <2>9, <2>10
<1> HIDE DEF Q
<1>3. \A s \in Seq(Tx) : s \in Q
  BY <1>1, <1>2, Appending
<1>4. QED  BY <1>3 DEF Q

-----------------------------------------------------------------------------
(* Concatenation *)

(* Concatenation with a list that has one more element. *)
LEMMA ConcatAppend ==
  ASSUME NEW S, NEW s \in Seq(S), NEW r \in Seq(S), NEW x \in S
  PROVE  s \o Append(r, x) = Append(s \o r, x) /\ s \o r \in Seq(S)
<1>1. PICK a : a = s \o Append(r, x)
  OBVIOUS
<1>2. PICK b : b = Append(s \o r, x)
  OBVIOUS
<1>3. s \o r \in Seq(S) /\ Append(r, x) \in Seq(S) /\ Len(s) \in Nat /\ Len(r) \in Nat
      /\ Len(s \o r) = Len(s) + Len(r) /\ Len(Append(r, x)) = Len(r) + 1
  OBVIOUS
<1>4. a \in Seq(S) /\ b \in Seq(S) /\ Len(a) = Len(s) + Len(r) + 1 /\ Len(b) = Len(s) + Len(r) + 1
  BY <1>1, <1>2, <1>3
<1>5. \A i \in 1..(Len(s) + Len(r) + 1) : a[i] = b[i]
  BY <1>1, <1>2, <1>3
<1>6. a = b
  BY <1>4, <1>5
<1>7. QED  BY <1>1, <1>2, <1>3, <1>6

(* Two lists without repetition or gaps, put together. *)
LEMMA ConcatKeeps ==
  ASSUME NEW s \in Seq(Tx), NEW r \in Seq(Tx), NEW A
  PROVE  /\ s \o r \in Seq(Tx) /\ Range(s \o r) = Range(s) \cup Range(r)
         /\ Distinct(s) /\ Distinct(r) /\ Range(s) \cap Range(r) = {} => Distinct(s \o r)
         /\ Closed(A, s \o r) <=> Closed(A, s) /\ Closed(A \cup Range(s), r)
<1> DEFINE Fine(q) ==
             /\ Range(s \o q) = Range(s) \cup Range(q)
             /\ Distinct(s) /\ Distinct(q) /\ Range(s) \cap Range(q) = {} => Distinct(s \o q)
             /\ Closed(A, s \o q) <=> Closed(A, s) /\ Closed(A \cup Range(s), q)
           Q == {q \in Seq(Tx) : Fine(q)}
<1>1. <<>> \in Q
  <2>1. s \o <<>> = s /\ <<>> \in Seq(Tx)
    OBVIOUS
  <2>2. QED  BY <2>1, EmptyList
<1>2. ASSUME NEW q \in Seq(Tx), NEW x \in Tx, q \in Q PROVE Append(q, x) \in Q
  <2>1. /\ s \o Append(q, x) = Append(s \o q, x) /\ s \o q \in Seq(Tx)
        /\ Append(q, x) \in Seq(Tx)
    BY ConcatAppend, AppendSays
  <2>2. PICK c : c = s \o q
    OBVIOUS
  <2>3. /\ Range(c) = Range(s) \cup Range(q) /\ c \in Seq(Tx)
        /\ Distinct(s) /\ Distinct(q) /\ Range(s) \cap Range(q) = {} => Distinct(c)
        /\ Closed(A, c) <=> Closed(A, s) /\ Closed(A \cup Range(s), q)
    BY <1>2, <2>1, <2>2
  <2>4. Range(Append(c, x)) = Range(c) \cup {x} /\ Range(Append(q, x)) = Range(q) \cup {x}
    BY <2>3, AppendSays
  <2>5. Range(Append(c, x)) = Range(s) \cup Range(Append(q, x))
    BY <2>3, <2>4
  <2>6. ASSUME Distinct(s), Distinct(Append(q, x)), Range(s) \cap Range(Append(q, x)) = {}
        PROVE  Distinct(Append(c, x))
    <3>1. /\ Len(Append(q, x)) = Len(q) + 1 /\ Len(q) \in Nat
          /\ Append(q, x)[Len(q) + 1] = x /\ \A i \in 1..Len(q) : Append(q, x)[i] = q[i]
      BY AppendSays
    <3>2. \A i, j \in 1..(Len(q) + 1) : Append(q, x)[i] = Append(q, x)[j] => i = j
      BY <2>6, <3>1 DEF Distinct
    <3>3. \A i \in 1..Len(q) : i \in 1..(Len(q) + 1) /\ i # Len(q) + 1
      BY <3>1
    <3>4. Len(q) + 1 \in 1..(Len(q) + 1)
      BY <3>1
    <3>5. Distinct(q)
      BY <3>1, <3>2, <3>3 DEF Distinct
    <3>6. \A i \in 1..Len(q) : q[i] # x
      BY <3>1, <3>2, <3>3, <3>4
    <3>7. x \notin Range(q)
      BY <3>6 DEF Range
    <3>8. x \notin Range(c) /\ Distinct(c)
      BY <2>3, <2>4, <2>6, <3>5, <3>7
    <3>9. QED  BY <2>3, <3>8, AppendKeeps
  <2>7. Closed(A, Append(c, x)) <=> Closed(A, s) /\ Closed(A \cup Range(s), Append(q, x))
    <3>1. Closed(A, Append(c, x)) <=> Closed(A, c) /\ Needs[x] \subseteq A \cup Range(c)
      BY <2>3, AppendKeeps
    <3>2. Closed(A \cup Range(s), Append(q, x))
            <=> Closed(A \cup Range(s), q) /\ Needs[x] \subseteq (A \cup Range(s)) \cup Range(q)
      BY AppendKeeps
    <3>3. A \cup Range(c) = (A \cup Range(s)) \cup Range(q)
      BY <2>3
    <3>4. QED  BY <2>3, <3>1, <3>2, <3>3
  <2>8. QED  BY <2>1, <2>2, <2>5, <2>6, <2>7
<1> HIDE DEF Q
<1>3. \A q \in Seq(Tx) : q \in Q
  BY <1>1, <1>2, Appending
<1>4. r \in Q
  BY <1>3
<1>5. s \o r \in Seq(Tx)
  OBVIOUS
<1>6. QED  BY <1>4, <1>5 DEF Q

(* Concatenation is associative. *)
LEMMA Associative == \A x, y, z \in Seq(Tx) : (x \o y) \o z = x \o (y \o z)
BY ConcatAssociative

(* A list that lacks nothing above A lacks nothing above more. *)
LEMMA ClosedMore ==
  ASSUME NEW s, NEW A, NEW B, A \subseteq B, Closed(A, s)
  PROVE  Closed(B, s)
BY DEF Closed

-----------------------------------------------------------------------------
(* The transactions of a list of blocks *)

IsFlat(g, ss) == g = [i \in 1..Len(ss) |-> IF i = 1 THEN ss[i] ELSE g[i - 1] \o ss[i]]

(* FlattenSeq is the run of a loop, too. *)
LEMMA FlattenRun ==
  ASSUME NEW S, NEW ss \in Seq(Seq(S))
  PROVE  \E g \in [0..Len(ss) -> Seq(S)] :
           /\ g[0] = <<>> /\ \A n \in 1..Len(ss) : g[n] = g[n - 1] \o ss[n]
           /\ FlattenSeq(ss) = g[Len(ss)]
<1> DEFINE N == Len(ss)
           G == [n \in 1..N |-> [x \in Seq(S) |-> x \o ss[n]]]
<1>1. N \in Nat /\ <<>> \in Seq(S) /\ \A n \in 1..N : ss[n] \in Seq(S)
  OBVIOUS
<1>2. G \in [1..N -> [Seq(S) -> Seq(S)]]
  <2>1. ASSUME NEW n \in 1..N PROVE [x \in Seq(S) |-> x \o ss[n]] \in [Seq(S) -> Seq(S)]
    <3>1. ss[n] \in Seq(S)
      BY <1>1
    <3>2. \A x \in Seq(S) : x \o ss[n] \in Seq(S)
      BY <3>1
    <3>3. QED  BY <3>2
  <2>2. QED  BY <2>1
<1> HIDE DEF N, G
<1>3. PICK g \in [0..N -> Seq(S)] : IsRun(g, <<>>, N, G)
  BY <1>1, <1>2, RunExists
<1>4. g = [n \in 0..N |-> IF n = 0 THEN <<>> ELSE G[n][g[n - 1]]]
  BY <1>3 DEF IsRun
<1>5. ASSUME NEW n \in 1..N PROVE g[n] = g[n - 1] \o ss[n]
  <2>1. n \in 0..N /\ n # 0 /\ n - 1 \in 0..N
    BY <1>1
  <2>2. g[n] = G[n][g[n - 1]] /\ g[n - 1] \in Seq(S)
    BY <1>3, <1>4, <2>1
  <2>3. QED  BY <2>2 DEF G
<1>6. g[0] = <<>> /\ 0 \in 0..N
  BY <1>1, <1>4
<1>7. CASE N = 0
  <2>1. ss = <<>> /\ FlattenSeq(ss) = ss
    BY <1>7 DEF N, FlattenSeq
  <2>2. QED  BY <1>3, <1>5, <1>6, <1>7, <2>1 DEF N
<1>8. CASE N # 0
  <2>1. PICK f : f = [i \in 1..N |-> g[i]]
    OBVIOUS
  <2>2. ASSUME NEW i \in 1..N PROVE f[i] = IF i = 1 THEN ss[i] ELSE f[i - 1] \o ss[i]
    <3>1. CASE i = 1
      <4>0. 1 \in 1..N /\ 1 - 1 = 0
        BY <3>1
      <4>1. g[1] = g[0] \o ss[1] /\ ss[1] \in Seq(S)
        BY <1>1, <1>5, <4>0
      <4>2. g[1] = ss[1]
        BY <1>6, <4>1
      <4>3. QED  BY <2>1, <3>1, <4>2
    <3>2. CASE i # 1
      <4>1. i - 1 \in 1..N
        BY <1>1, <3>2
      <4>2. f[i - 1] = g[i - 1] /\ f[i] = g[i]
        BY <2>1, <4>1
      <4>3. QED  BY <1>5, <3>2, <4>2
    <3>3. QED  BY <3>1, <3>2
  <2>3. f = [i \in 1..N |-> IF i = 1 THEN ss[i] ELSE f[i - 1] \o ss[i]]
    BY <2>1, <2>2
  <2>4. IsFlat(f, ss)
    BY <2>3 DEF IsFlat, N
  <2>5. PICK h : h = (CHOOSE k : IsFlat(k, ss))
    OBVIOUS
  <2>6. IsFlat(h, ss)
    BY <2>4, <2>5
  <2>7. FlattenSeq(ss) = h[N]
    BY <1>8, <2>5 DEF FlattenSeq, IsFlat, N
  <2>8. PICK k : k = [n \in 0..N |-> IF n = 0 THEN <<>> ELSE h[n]]
    OBVIOUS
  <2>9. \A i \in 1..N : h[i] = IF i = 1 THEN ss[i] ELSE h[i - 1] \o ss[i]
    BY <2>6 DEF IsFlat, N
  <2>10. ASSUME NEW n \in 1..N, k[n - 1] = g[n - 1] PROVE k[n] = g[n]
    <3>0. n \in 0..N /\ n # 0 /\ n - 1 \in 0..N
      BY <1>1
    <3>1. k[n] = h[n] /\ g[n] = g[n - 1] \o ss[n] /\ ss[n] \in Seq(S)
      BY <1>1, <1>5, <2>8, <3>0
    <3>2. CASE n = 1
      <4>0. n - 1 = 0
        BY <3>2
      <4>1. ss[1] \in Seq(S) /\ g[1] = <<>> \o ss[1]
        BY <1>6, <3>1, <3>2, <4>0
      <4>2. g[1] = ss[1]
        BY <4>1, ConcatEmptySeq
      <4>3. h[1] = ss[1]
        BY <2>9, <3>2
      <4>4. QED  BY <3>1, <3>2, <4>2, <4>3
    <3>3. CASE n # 1
      <4>0. n - 1 # 0
        BY <1>1, <3>3
      <4>1. k[n - 1] = h[n - 1] /\ h[n] = h[n - 1] \o ss[n]
        BY <2>8, <2>9, <3>0, <3>3, <4>0
      <4>2. QED  BY <2>10, <3>1, <4>1
    <3>4. QED  BY <3>2, <3>3
  <2>11. InStep(k, g, N)
    <3>1. k[0] = g[0]
      BY <1>6, <2>8
    <3>2. QED  BY <2>10, <3>1 DEF InStep
  <2>12. k[N] = g[N] /\ k[N] = h[N]
    <3>1. Together(k, g, N)
      BY <1>1, <2>11, SameRun
    <3>2. N \in 0..N
      BY <1>1
    <3>3. QED  BY <1>8, <2>8, <3>1, <3>2 DEF Together
  <2>13. QED  BY <1>3, <1>5, <1>6, <2>7, <2>12 DEF N
<1>9. QED  BY <1>7, <1>8

(* FlattenSeq of one more list. *)
LEMMA FlattenGrows ==
  ASSUME NEW S, NEW ss \in Seq(Seq(S)), NEW x \in Seq(S)
  PROVE  /\ FlattenSeq(ss) \in Seq(S)
         /\ FlattenSeq(Append(ss, x)) = FlattenSeq(ss) \o x
<1> DEFINE N == Len(ss)
<1>0. PICK more : more = Append(ss, x)
  OBVIOUS
<1>1. /\ more \in Seq(Seq(S)) /\ Len(more) = N + 1 /\ N \in Nat /\ more[N + 1] = x
      /\ \A n \in 1..N : more[n] = ss[n]
  BY <1>0, AppendSays
<1>2. PICK g \in [0..Len(ss) -> Seq(S)] :
           /\ g[0] = <<>> /\ \A n \in 1..Len(ss) : g[n] = g[n - 1] \o ss[n]
           /\ FlattenSeq(ss) = g[Len(ss)]
  BY FlattenRun
<1>3. PICK h \in [0..Len(more) -> Seq(S)] :
           /\ h[0] = <<>> /\ \A n \in 1..Len(more) : h[n] = h[n - 1] \o more[n]
           /\ FlattenSeq(more) = h[Len(more)]
  BY <1>1, FlattenRun
<1>4. ASSUME NEW n \in 1..N, g[n - 1] = h[n - 1] PROVE g[n] = h[n]
  <2>1. n \in 1..(N + 1)
    BY <1>1
  <2>2. QED  BY <1>1, <1>2, <1>3, <1>4, <2>1
<1>5. InStep(g, h, N)
  BY <1>2, <1>3, <1>4 DEF InStep
<1>6. Together(g, h, N)
  BY <1>1, <1>5, SameRun
<1>7. g[N] = h[N] /\ g[N] \in Seq(S)
  <2>1. N \in 0..N
    BY <1>1
  <2>2. QED  BY <1>2, <1>6, <2>1 DEF Together
<1>8. h[N + 1] = h[N] \o x
  <2>1. N + 1 \in 1..(N + 1) /\ (N + 1) - 1 = N
    BY <1>1
  <2>2. QED  BY <1>1, <1>3, <2>1
<1>9. QED  BY <1>0, <1>1, <1>2, <1>3, <1>7, <1>8

(* The transactions of a block are a list of at most BlockSize. *)
LEMMA BlockTxs ==
  ASSUME NEW b \in Block
  PROVE  b.txs \in Seq(Tx) /\ Len(b.txs) <= BlockSize /\ b.time \in 1..MaxTime
<1>1. b.txs \in SeqOf(Tx, BlockSize) /\ b.time \in 1..MaxTime
  BY DEF Block
<1>2. PICK m \in 0..BlockSize : b.txs \in [1..m -> Tx]
  BY <1>1 DEF SeqOf
<1>3. m \in Nat /\ m <= BlockSize
  BY BlockSizeAssumption
<1>4. b.txs \in Seq(Tx) /\ Len(b.txs) = m
  BY <1>2, <1>3
<1>5. QED  BY <1>1, <1>3, <1>4

(* No blocks, no transactions. *)
LEMMA NoBlocks == Popped(<<>>) = <<>>
<1>1. [i \in DOMAIN <<>> |-> (<<>>)[i].block.txs] = <<>>
  OBVIOUS
<1>2. FlattenSeq(<<>>) = <<>>
  BY DEF FlattenSeq
<1>3. QED  BY <1>1, <1>2 DEF Popped

(* Popping one more block. *)
LEMMA PoppedGrows ==
  ASSUME NEW ch \in Seq(Entry), NEW e \in Entry
  PROVE  /\ Popped(ch) \in Seq(Tx) /\ e.block.txs \in Seq(Tx)
         /\ Popped(Append(ch, e)) = Popped(ch) \o e.block.txs
<1> DEFINE T(c) == [i \in DOMAIN c |-> c[i].block.txs]
<1>1. \A x \in Entry : x.block.txs \in Seq(Tx)
  BY BlockTxs DEF Entry
<1>2. T(ch) \in Seq(Seq(Tx)) /\ Len(T(ch)) = Len(ch)
  <2>1. DOMAIN ch = 1..Len(ch) /\ Len(ch) \in Nat /\ \A i \in 1..Len(ch) : ch[i] \in Entry
    OBVIOUS
  <2>2. \A i \in 1..Len(ch) : ch[i].block.txs \in Seq(Tx)
    BY <1>1, <2>1
  <2>3. QED  BY <2>1, <2>2
<1>3. T(Append(ch, e)) = Append(T(ch), e.block.txs)
  <2>1. PICK more : more = Append(ch, e)
    OBVIOUS
  <2>2. /\ DOMAIN more = 1..(Len(ch) + 1) /\ Len(ch) \in Nat /\ DOMAIN ch = 1..Len(ch)
        /\ more[Len(ch) + 1] = e /\ \A i \in 1..Len(ch) : more[i] = ch[i]
    BY <2>1
  <2>3. PICK r : r = Append(T(ch), e.block.txs)
    OBVIOUS
  <2>4. /\ r \in Seq(Seq(Tx)) /\ Len(r) = Len(ch) + 1 /\ r[Len(ch) + 1] = e.block.txs
        /\ \A i \in 1..Len(ch) : r[i] = T(ch)[i]
    BY <1>1, <1>2, <2>3, AppendSays
  <2>5. \A i \in 1..Len(ch) : r[i] = more[i].block.txs
    BY <2>2, <2>4
  <2>6. \A i \in 1..(Len(ch) + 1) : i \in 1..Len(ch) \/ i = Len(ch) + 1
    BY <2>2
  <2>7. \A i \in 1..(Len(ch) + 1) : r[i] = more[i].block.txs
    BY <2>2, <2>4, <2>5, <2>6
  <2>8. r = [i \in 1..(Len(ch) + 1) |-> r[i]]
    BY <2>2, <2>4
  <2>9. T(more) = [i \in 1..(Len(ch) + 1) |-> r[i]]
    BY <2>2, <2>7
  <2>10. QED  BY <2>1, <2>3, <2>8, <2>9
<1>4. Popped(ch) = FlattenSeq(T(ch)) /\ Popped(Append(ch, e)) = FlattenSeq(T(Append(ch, e)))
  BY DEF Popped
<1> HIDE DEF T
<1>5. QED  BY <1>1, <1>2, <1>3, <1>4, FlattenGrows

(* What is popped is a list of transactions. *)
LEMMA PoppedType == ASSUME NEW ch \in Seq(Entry) PROVE Popped(ch) \in Seq(Tx)
<1>1. CASE ch = <<>>
  <2>1. <<>> \in Seq(Tx)
    OBVIOUS
  <2>2. QED  BY <1>1, <2>1, NoBlocks
<1>2. CASE ch # <<>>
  <2>1. ch[1] \in Entry
    BY <1>2
  <2>2. QED  BY <2>1, PoppedGrows
<1>3. QED  BY <1>1, <1>2

(* Popping two branches, one above the other. *)
LEMMA PoppedConcat ==
  ASSUME NEW a \in Seq(Entry), NEW b \in Seq(Entry)
  PROVE  Popped(a \o b) = Popped(a) \o Popped(b)
<1> DEFINE Q == {c \in Seq(Entry) : Popped(a \o c) = Popped(a) \o Popped(c)}
<1>1. <<>> \in Q
  <2>1. Popped(a) \in Seq(Tx)
    BY PoppedType
  <2>2. a \o <<>> = a /\ Popped(a) \o <<>> = Popped(a) /\ <<>> \in Seq(Entry)
    BY <2>1
  <2>3. QED  BY <2>2, NoBlocks
<1>2. ASSUME NEW c \in Seq(Entry), NEW e \in Entry, c \in Q PROVE Append(c, e) \in Q
  <2>1. a \o Append(c, e) = Append(a \o c, e) /\ a \o c \in Seq(Entry)
    BY ConcatAppend
  <2>2. /\ Popped(Append(a \o c, e)) = Popped(a \o c) \o e.block.txs
        /\ Popped(Append(c, e)) = Popped(c) \o e.block.txs
        /\ Popped(a) \in Seq(Tx) /\ Popped(c) \in Seq(Tx) /\ e.block.txs \in Seq(Tx)
    BY <2>1, PoppedGrows
  <2>3. (Popped(a) \o Popped(c)) \o e.block.txs = Popped(a) \o (Popped(c) \o e.block.txs)
    BY <2>2, Associative
  <2>4. Append(c, e) \in Seq(Entry)
    OBVIOUS
  <2>5. QED  BY <1>2, <2>1, <2>2, <2>3, <2>4
<1> HIDE DEF Q
<1>3. \A c \in Seq(Entry) : c \in Q
  BY <1>1, <1>2, Appending
<1>4. QED  BY <1>3 DEF Q

-----------------------------------------------------------------------------
(* Chains *)

(* What the state at the top of ch remembers: all transactions of its blocks *)
(* are applied, each came once and after what it needs, and one that is no   *)
(* longer known has expired.                                                 *)
Remembers(ch) ==
  /\ StateOf(ch) \in State
  /\ StateOf(ch).applied = Range(Popped(ch))
  /\ Distinct(Popped(ch)) /\ Closed({}, Popped(ch))
  /\ \A t \in Range(Popped(ch)) : t \in StateOf(ch).known \/ Expiration[t] < StateOf(ch).time

Upright(ch) == ch \in Seq(Entry) /\ \A k \in 0..Len(ch) : Remembers(SubSeq(ch, 1, k))

(* The state of the empty chain. *)
LEMMA GenesisRemembers == Remembers(<<>>)
<1>1. StateOf(<<>>) = Genesis /\ Genesis \in State
  BY BoundsAssumption DEF StateOf, Genesis, State
<1>2. Genesis.applied = {}
  BY DEF Genesis
<1>3. QED  BY <1>1, <1>2, NoBlocks, EmptyList DEF Remembers

(* The state after a block. *)
LEMMA AppliedState ==
  ASSUME NEW ch \in Seq(Entry), Remembers(ch), NEW b \in Block, Valid(StateOf(ch), b)
  PROVE  \E e \in Entry :
           /\ Applied(ch, b) = Append(ch, e) /\ e.block = b
           /\ e.st.time = b.time /\ StateOf(ch).time < b.time
           /\ e.st.applied = StateOf(ch).applied \cup Range(b.txs)
           /\ e.st.known = {t \in StateOf(ch).known \cup Range(b.txs) : b.time <= Expiration[t]}
           /\ StateOf(Applied(ch, b)) = e.st
           /\ Says(StateOf(ch), Tried(StateOf(ch), b.txs)) /\ Tried(StateOf(ch), b.txs).txs = b.txs
<1>1. PICK st \in State : st = StateOf(ch)
  BY DEF Remembers
<1>2. b.txs \in Seq(Tx) /\ b.time \in 1..MaxTime /\ b.time \in 0..MaxTime
  BY BlockTxs, BoundsAssumption
<1>3. PICK r : r = Tried(st, b.txs)
  OBVIOUS
<1>4. Says(st, r) /\ r.txs = b.txs /\ st.time < b.time
  <2>1. Says(st, r)
    BY <1>2, <1>3, TriedSays
  <2>2. r.txs = b.txs /\ b.time > st.time
    BY <1>1, <1>3 DEF Valid
  <2>3. st.time \in Nat /\ b.time \in Nat
    BY <1>2, BoundsAssumption DEF State
  <2>4. QED  BY <2>1, <2>2, <2>3
<1>5. /\ r.st \in State /\ r.st.known = st.known \cup Range(b.txs)
      /\ r.st.applied = st.applied \cup Range(b.txs)
  BY <1>4 DEF Says, Trial
<1>6. PICK q : q = [r.st EXCEPT !.time = b.time]
  OBVIOUS
<1>7. q = [known |-> r.st.known, applied |-> r.st.applied, time |-> b.time]
  BY <1>5, <1>6 DEF State
<1>8. PICK n : n = clear_expired_transactions(q)
  OBVIOUS
<1>9. n = [known |-> {t \in q.known : q.time <= Expiration[t]}, applied |-> q.applied, time |-> q.time]
  BY <1>7, <1>8 DEF clear_expired_transactions
<1>10. /\ n.known = {t \in st.known \cup Range(b.txs) : b.time <= Expiration[t]}
       /\ n.applied = st.applied \cup Range(b.txs) /\ n.time = b.time
  BY <1>5, <1>7, <1>9
<1>11. n \in State
  <2>1. r.st.known \subseteq Tx /\ r.st.applied \subseteq Tx
    BY <1>5 DEF State
  <2>2. {t \in q.known : q.time <= Expiration[t]} \subseteq Tx /\ q.applied \subseteq Tx
        /\ q.time \in 0..MaxTime
    BY <1>2, <1>7, <2>1
  <2>3. QED  BY <1>9, <2>2 DEF State
<1>12. _apply_block(st, b) = n
  BY <1>3, <1>6, <1>8 DEF _apply_block
<1>13. PICK e : e = [block |-> b, st |-> n]
  OBVIOUS
<1>14. e \in Entry /\ e.block = b /\ e.st = n
  BY <1>11, <1>13 DEF Entry
<1>15. Applied(ch, b) = Append(ch, e)
  BY <1>1, <1>12, <1>13 DEF Applied
<1>16. StateOf(Append(ch, e)) = e.st
  <2>1. /\ Append(ch, e) # <<>> /\ Len(Append(ch, e)) = Len(ch) + 1
        /\ Append(ch, e)[Len(ch) + 1] = e
    BY <1>14
  <2>2. QED  BY <2>1 DEF StateOf, Last
<1>17. QED  BY <1>1, <1>3, <1>4, <1>10, <1>14, <1>15, <1>16

(* A valid block more is remembered, too. *)
LEMMA AppliedRemembers ==
  ASSUME NEW ch \in Seq(Entry), Remembers(ch), NEW b \in Block, Valid(StateOf(ch), b)
  PROVE  Remembers(Applied(ch, b)) /\ Applied(ch, b) \in Seq(Entry)
<1>1. PICK e \in Entry :
           /\ Applied(ch, b) = Append(ch, e) /\ e.block = b
           /\ e.st.time = b.time /\ StateOf(ch).time < b.time
           /\ e.st.applied = StateOf(ch).applied \cup Range(b.txs)
           /\ e.st.known = {t \in StateOf(ch).known \cup Range(b.txs) : b.time <= Expiration[t]}
           /\ StateOf(Applied(ch, b)) = e.st
           /\ Says(StateOf(ch), Tried(StateOf(ch), b.txs)) /\ Tried(StateOf(ch), b.txs).txs = b.txs
  BY AppliedState
<1>2. PICK st \in State : st = StateOf(ch)
  BY DEF Remembers
<1>3. PICK p \in Seq(Tx) : p = Popped(ch)
  BY <1>1, PoppedGrows
<1>4. PICK txs \in Seq(Tx) : txs = b.txs
  BY BlockTxs
<1>5. Popped(Applied(ch, b)) = p \o txs
  BY <1>1, <1>3, <1>4, PoppedGrows
<1>6. /\ Distinct(txs) /\ Closed(st.applied, txs)
      /\ \A t \in Range(txs) : t \notin st.known /\ st.time < Expiration[t]
  BY <1>1, <1>2, <1>4 DEF Says
<1>7. /\ st.applied = Range(p) /\ Distinct(p) /\ Closed({}, p)
      /\ \A t \in Range(p) : t \in st.known \/ Expiration[t] < st.time
  BY <1>2, <1>3 DEF Remembers
<1>8. Range(txs) \subseteq Tx /\ Range(p) \subseteq Tx
  BY DEF Range
<1>9. \A t \in Tx : Expiration[t] \in Nat
  BY ExpirationAssumption
<1>10. st.time \in Nat /\ b.time \in Nat /\ st.time < b.time
  BY <1>1, <1>2, BlockTxs, BoundsAssumption DEF State
<1>11. Range(p) \cap Range(txs) = {}
  BY <1>6, <1>7, <1>8, <1>9, <1>10
<1>12. {} \cup Range(p) = st.applied
  BY <1>7
<1>13. Distinct(p \o txs) /\ Range(p \o txs) = Range(p) \cup Range(txs) /\ Closed({}, p \o txs)
  BY <1>6, <1>7, <1>11, <1>12, ConcatKeeps
<1>14. e.st \in State /\ Append(ch, e) \in Seq(Entry)
  BY DEF Entry
<1>15. e.st.applied = Range(p \o txs)
  BY <1>1, <1>2, <1>4, <1>7, <1>13
<1>16. ASSUME NEW t \in Range(p \o txs) PROVE t \in e.st.known \/ Expiration[t] < e.st.time
  <2>1. t \in Range(p) \/ t \in Range(txs)
    BY <1>13
  <2>2. t \in Tx /\ Expiration[t] \in Nat
    BY <1>8, <1>9, <2>1
  <2>3. t \in e.st.known <=> (t \in st.known \/ t \in Range(txs)) /\ b.time <= Expiration[t]
    BY <1>1, <1>2, <1>4
  <2>4. QED  BY <1>1, <1>7, <1>10, <2>1, <2>2, <2>3
<1>17. QED  BY <1>1, <1>5, <1>13, <1>14, <1>15, <1>16 DEF Remembers

(* The empty chain is upright. *)
LEMMA UprightBase == Upright(<<>>)
<1>1. <<>> \in Seq(Entry) /\ Len(<<>>) = 0
  OBVIOUS
<1>2. ASSUME NEW k \in 0..Len(<<>>) PROVE SubSeq(<<>>, 1, k) = <<>>
  BY <1>1
<1>3. QED  BY <1>1, <1>2, GenesisRemembers DEF Upright

(* The top of an upright chain remembers all of it. *)
LEMMA UprightTop == ASSUME NEW ch, Upright(ch) PROVE ch \in Seq(Entry) /\ Remembers(ch)
<1>1. ch \in Seq(Entry) /\ Len(ch) \in Nat
  BY DEF Upright
<1>2. SubSeq(ch, 1, Len(ch)) = ch /\ Len(ch) \in 0..Len(ch)
  BY <1>1
<1>3. QED  BY <1>1, <1>2 DEF Upright

(* pop_block() leaves an upright chain. *)
LEMMA UprightPrefix ==
  ASSUME NEW ch, Upright(ch), NEW k \in 0..Len(ch)
  PROVE  Upright(SubSeq(ch, 1, k)) /\ Len(SubSeq(ch, 1, k)) = k
<1>1. ch \in Seq(Entry) /\ Len(ch) \in Nat
  BY DEF Upright
<1>2. PICK p : p = SubSeq(ch, 1, k)
  OBVIOUS
<1>3. p \in Seq(Entry) /\ Len(p) = k
  BY <1>1, <1>2
<1>4. ASSUME NEW j \in 0..k PROVE SubSeq(p, 1, j) = SubSeq(ch, 1, j) /\ j \in 0..Len(ch)
  <2>1. j \in 0..Len(ch) /\ j <= k
    BY <1>1
  <2>2. SubSeq(p, 1, j) \in Seq(Entry) /\ Len(SubSeq(p, 1, j)) = j
    BY <1>3
  <2>3. SubSeq(ch, 1, j) \in Seq(Entry) /\ Len(SubSeq(ch, 1, j)) = j
    BY <1>1, <2>1
  <2>4. \A i \in 1..j : SubSeq(p, 1, j)[i] = SubSeq(ch, 1, j)[i]
    BY <1>1, <1>2, <1>3, <2>1
  <2>5. QED  BY <2>1, <2>2, <2>3, <2>4
<1>5. QED  BY <1>2, <1>3, <1>4 DEF Upright

(* A valid block makes a longer upright chain, and leaves what is below it. *)
LEMMA UprightGrows ==
  ASSUME NEW ch, Upright(ch), NEW b \in Block, Valid(StateOf(ch), b)
  PROVE  /\ Upright(Applied(ch, b)) /\ Len(Applied(ch, b)) = Len(ch) + 1 /\ Len(ch) \in Nat
         /\ \A k \in 0..Len(ch) : SubSeq(Applied(ch, b), 1, k) = SubSeq(ch, 1, k)
<1>1. ch \in Seq(Entry) /\ Remembers(ch)
  BY UprightTop
<1>2. PICK e \in Entry : Applied(ch, b) = Append(ch, e)
  BY <1>1, AppliedState
<1>3. PICK more : more = Append(ch, e)
  OBVIOUS
<1>4. Remembers(more) /\ more \in Seq(Entry)
  BY <1>1, <1>2, <1>3, AppliedRemembers
<1>5. /\ Len(more) = Len(ch) + 1 /\ Len(ch) \in Nat
      /\ \A i \in 1..Len(ch) : more[i] = ch[i]
  BY <1>1, <1>3, AppendSays
<1>6. ASSUME NEW k \in 0..Len(ch) PROVE SubSeq(more, 1, k) = SubSeq(ch, 1, k)
  <2>1. SubSeq(more, 1, k) \in Seq(Entry) /\ Len(SubSeq(more, 1, k)) = k
    BY <1>4, <1>5
  <2>2. SubSeq(ch, 1, k) \in Seq(Entry) /\ Len(SubSeq(ch, 1, k)) = k
    BY <1>1, <1>5
  <2>3. \A i \in 1..k : SubSeq(more, 1, k)[i] = SubSeq(ch, 1, k)[i]
    BY <1>1, <1>4, <1>5
  <2>4. QED  BY <2>1, <2>2, <2>3
<1>7. ASSUME NEW k \in 0..(Len(ch) + 1) PROVE Remembers(SubSeq(more, 1, k))
  <2>1. CASE k \in 0..Len(ch)
    BY <1>6, <2>1 DEF Upright
  <2>2. CASE k = Len(ch) + 1
    <3>1. SubSeq(more, 1, k) = more
      BY <1>4, <1>5, <2>2
    <3>2. QED  BY <1>4, <3>1
  <2>3. QED  BY <1>5, <2>1, <2>2
<1>8. QED  BY <1>2, <1>3, <1>4, <1>5, <1>6, <1>7 DEF Upright

(* The blocks of a fork: the chains n valid blocks longer than ch. *)
Fork(ch, n, f) == Upright(f) /\ Len(f) = Len(ch) + n /\ SubSeq(f, 1, Len(ch)) = ch

More(C) == UNION {{Applied(x, b) : b \in {y \in Block : Valid(StateOf(x), y)}} : x \in C}
IsLonger(f, ch, n) == f = [i \in 0..n |-> IF i = 0 THEN {ch} ELSE More(f[i - 1])]

(* Each chain of Longer is upright and extends the one it was made from. *)
LEMMA LongerSays ==
  ASSUME NEW ch, Upright(ch), NEW n \in Nat, NEW fork \in Longer(ch, n)
  PROVE  Fork(ch, n, fork)
<1> DEFINE Chains == {c \in Seq(Entry) : Upright(c)}
           X == SUBSET Chains
           G == [i \in 1..n |-> [C \in X |-> More(C)]]
<1>1. \A c : Upright(c) => c \in Chains
  BY UprightTop
<1>2. ASSUME NEW C, NEW f \in More(C)
      PROVE  \E x \in C : \E b \in Block : Valid(StateOf(x), b) /\ f = Applied(x, b)
  BY DEF More
<1>3. ASSUME NEW C \in X PROVE More(C) \in X
  <2>1. ASSUME NEW f \in More(C) PROVE f \in Chains
    <3>1. PICK x \in C, b \in Block : Valid(StateOf(x), b) /\ f = Applied(x, b)
      BY <1>2
    <3>2. Upright(x)
      OBVIOUS
    <3>3. QED  BY <1>1, <3>1, <3>2, UprightGrows
  <2>2. QED  BY <2>1
<1>4. G \in [1..n -> [X -> X]] /\ {ch} \in X
  BY <1>1, <1>3
<1> HIDE DEF Chains, X, G
<1>5. PICK g \in [0..n -> X] : IsRun(g, {ch}, n, G)
  BY <1>4, RunExists
<1>6. g = [i \in 0..n |-> IF i = 0 THEN {ch} ELSE G[i][g[i - 1]]]
  BY <1>5 DEF IsRun
<1>7. ASSUME NEW i \in 0..n PROVE g[i] = IF i = 0 THEN {ch} ELSE More(g[i - 1])
  <2>1. CASE i = 0
    BY <1>6, <2>1
  <2>2. CASE i # 0
    <3>1. i \in 1..n /\ i - 1 \in 0..n
      BY <2>2
    <3>2. g[i] = G[i][g[i - 1]] /\ g[i - 1] \in X
      BY <1>5, <1>6, <2>2, <3>1
    <3>3. G[i][g[i - 1]] = More(g[i - 1])
      BY <3>1, <3>2 DEF G
    <3>4. QED  BY <2>2, <3>2, <3>3
  <2>3. QED  BY <2>1, <2>2
<1>8. IsLonger(g, ch, n)
  BY <1>6, <1>7 DEF IsLonger
<1>9. PICK f : f = (CHOOSE k : IsLonger(k, ch, n))
  OBVIOUS
<1>10. IsLonger(f, ch, n)
  BY <1>8, <1>9
<1>11. fork \in f[n]
  BY <1>9 DEF Longer, IsLonger, More
<1>12. \A i \in 0..n : f[i] = IF i = 0 THEN {ch} ELSE More(f[i - 1])
  BY <1>10 DEF IsLonger
<1> DEFINE Q == {i \in Nat : i <= n => \A c \in f[i] : Fork(ch, i, c)}
<1>13. 0 \in Q
  <2>1. f[0] = {ch}
    BY <1>12
  <2>2. ch \in Seq(Entry) /\ Len(ch) \in Nat
    BY UprightTop
  <2>3. SubSeq(ch, 1, Len(ch)) = ch /\ Len(ch) = Len(ch) + 0
    BY <2>2
  <2>4. QED  BY <2>1, <2>3 DEF Fork
<1>14. ASSUME NEW i \in Nat, i \in Q PROVE i + 1 \in Q
  <2> SUFFICES ASSUME i + 1 <= n, NEW c \in f[i + 1] PROVE Fork(ch, i + 1, c)
    OBVIOUS
  <2>1. i + 1 \in 0..n /\ i + 1 # 0 /\ (i + 1) - 1 = i /\ i <= n
    OBVIOUS
  <2>2. c \in More(f[i])
    BY <1>12, <2>1
  <2>3. PICK x \in f[i], b \in Block : Valid(StateOf(x), b) /\ c = Applied(x, b)
    BY <1>2, <2>2
  <2>4. Upright(x) /\ Len(x) = Len(ch) + i /\ SubSeq(x, 1, Len(ch)) = ch
    BY <1>14, <2>1 DEF Fork
  <2>5. Upright(c) /\ Len(c) = Len(x) + 1 /\ \A k \in 0..Len(x) : SubSeq(c, 1, k) = SubSeq(x, 1, k)
    BY <2>3, <2>4, UprightGrows
  <2>6. Len(ch) \in Nat /\ Len(ch) \in 0..Len(x)
    <3>1. ch \in Seq(Entry)
      BY UprightTop
    <3>2. QED  BY <2>4, <3>1
  <2>7. Len(c) = Len(ch) + (i + 1) /\ SubSeq(c, 1, Len(ch)) = ch
    BY <2>4, <2>5, <2>6
  <2>8. QED  BY <2>5, <2>7 DEF Fork
<1> HIDE DEF Q
<1>15. \A i \in Nat : i \in Q
  BY <1>13, <1>14, Counting
<1>16. QED  BY <1>11, <1>15 DEF Q

-----------------------------------------------------------------------------
(* The block _generate_block() makes *)

IsAssembly(g, st, txs, when) ==
  g = [n \in 0..Len(txs) |-> IF n = 0 THEN [st |-> st, txs |-> <<>>] ELSE Add(g[n - 1], txs[n], when)]

(* The block _generate_block() makes is no larger than allowed, and can be   *)
(* pushed.                                                                   *)
LEMMA AssembledSays ==
  ASSUME StateOf(chain) \in State, pending \in Seq(Tx), NEW when \in 1..MaxTime
  PROVE  /\ Assembled(when) \in Block /\ Assembled(when).time = when
         /\ Tried(StateOf(chain), Assembled(when).txs).txs = Assembled(when).txs
<1>0. PICK st \in State : st = StateOf(chain)
  OBVIOUS
<1> DEFINE N == Len(pending)
           X == {x \in Trial : Says(st, x) /\ Len(x.txs) <= BlockSize}
           G == [n \in 1..N |-> [x \in X |-> Add(x, pending[n], when)]]
<1>1. N \in Nat /\ \A n \in 1..N : pending[n] \in Tx
  OBVIOUS
<1>2. ASSUME NEW x \in X, NEW t \in Tx PROVE Add(x, t, when) \in X
  <2>1. CASE Add(x, t, when) = x
    BY <2>1
  <2>2. CASE Add(x, t, when) # x
    <3>1. Add(x, t, when) = Try(x, t) /\ Len(x.txs) # BlockSize /\ Try(x, t) # x
      BY <2>2 DEF Add
    <3>2. x \in Trial /\ x.txs \in Seq(Tx) /\ Says(st, x) /\ Len(x.txs) <= BlockSize
      BY DEF Trial
    <3>3. Try(x, t) \in Trial /\ Try(x, t).txs = Append(x.txs, t)
      BY <3>1, <3>2, TryType
    <3>4. Len(Try(x, t).txs) = Len(x.txs) + 1 /\ Len(x.txs) \in Nat
      BY <3>2, <3>3, AppendSays
    <3>5. Len(Try(x, t).txs) <= BlockSize
      BY <3>1, <3>2, <3>4, BlockSizeAssumption
    <3>6. QED  BY <3>1, <3>2, <3>3, <3>5, TrySays
  <2>3. QED  BY <2>1, <2>2
<1>3. Untried(st) \in X
  <2>1. Untried(st).txs = <<>> /\ Len(<<>>) = 0 /\ 0 <= BlockSize
    BY BlockSizeAssumption DEF Untried
  <2>2. QED  BY <2>1, UntriedSays DEF Says
<1>4. G \in [1..N -> [X -> X]]
  BY <1>1, <1>2
<1> HIDE DEF N, X, G
<1>5. PICK g \in [0..N -> X] : IsRun(g, Untried(st), N, G)
  BY <1>1, <1>3, <1>4, RunExists
<1>6. g = [n \in 0..N |-> IF n = 0 THEN Untried(st) ELSE G[n][g[n - 1]]]
  BY <1>5 DEF IsRun
<1>7. ASSUME NEW n \in 0..N
      PROVE  g[n] = IF n = 0 THEN Untried(st) ELSE Add(g[n - 1], pending[n], when)
  <2>1. CASE n = 0
    BY <1>6, <2>1
  <2>2. CASE n # 0
    <3>1. n \in 1..N /\ n - 1 \in 0..N
      BY <1>1, <2>2
    <3>2. g[n] = G[n][g[n - 1]] /\ g[n - 1] \in X
      BY <1>5, <1>6, <2>2, <3>1
    <3>3. G[n][g[n - 1]] = Add(g[n - 1], pending[n], when)
      BY <3>1, <3>2 DEF G
    <3>4. QED  BY <2>2, <3>2, <3>3
  <2>3. QED  BY <2>1, <2>2
<1>8. g = [n \in 0..N |-> IF n = 0 THEN Untried(st) ELSE Add(g[n - 1], pending[n], when)]
  BY <1>6, <1>7
<1>9. IsAssembly(g, st, pending, when)
  BY <1>8 DEF IsAssembly, Untried, N
<1>10. PICK h : h = (CHOOSE k : IsAssembly(k, st, pending, when))
  OBVIOUS
<1>11. IsAssembly(h, st, pending, when)
  BY <1>9, <1>10
<1>12. Assembled(when) = [time |-> when, txs |-> h[N].txs]
  BY <1>0, <1>10 DEF Assembled, IsAssembly, N
<1>13. \A n \in 0..N : h[n] = IF n = 0 THEN Untried(st) ELSE Add(h[n - 1], pending[n], when)
  BY <1>11 DEF IsAssembly, Untried, N
<1>14. InStep(g, h, N)
  BY <1>1, <1>7, <1>13 DEF InStep
<1>15. h[N] \in X
  <2>1. Together(g, h, N)
    BY <1>1, <1>14, SameRun
  <2>2. N \in 0..N
    BY <1>1
  <2>3. QED  BY <1>5, <2>1, <2>2 DEF Together
<1>16. PICK x : x = h[N]
  OBVIOUS
<1>17. x \in Trial /\ Says(st, x) /\ Len(x.txs) <= BlockSize /\ x.txs \in Seq(Tx)
  BY <1>15, <1>16 DEF X, Trial
<1>18. Tried(st, x.txs).txs = x.txs
  BY <1>17 DEF Says
<1>19. x.txs \in SeqOf(Tx, BlockSize)
  <2>1. Len(x.txs) \in 0..BlockSize /\ x.txs \in [1..Len(x.txs) -> Tx]
    BY <1>17, BlockSizeAssumption
  <2>2. QED  BY <2>1 DEF SeqOf
<1>20. QED  BY <1>0, <1>12, <1>16, <1>18, <1>19 DEF Block

-----------------------------------------------------------------------------
(* The pool *)

(* The pool: every state of the chain remembers its blocks, and what is      *)
(* pending applies in order.                                                 *)
PoolInv ==
  /\ Upright(chain) /\ pending \in Seq(Tx) /\ switches \in 0..MaxSwitches
  /\ Tried(StateOf(chain), pending).txs = pending

(* The transactions of a chain are those popping all of it gives. *)
LEMMA InChainPopped == ASSUME NEW ch \in Seq(Entry) PROVE InChain(ch) = Range(Popped(ch))
<1> DEFINE Q == {c \in Seq(Entry) : InChain(c) = Range(Popped(c))}
<1>1. <<>> \in Q
  <2>1. InChain(<<>>) = {} /\ <<>> \in Seq(Entry)
    BY DEF InChain
  <2>2. QED  BY <2>1, NoBlocks, EmptyList
<1>2. ASSUME NEW c \in Seq(Entry), NEW e \in Entry, c \in Q PROVE Append(c, e) \in Q
  <2>1. PICK more : more = Append(c, e)
    OBVIOUS
  <2>2. /\ more \in Seq(Entry) /\ Len(more) = Len(c) + 1 /\ Len(c) \in Nat /\ more[Len(c) + 1] = e
        /\ \A i \in 1..Len(c) : more[i] = c[i]
    BY <2>1, AppendSays
  <2>3. DOMAIN more = 1..(Len(c) + 1) /\ DOMAIN c = 1..Len(c)
    BY <2>2
  <2>4. \A i \in 1..(Len(c) + 1) : i \in 1..Len(c) \/ i = Len(c) + 1
    BY <2>2
  <2>5. \A i \in 1..Len(c) : i \in 1..(Len(c) + 1)
    BY <2>2
  <2>6. Len(c) + 1 \in 1..(Len(c) + 1)
    BY <2>2
  <2>7. InChain(more) = InChain(c) \cup Range(e.block.txs)
    BY <2>2, <2>3, <2>4, <2>5, <2>6 DEF InChain
  <2>8. /\ Popped(more) = Popped(c) \o e.block.txs
        /\ Popped(c) \in Seq(Tx) /\ e.block.txs \in Seq(Tx)
    BY <2>1, PoppedGrows
  <2>9. Range(Popped(more)) = Range(Popped(c)) \cup Range(e.block.txs)
    BY <2>8, ConcatKeeps
  <2>10. QED  BY <1>2, <2>1, <2>2, <2>7, <2>9
<1> HIDE DEF Q
<1>3. \A c \in Seq(Entry) : c \in Q
  BY <1>1, <1>2, Appending
<1>4. QED  BY <1>3 DEF Q

(* The transactions of the chain and then the pending ones: each once, each  *)
(* after what it needs.                                                      *)
LEMMA AllOnce ==
  ASSUME PoolInv
  PROVE  /\ Popped(chain) \in Seq(Tx) /\ Range(Popped(chain)) = InChain(chain)
         /\ StateOf(chain) \in State /\ StateOf(chain).applied = InChain(chain)
         /\ Distinct(Popped(chain) \o pending) /\ Closed({}, Popped(chain) \o pending)
<1>1. chain \in Seq(Entry) /\ Remembers(chain)
  BY UprightTop DEF PoolInv
<1>2. PICK st \in State : st = StateOf(chain)
  BY <1>1 DEF Remembers
<1>3. Popped(chain) \in Seq(Tx)
  BY <1>1, PoppedType
<1>4. PICK p \in Seq(Tx) : p = Popped(chain)
  BY <1>3
<1>5. Says(st, Tried(st, pending)) /\ Tried(st, pending).txs = pending /\ pending \in Seq(Tx)
  BY <1>2, TriedSays DEF PoolInv
<1>6. /\ \A t \in Range(pending) : t \notin st.known /\ st.time < Expiration[t]
      /\ Distinct(pending) /\ Closed(st.applied, pending)
  BY <1>5 DEF Says
<1>7. /\ st.applied = Range(p) /\ Distinct(p) /\ Closed({}, p)
      /\ \A t \in Range(p) : t \in st.known \/ Expiration[t] < st.time
  BY <1>1, <1>2, <1>4 DEF Remembers
<1>8. \A t \in Range(pending) : Expiration[t] \in Nat
  BY <1>5, ExpirationAssumption DEF Range
<1>9. st.time \in Nat
  BY BoundsAssumption DEF State
<1>10. Range(p) \cap Range(pending) = {}
  BY <1>6, <1>7, <1>8, <1>9
<1>11. {} \cup Range(p) = st.applied
  BY <1>7
<1>12. Distinct(p \o pending) /\ Closed({}, p \o pending)
  BY <1>5, <1>6, <1>7, <1>10, <1>11, ConcatKeeps
<1>13. InChain(chain) = Range(p)
  BY <1>1, <1>4, InChainPopped
<1>14. QED  BY <1>2, <1>4, <1>7, <1>12, <1>13

(* What without_pending_transactions() does at its end, with any list. *)
LEMMA Resumed ==
  ASSUME NEW c, Upright(c), NEW s \in Seq(Tx), NEW A, Closed(A, s), A \subseteq StateOf(c).applied,
         NEW q, q = Tried(StateOf(c), s).txs
  PROVE  /\ q \in Seq(Tx) /\ Tried(StateOf(c), q).txs = q
         /\ \A u \in Range(s) \ Range(q) : ~Applies(Tried(StateOf(c), q).st, u)
<1>1. PICK st \in State : st = StateOf(c)
  BY UprightTop DEF Remembers
<1>2. PICK r : r = Tried(st, s)
  OBVIOUS
<1>3. Says(st, r) /\ Refuses(st, s, A)
  BY <1>2, TriedSays
<1>4. r \in Trial /\ Tried(st, r.txs) = r /\ q = r.txs
  BY <1>1, <1>2, <1>3 DEF Says
<1>5. \A u \in Range(s) \ Range(r.txs) : ~Applies(r.st, u)
  BY <1>1, <1>2, <1>3 DEF Refuses
<1>6. r.txs \in Seq(Tx)
  BY <1>4 DEF Trial
<1>7. QED  BY <1>1, <1>4, <1>5, <1>6

(* A chain is what is kept of it and what is above. *)
LEMMA Split ==
  ASSUME NEW c, Upright(c), NEW k \in 0..Len(c)
  PROVE  /\ Above(c, k) \in Seq(Entry) /\ Upright(SubSeq(c, 1, k))
         /\ Popped(SubSeq(c, 1, k)) \in Seq(Tx) /\ Popped(Above(c, k)) \in Seq(Tx)
         /\ Popped(c) = Popped(SubSeq(c, 1, k)) \o Popped(Above(c, k))
         /\ StateOf(SubSeq(c, 1, k)).applied = Range(Popped(SubSeq(c, 1, k)))
         /\ StateOf(c).applied = Range(Popped(SubSeq(c, 1, k))) \cup Range(Popped(Above(c, k)))
         /\ Closed(Range(Popped(SubSeq(c, 1, k))), Popped(Above(c, k)))
<1>1. c \in Seq(Entry) /\ Remembers(c) /\ Len(c) \in Nat
  BY UprightTop
<1>2. PICK K : K = SubSeq(c, 1, k)
  OBVIOUS
<1>3. PICK V : V = Above(c, k)
  OBVIOUS
<1>4. Upright(K) /\ K \in Seq(Entry) /\ Remembers(K)
  BY <1>2, UprightPrefix, UprightTop
<1>5. V \in Seq(Entry)
  BY <1>1, <1>3 DEF Above
<1>6. c = K \o V
  <2>1. /\ 1 \in 1..(Len(c) + 1) /\ k \in (1 - 1)..Len(c) /\ Len(c) \in k..Len(c)
    BY <1>1
  <2>2. SubSeq(c, 1, k) \o SubSeq(c, k + 1, Len(c)) = SubSeq(c, 1, Len(c))
    BY <1>1, <2>1, ConcatAdjacentSubSeq
  <2>3. SubSeq(c, 1, Len(c)) = c
    BY <1>1
  <2>4. QED  BY <1>2, <1>3, <2>2, <2>3 DEF Above
<1>7. PICK p \in Seq(Tx) : p = Popped(K)
  BY <1>4, PoppedType
<1>8. PICK q \in Seq(Tx) : q = Popped(V)
  BY <1>5, PoppedType
<1>9. Popped(c) = p \o q
  BY <1>4, <1>5, <1>6, <1>7, <1>8, PoppedConcat
<1>10. Range(p \o q) = Range(p) \cup Range(q) /\ (Closed({}, p \o q) => Closed({} \cup Range(p), q))
  BY ConcatKeeps
<1>11. StateOf(K).applied = Range(p) /\ StateOf(c).applied = Range(p \o q) /\ Closed({}, p \o q)
  BY <1>1, <1>4, <1>7, <1>9 DEF Remembers
<1>12. {} \cup Range(p) = Range(p)
  OBVIOUS
<1>13. Closed(Range(p), q)
  BY <1>10, <1>11, <1>12
<1>14. QED  BY <1>2, <1>3, <1>4, <1>5, <1>7, <1>8, <1>9, <1>10, <1>11, <1>13

(* Nothing is lost in a step. *)
KeepsAll ==
  \A t \in (Range(pending) \cup InChain(chain)) \ (Range(pending') \cup InChain(chain')) :
    ~Applies(Tried(StateOf(chain'), pending').st, t)

(* A step that tries a list with everything that is not in the new chain. *)
LEMMA PoolStep ==
  ASSUME NEW s \in Seq(Tx), NEW A, Upright(chain'), Closed(A, s), A \subseteq StateOf(chain').applied,
         pending' = Tried(StateOf(chain'), s).txs, switches' \in 0..MaxSwitches,
         Range(pending) \cup InChain(chain) \subseteq Range(s) \cup InChain(chain')
  PROVE  PoolInv' /\ KeepsAll
<1>1. /\ pending' \in Seq(Tx) /\ Tried(StateOf(chain'), pending').txs = pending'
      /\ \A u \in Range(s) \ Range(pending') : ~Applies(Tried(StateOf(chain'), pending').st, u)
  BY Resumed
<1>2. KeepsAll
  BY <1>1 DEF KeepsAll
<1>3. QED  BY <1>1, <1>2 DEF PoolInv

(* push_transaction() keeps what is pending applicable and drops nothing. *)
LEMMA PushTransaction ==
  ASSUME PoolInv, NEW t \in Tx, push_transaction(t)
  PROVE  PoolInv' /\ KeepsAll
<1>1. PICK st \in State : st = StateOf(chain)
  BY AllOnce
<1>2. pending \in Seq(Tx) /\ pending' = Append(pending, t) /\ chain' = chain /\ switches' = switches
  BY DEF PoolInv, push_transaction
<1>3. PICK r : r = Tried(st, pending)
  OBVIOUS
<1>4. r \in Trial /\ r.txs = pending /\ Applies(r.st, t)
  BY <1>1, <1>2, <1>3, TriedGrows DEF PoolInv, push_transaction, CanPush
<1>5. Tried(st, pending') = Try(r, t) /\ Try(r, t).txs = pending'
  BY <1>2, <1>3, <1>4, TriedGrows, TryType
<1>6. pending' \in Seq(Tx) /\ Range(pending') = Range(pending) \cup {t}
  BY <1>2, AppendSays
<1>7. Tried(StateOf(chain'), pending').txs = pending'
  BY <1>1, <1>2, <1>5
<1>8. PoolInv'
  BY <1>2, <1>6, <1>7 DEF PoolInv
<1>9. KeepsAll
  BY <1>2, <1>6 DEF KeepsAll
<1>10. QED  BY <1>8, <1>9

(* The pending transactions need what is applied or comes before them. *)
LEMMA PendingClosed ==
  ASSUME PoolInv
  PROVE  Closed(StateOf(chain).applied, pending)
<1>1. /\ Popped(chain) \in Seq(Tx) /\ pending \in Seq(Tx) /\ Closed({}, Popped(chain) \o pending)
      /\ StateOf(chain).applied = Range(Popped(chain))
  BY AllOnce DEF PoolInv
<1>2. Closed({} \cup Range(Popped(chain)), pending)
  BY <1>1, ConcatKeeps
<1>3. {} \cup Range(Popped(chain)) = StateOf(chain).applied
  BY <1>1
<1>4. QED  BY <1>2, <1>3

(* So does a block on the head: what it confirms is in the chain, what it    *)
(* makes invalid is dropped.                                                 *)
LEMMA PushBlock ==
  ASSUME PoolInv, NEW b \in Block, push_block(b)
  PROVE  /\ PoolInv' /\ KeepsAll
         /\ Above(chain', Len(chain)) \in Seq(Entry)
<1>1. /\ Valid(StateOf(chain), b) /\ chain' = Applied(chain, b) /\ switches' = switches
      /\ pending' = Tried(StateOf(chain'), <<>> \o pending).txs /\ pending \in Seq(Tx)
      /\ Upright(chain) /\ switches \in 0..MaxSwitches
  BY DEF PoolInv, push_block, Restored
<1>2. <<>> \o pending = pending
  BY <1>1, ConcatEmptySeq
<1>3. /\ Upright(chain') /\ Len(chain') = Len(chain) + 1 /\ Len(chain) \in Nat
      /\ SubSeq(chain', 1, Len(chain)) = SubSeq(chain, 1, Len(chain))
  <2>1. /\ Upright(chain') /\ Len(chain') = Len(chain) + 1 /\ Len(chain) \in Nat
        /\ \A k \in 0..Len(chain) : SubSeq(chain', 1, k) = SubSeq(chain, 1, k)
    BY <1>1, UprightGrows
  <2>2. QED  BY <2>1
<1>4. SubSeq(chain, 1, Len(chain)) = chain /\ chain \in Seq(Entry)
  BY <1>1, UprightTop
<1>5. Len(chain) \in 0..Len(chain')
  BY <1>3
<1>6. /\ Above(chain', Len(chain)) \in Seq(Entry)
      /\ StateOf(chain').applied = Range(Popped(chain)) \cup Range(Popped(Above(chain', Len(chain))))
  BY <1>3, <1>4, <1>5, Split
<1>7. chain' \in Seq(Entry) /\ Remembers(chain')
  BY <1>3, UprightTop
<1>8. InChain(chain') = StateOf(chain').applied
  BY <1>7, InChainPopped DEF Remembers
<1>9. StateOf(chain).applied = InChain(chain) /\ Range(Popped(chain)) = InChain(chain)
  BY AllOnce
<1>10. StateOf(chain).applied \subseteq StateOf(chain').applied /\ InChain(chain) \subseteq InChain(chain')
  BY <1>6, <1>8, <1>9
<1>11. Closed(StateOf(chain).applied, pending)
  BY PendingClosed
<1>12. pending' = Tried(StateOf(chain'), pending).txs /\ switches' \in 0..MaxSwitches
  BY <1>1, <1>2
<1>13. PoolInv' /\ KeepsAll
  BY <1>1, <1>3, <1>10, <1>11, <1>12, PoolStep
<1>14. QED  BY <1>6, <1>13

(* The blocks above k and what is pending need what is kept. *)
LEMMA AboveClosed ==
  ASSUME PoolInv, NEW k \in 0..Len(chain)
  PROVE  /\ Popped(Above(chain, k)) \o pending \in Seq(Tx)
         /\ Closed(Range(Popped(Kept(k))), Popped(Above(chain, k)) \o pending)
         /\ Range(Popped(Above(chain, k)) \o pending) = Range(Popped(Above(chain, k))) \cup Range(pending)
         /\ InChain(chain) = Range(Popped(Kept(k))) \cup Range(Popped(Above(chain, k)))
<1>1. Upright(chain) /\ pending \in Seq(Tx)
  BY DEF PoolInv
<1>2. PICK p \in Seq(Tx) : p = Popped(Kept(k))
  BY <1>1, Split DEF Kept
<1>3. PICK q \in Seq(Tx) : q = Popped(Above(chain, k))
  BY <1>1, Split
<1>4. Popped(chain) = p \o q
  BY <1>1, <1>2, <1>3, Split DEF Kept
<1>5. q \o pending \in Seq(Tx) /\ Range(q \o pending) = Range(q) \cup Range(pending)
  BY <1>1, ConcatKeeps
<1>6. (p \o q) \o pending = p \o (q \o pending)
  BY <1>1, Associative
<1>7. Closed({}, p \o (q \o pending))
  <2>1. Closed({}, Popped(chain) \o pending)
    BY AllOnce
  <2>2. QED  BY <1>4, <1>6, <2>1
<1>8. Closed({} \cup Range(p), q \o pending)
  BY <1>5, <1>7, ConcatKeeps
<1>9. {} \cup Range(p) = Range(p)
  OBVIOUS
<1>10. Range(p \o q) = Range(p) \cup Range(q)
  BY ConcatKeeps
<1>11. InChain(chain) = Range(p \o q)
  BY <1>4, AllOnce
<1>12. QED  BY <1>2, <1>3, <1>5, <1>8, <1>9, <1>10, <1>11

(* So does a switch to a longer fork: the popped transactions that the fork  *)
(* does not contain are tried before the pending ones.                       *)
LEMMA SwitchFork ==
  ASSUME PoolInv, NEW n \in Depths, NEW k, k = Len(chain) - n,
         NEW fork \in Longer(Kept(k), n + 1), switch_fork(k, fork)
  PROVE  PoolInv' /\ KeepsAll /\ Above(fork, k) \in Seq(Entry)
<1>0. /\ Upright(chain) /\ pending \in Seq(Tx) /\ chain \in Seq(Entry) /\ Len(chain) \in Nat
      /\ switches \in 0..MaxSwitches
  BY UprightTop DEF PoolInv
<1>1. n \in Nat /\ n <= Len(chain) /\ n >= 1 /\ switches < MaxSwitches
  BY BoundsAssumption DEF Depths
<1>2. k \in 0..Len(chain) /\ n + 1 \in Nat
  BY <1>0, <1>1
<1>3. Upright(Kept(k)) /\ Len(Kept(k)) = k
  BY <1>0, <1>2, UprightPrefix DEF Kept
<1>4. Fork(Kept(k), n + 1, fork)
  BY <1>2, <1>3, LongerSays
<1>5. Upright(fork) /\ Len(fork) = k + (n + 1) /\ SubSeq(fork, 1, k) = Kept(k)
  BY <1>3, <1>4 DEF Fork
<1>6. k \in 0..Len(fork)
  BY <1>1, <1>2, <1>5
<1>7. /\ Above(fork, k) \in Seq(Entry)
      /\ StateOf(fork).applied = Range(Popped(Kept(k))) \cup Range(Popped(Above(fork, k)))
  BY <1>5, <1>6, Split
<1>8. fork \in Seq(Entry) /\ Remembers(fork)
  BY <1>5, UprightTop
<1>9. InChain(fork) = StateOf(fork).applied
  BY <1>8, InChainPopped DEF Remembers
<1>10. PICK s : s = Popped(Above(chain, k)) \o pending
  OBVIOUS
<1>11. /\ s \in Seq(Tx) /\ Closed(Range(Popped(Kept(k))), s)
       /\ Range(s) = Range(Popped(Above(chain, k))) \cup Range(pending)
       /\ InChain(chain) = Range(Popped(Kept(k))) \cup Range(Popped(Above(chain, k)))
  BY <1>2, <1>10, AboveClosed
<1>12. chain' = fork /\ pending' = Tried(StateOf(chain'), s).txs /\ switches' = switches + 1
  BY <1>10 DEF switch_fork, Restored
<1>13. switches' \in 0..MaxSwitches
  BY <1>0, <1>1, <1>12, BoundsAssumption
<1>14. Range(Popped(Kept(k))) \subseteq StateOf(chain').applied
  BY <1>7, <1>12
<1>15. Range(pending) \cup InChain(chain) \subseteq Range(s) \cup InChain(chain')
  BY <1>7, <1>9, <1>11, <1>12
<1>16. PoolInv' /\ KeepsAll
  BY <1>5, <1>11, <1>12, <1>13, <1>14, <1>15, PoolStep
<1>17. QED  BY <1>7, <1>16

(* So does one that fails: the old branch is back, and its transactions are  *)
(* known.                                                                    *)
LEMMA SwitchForkFails ==
  ASSUME PoolInv, NEW n \in Depths, NEW k, k = Len(chain) - n, NEW j \in 0..n,
         NEW fork \in Longer(Kept(k), j), switch_fork_fails(k, fork)
  PROVE  PoolInv' /\ KeepsAll /\ Above(fork, k) \o Above(chain, k) \in Seq(Entry)
<1>0. /\ Upright(chain) /\ pending \in Seq(Tx) /\ chain \in Seq(Entry) /\ Len(chain) \in Nat
      /\ switches \in 0..MaxSwitches
  BY UprightTop DEF PoolInv
<1>1. n \in Nat /\ n <= Len(chain) /\ n >= 1 /\ switches < MaxSwitches
  BY BoundsAssumption DEF Depths
<1>2. k \in 0..Len(chain) /\ j \in Nat
  BY <1>0, <1>1
<1>3. Upright(Kept(k)) /\ Len(Kept(k)) = k
  BY <1>0, <1>2, UprightPrefix DEF Kept
<1>4. Fork(Kept(k), j, fork)
  BY <1>2, <1>3, LongerSays
<1>5. Upright(fork) /\ Len(fork) = k + j /\ SubSeq(fork, 1, k) = Kept(k)
  BY <1>3, <1>4 DEF Fork
<1>6. k \in 0..Len(fork)
  BY <1>1, <1>2, <1>5
<1>7. PICK A : A = Range(Popped(Kept(k)))
  OBVIOUS
<1>8. PICK f \in Seq(Tx) : f = Popped(Above(fork, k))
  BY <1>5, <1>6, Split
<1>9. PICK v \in Seq(Tx) : v = Popped(Above(chain, k))
  BY <1>0, <1>2, Split
<1>10. Above(fork, k) \in Seq(Entry) /\ Above(chain, k) \in Seq(Entry) /\ Closed(A, f)
  BY <1>0, <1>2, <1>5, <1>6, <1>7, <1>8, Split
<1>11. Popped(Above(fork, k) \o Above(chain, k)) = f \o v
  BY <1>8, <1>9, <1>10, PoppedConcat
<1>12. /\ v \o pending \in Seq(Tx) /\ Closed(A, v \o pending)
       /\ Range(v \o pending) = Range(v) \cup Range(pending)
       /\ InChain(chain) = A \cup Range(v)
  BY <1>2, <1>7, <1>9, AboveClosed
<1>13. Closed(A \cup Range(f), v \o pending)
  <2>1. A \subseteq A \cup Range(f)
    OBVIOUS
  <2>2. QED  BY <1>12, <2>1, ClosedMore
<1>14. PICK s : s = f \o (v \o pending)
  OBVIOUS
<1>15. /\ s \in Seq(Tx) /\ Closed(A, s) /\ Range(s) = Range(f) \cup Range(v \o pending)
  BY <1>10, <1>12, <1>13, <1>14, ConcatKeeps
<1>17. (f \o v) \o pending = s
  BY <1>0, <1>14, Associative
<1>18. chain' = chain /\ pending' = Tried(StateOf(chain'), s).txs /\ switches' = switches + 1
  BY <1>11, <1>17 DEF switch_fork_fails, Restored
<1>19. switches' \in 0..MaxSwitches
  BY <1>0, <1>1, <1>18, BoundsAssumption
<1>20. A \subseteq StateOf(chain').applied
  BY <1>0, <1>2, <1>7, <1>18, Split DEF Kept
<1>21. Range(pending) \cup InChain(chain) \subseteq Range(s) \cup InChain(chain')
  BY <1>12, <1>15, <1>18
<1>22. PoolInv' /\ KeepsAll
  BY <1>0, <1>15, <1>18, <1>19, <1>20, <1>21, PoolStep
<1>23. Above(fork, k) \o Above(chain, k) \in Seq(Entry)
  BY <1>10
<1>24. QED  BY <1>22, <1>23

-----------------------------------------------------------------------------
(* Callbacks *)

(* The state that on_post_apply_block() changes. *)
Outcome == {"unset", "confirmed", "expired"}
SyncState == [promise : [Client -> Outcome], callbacks : [Tx -> Client \cup {NoTx}],
              expirations : SUBSET Tx]

(* A callback belongs to the call that sent its transaction, which runs and  *)
(* has no answer.                                                            *)
Alive(s) ==
  \A t \in Tx : s.callbacks[t] # NoTx =>
    /\ Sent[s.callbacks[t]] = t
    /\ call[s.callbacks[t]] \in {"queued", "failed", "waiting"}
    /\ s.promise[s.callbacks[t]] = "unset"

Current == [promise |-> promise, callbacks |-> callbacks, expirations |-> expirations]

SyncInv ==
  /\ call \in [Client -> {"idle", "queued", "failed", "waiting", "thrown", "returned"}]
  /\ Current \in SyncState /\ Alive(Current)
  /\ \A c \in Client : call[c] = "idle" => promise[c] = "unset"

(* Setting the promises of some transactions and dropping their callbacks. *)
LEMMA AnswerKeeps ==
  ASSUME NEW s \in SyncState, Alive(s), NEW T \in SUBSET Tx, NEW o \in {"confirmed", "expired"}
  PROVE  /\ Answer(s, T, o) \in SyncState /\ Alive(Answer(s, T, o))
         /\ Answer(s, T, o).expirations = s.expirations
         /\ \A c \in Client : call[c] = "idle" => Answer(s, T, o).promise[c] = s.promise[c]
<1>1. PICK p : p = [c \in Client |-> IF \E t \in T : s.callbacks[t] = c THEN o ELSE s.promise[c]]
  OBVIOUS
<1>2. PICK b : b = [t \in Tx |-> IF t \in T THEN NoTx ELSE s.callbacks[t]]
  OBVIOUS
<1>3. /\ s.promise \in [Client -> Outcome] /\ s.callbacks \in [Tx -> Client \cup {NoTx}]
      /\ s.expirations \in SUBSET Tx
  BY DEF SyncState
<1>4. Answer(s, T, o) = [promise |-> p, callbacks |-> b, expirations |-> s.expirations]
  <2>1. PICK r : r = [s EXCEPT !.promise = p]
    OBVIOUS
  <2>2. r = [promise |-> p, callbacks |-> s.callbacks, expirations |-> s.expirations]
    BY <2>1 DEF SyncState
  <2>3. [r EXCEPT !.callbacks = b] = [promise |-> p, callbacks |-> b, expirations |-> s.expirations]
    BY <2>2
  <2>4. r.callbacks = s.callbacks
    BY <2>2
  <2>5. Answer(s, T, o) = [r EXCEPT !.callbacks = b]
    BY <1>1, <1>2, <2>1, <2>4 DEF Answer
  <2>6. QED  BY <2>3, <2>5
<1>5. p \in [Client -> Outcome]
  BY <1>1, <1>3 DEF Outcome
<1>6. b \in [Tx -> Client \cup {NoTx}]
  BY <1>2, <1>3
<1>7. Answer(s, T, o) \in SyncState
  BY <1>3, <1>4, <1>5, <1>6 DEF SyncState
<1>8. ASSUME NEW t \in Tx, b[t] # NoTx
      PROVE  Sent[b[t]] = t /\ call[b[t]] \in {"queued", "failed", "waiting"} /\ p[b[t]] = "unset"
  <2>1. t \notin T /\ b[t] = s.callbacks[t]
    BY <1>2, <1>8
  <2>2. /\ Sent[b[t]] = t /\ call[b[t]] \in {"queued", "failed", "waiting"}
        /\ s.promise[b[t]] = "unset" /\ b[t] \in Client
    BY <1>3, <1>8, <2>1 DEF Alive
  <2>3. ASSUME NEW u \in T, s.callbacks[u] = b[t] PROVE FALSE
    <3>1. Sent[s.callbacks[u]] = u
      BY <1>8, <2>3 DEF Alive
    <3>2. QED  BY <2>1, <2>2, <2>3, <3>1
  <2>4. p[b[t]] = s.promise[b[t]]
    BY <1>1, <2>2, <2>3
  <2>5. QED  BY <2>2, <2>4
<1>9. Alive(Answer(s, T, o))
  BY <1>4, <1>8 DEF Alive
<1>10. ASSUME NEW c \in Client, call[c] = "idle" PROVE p[c] = s.promise[c]
  <2>1. ASSUME NEW t \in T, s.callbacks[t] = c PROVE FALSE
    <3>1. c # NoTx
      BY SentAssumption
    <3>2. call[c] \in {"queued", "failed", "waiting"}
      BY <2>1, <3>1 DEF Alive
    <3>3. QED  BY <1>10, <3>2
  <2>2. QED  BY <1>1, <2>1
<1>11. QED  BY <1>4, <1>7, <1>9, <1>10

(* A block confirms and expires transactions; the calls that have not begun  *)
(* are left alone.                                                           *)
Still(s) ==
  s \in SyncState /\ Alive(s) /\ \A c \in Client : call[c] = "idle" => s.promise[c] = "unset"

(* One block posted: each callback that was used is gone, with its promise set. *)
LEMMA PostedKeeps ==
  ASSUME NEW s, Still(s), NEW e \in Entry
  PROVE  Still(Posted(s, e))
<1>1. s \in SyncState /\ Alive(s)
  BY DEF Still
<1>2. PICK T \in SUBSET Tx : T = Range(e.block.txs)
  <2>1. e.block \in Block
    BY DEF Entry
  <2>2. e.block.txs \in Seq(Tx)
    BY <2>1, BlockTxs
  <2>3. Range(e.block.txs) \subseteq Tx
    BY <2>2 DEF Range
  <2>4. QED  BY <2>3
<1>3. PICK a : a = Answer(s, T, "confirmed")
  OBVIOUS
<1>4. /\ a \in SyncState /\ Alive(a)
      /\ \A c \in Client : call[c] = "idle" => a.promise[c] = s.promise[c]
  BY <1>1, <1>3, AnswerKeeps
<1>5. PICK P : P = Passed(a, e.block.time)
  OBVIOUS
<1>6. P \in SUBSET Tx
  BY <1>4, <1>5 DEF Passed, SyncState
<1>7. PICK z : z = Answer(a, P, "expired")
  OBVIOUS
<1>8. /\ z \in SyncState /\ Alive(z)
      /\ \A c \in Client : call[c] = "idle" => z.promise[c] = a.promise[c]
  BY <1>4, <1>6, <1>7, AnswerKeeps
<1>9. Posted(s, e) = [z EXCEPT !.expirations = z.expirations \ P]
  BY <1>2, <1>3, <1>5, <1>7 DEF Posted
<1>10. Posted(s, e) = [promise |-> z.promise, callbacks |-> z.callbacks,
                       expirations |-> z.expirations \ P]
  BY <1>8, <1>9 DEF SyncState
<1>11. Posted(s, e) \in SyncState
  <2>1. /\ z.promise \in [Client -> Outcome] /\ z.callbacks \in [Tx -> Client \cup {NoTx}]
        /\ z.expirations \ P \in SUBSET Tx
    BY <1>8 DEF SyncState
  <2>2. QED  BY <1>10, <2>1 DEF SyncState
<1>12. Posted(s, e).promise = z.promise /\ Posted(s, e).callbacks = z.callbacks
  BY <1>10
<1>13. Alive(Posted(s, e))
  BY <1>8, <1>12 DEF Alive
<1>14. \A c \in Client : call[c] = "idle" => Posted(s, e).promise[c] = "unset"
  BY <1>4, <1>8, <1>12 DEF Still
<1>15. QED  BY <1>11, <1>13, <1>14 DEF Still

IsPost(g, s, bs) ==
  g = [n \in 0..Len(bs) |-> IF n = 0 THEN s ELSE Posted(g[n - 1], bs[n])]

(* Any number of blocks. *)
LEMMA PostKeeps ==
  ASSUME SyncInv, NEW bs \in Seq(Entry), on_post_apply_block(bs)
  PROVE  SyncInv'
<1> DEFINE N == Len(bs)
           X == {s \in SyncState : Still(s)}
           G == [n \in 1..N |-> [s \in X |-> Posted(s, bs[n])]]
<1>1. N \in Nat /\ \A n \in 1..N : bs[n] \in Entry
  OBVIOUS
<1>2. \A s \in X : \A e \in Entry : Posted(s, e) \in X
  BY PostedKeeps DEF Still
<1>3. Current \in X
  <2>1. Current.promise = promise
    BY DEF Current
  <2>2. QED  BY <2>1 DEF SyncInv, Still
<1>4. G \in [1..N -> [X -> X]]
  BY <1>1, <1>2
<1> HIDE DEF N, X, G
<1>5. PICK g \in [0..N -> X] : IsRun(g, Current, N, G)
  BY <1>1, <1>3, <1>4, RunExists
<1>6. g = [n \in 0..N |-> IF n = 0 THEN Current ELSE G[n][g[n - 1]]]
  BY <1>5 DEF IsRun
<1>7. ASSUME NEW n \in 0..N PROVE g[n] = IF n = 0 THEN Current ELSE Posted(g[n - 1], bs[n])
  <2>1. CASE n = 0
    BY <1>6, <2>1
  <2>2. CASE n # 0
    <3>1. n \in 1..N /\ n - 1 \in 0..N
      BY <1>1, <2>2
    <3>2. g[n] = G[n][g[n - 1]] /\ g[n - 1] \in X
      BY <1>5, <1>6, <2>2, <3>1
    <3>3. G[n][g[n - 1]] = Posted(g[n - 1], bs[n])
      BY <3>1, <3>2 DEF G
    <3>4. QED  BY <2>2, <3>2, <3>3
  <2>3. QED  BY <2>1, <2>2
<1>8. IsPost(g, Current, bs)
  <2>1. g = [n \in 0..N |-> IF n = 0 THEN Current ELSE Posted(g[n - 1], bs[n])]
    BY <1>6, <1>7
  <2>2. QED  BY <2>1 DEF IsPost, N
<1>9. PICK h : h = (CHOOSE k : IsPost(k, Current, bs))
  OBVIOUS
<1>10. IsPost(h, Current, bs)
  BY <1>8, <1>9
<1>11. \A n \in 0..N : h[n] = IF n = 0 THEN Current ELSE Posted(h[n - 1], bs[n])
  BY <1>10 DEF IsPost, N
<1>12. InStep(g, h, N)
  BY <1>1, <1>7, <1>11 DEF InStep
<1>13. h[N] \in X
  <2>1. Together(g, h, N)
    BY <1>1, <1>12, SameRun
  <2>2. N \in 0..N
    BY <1>1
  <2>3. QED  BY <1>5, <2>1, <2>2 DEF Together
<1>14. /\ promise' = h[N].promise /\ callbacks' = h[N].callbacks /\ expirations' = h[N].expirations
       /\ call' = call
  BY <1>9 DEF on_post_apply_block, IsPost, Current, N
<1>15. PICK s : s = h[N]
  OBVIOUS
<1>16. Still(s)
  BY <1>13, <1>15 DEF X
<1>17. Current' = s
  BY <1>14, <1>15, <1>16 DEF Current, Still, SyncState
<1>18. Alive(Current)'
  <2>1. Current'.callbacks = s.callbacks /\ Current'.promise = s.promise
    BY <1>17
  <2>2. QED  BY <1>14, <1>16, <2>1 DEF Still, Alive
<1>19. Current' \in SyncState
  BY <1>16, <1>17 DEF Still
<1>20. \A c \in Client : call'[c] = "idle" => promise'[c] = "unset"
  BY <1>14, <1>15, <1>16 DEF Still
<1>21. QED  BY <1>14, <1>18, <1>19, <1>20 DEF SyncInv, SyncState, Outcome

(* The steps of a call keep its callback alive until it has an answer. *)
LEMMA CallKeeps ==
  ASSUME SyncInv, NEW c \in Client,
         \/ register(c) \/ erase(c) \/ answered(c)
         \/ accept_transaction(c)
  PROVE  SyncInv'
<1>1. /\ call \in [Client -> {"idle", "queued", "failed", "waiting", "thrown", "returned"}]
      /\ promise \in [Client -> Outcome] /\ callbacks \in [Tx -> Client \cup {NoTx}]
      /\ expirations \in SUBSET Tx
  BY DEF SyncInv, Current, SyncState
<1>2. /\ \A t \in Tx : callbacks[t] # NoTx =>
             /\ Sent[callbacks[t]] = t /\ callbacks[t] \in Client
             /\ call[callbacks[t]] \in {"queued", "failed", "waiting"}
             /\ promise[callbacks[t]] = "unset"
      /\ \A x \in Client : call[x] = "idle" => promise[x] = "unset"
  BY <1>1 DEF SyncInv, Alive, Current
<1>3. SUFFICES
        /\ call' \in [Client -> {"idle", "queued", "failed", "waiting", "thrown", "returned"}]
        /\ promise' = promise /\ callbacks' \in [Tx -> Client \cup {NoTx}] /\ expirations' \in SUBSET Tx
        /\ \A t \in Tx : callbacks'[t] # NoTx =>
             /\ Sent[callbacks'[t]] = t
             /\ call'[callbacks'[t]] \in {"queued", "failed", "waiting"}
             /\ promise[callbacks'[t]] = "unset"
        /\ \A x \in Client : call'[x] = "idle" => call[x] = "idle"
  <2>1. Current' = [promise |-> promise', callbacks |-> callbacks', expirations |-> expirations']
    BY DEF Current
  <2>2. Current' \in SyncState
    BY <1>1, <1>3, <2>1 DEF SyncState
  <2>3. Alive(Current)'
    BY <1>3, <2>1 DEF Alive
  <2>4. \A x \in Client : call'[x] = "idle" => promise'[x] = "unset"
    BY <1>2, <1>3
  <2>5. QED  BY <1>3, <2>2, <2>3, <2>4 DEF SyncInv
<1>4. Sent[c] \in Tx /\ c # NoTx
  BY SentAssumption
<1>5. CASE register(c)
  <2>1. CASE callbacks[Sent[c]] # NoTx
    <3>1. /\ call' = [call EXCEPT ![c] = "thrown"] /\ callbacks' = callbacks
          /\ expirations' = expirations /\ promise' = promise /\ call[c] = "idle"
      BY <1>5, <2>1 DEF register
    <3>2. QED  BY <1>1, <1>2, <3>1
  <2>2. CASE callbacks[Sent[c]] = NoTx
    <3>1. /\ call' = [call EXCEPT ![c] = "queued"] /\ callbacks' = [callbacks EXCEPT ![Sent[c]] = c]
          /\ expirations' = expirations \cup {Sent[c]} /\ promise' = promise /\ call[c] = "idle"
      BY <1>5, <2>2 DEF register
    <3>2. expirations' \in SUBSET Tx
      BY <1>1, <1>4, <3>1
    <3>3. callbacks' \in [Tx -> Client \cup {NoTx}]
      BY <1>1, <3>1
    <3>4. ASSUME NEW t \in Tx, callbacks'[t] # NoTx
          PROVE  /\ Sent[callbacks'[t]] = t
                 /\ call'[callbacks'[t]] \in {"queued", "failed", "waiting"}
                 /\ promise[callbacks'[t]] = "unset"
      <4>1. CASE t = Sent[c]
        BY <1>1, <1>2, <1>4, <3>1, <4>1
      <4>2. CASE t # Sent[c]
        BY <1>1, <1>2, <1>4, <3>1, <3>4, <4>2
      <4>3. QED  BY <4>1, <4>2
    <3>5. QED  BY <1>1, <3>1, <3>2, <3>3, <3>4
  <2>3. QED  BY <2>1, <2>2
<1>6. CASE accept_transaction(c)
  <2>1. PICK to \in {"waiting", "failed"} :
          /\ call' = [call EXCEPT ![c] = to] /\ callbacks' = callbacks
          /\ expirations' = expirations /\ promise' = promise /\ call[c] = "queued"
    BY <1>6 DEF accept_transaction
  <2>2. QED  BY <1>1, <1>2, <2>1
<1>7. CASE erase(c)
  <2>1. /\ call' = [call EXCEPT ![c] = "thrown"] /\ callbacks' = [callbacks EXCEPT ![Sent[c]] = NoTx]
        /\ expirations' = expirations /\ promise' = promise /\ call[c] = "failed"
    BY <1>7 DEF erase
  <2>2. callbacks' \in [Tx -> Client \cup {NoTx}]
    BY <1>1, <2>1
  <2>3. ASSUME NEW t \in Tx, callbacks'[t] # NoTx
        PROVE  /\ Sent[callbacks'[t]] = t
               /\ call'[callbacks'[t]] \in {"queued", "failed", "waiting"}
               /\ promise[callbacks'[t]] = "unset"
    <3>1. t # Sent[c] /\ callbacks'[t] = callbacks[t]
      BY <1>1, <1>4, <2>1, <2>3
    <3>2. callbacks[t] # c
      BY <1>2, <2>3, <3>1
    <3>3. QED  BY <1>1, <1>2, <2>1, <2>3, <3>1, <3>2
  <2>4. QED  BY <1>1, <2>1, <2>2, <2>3
<1>8. CASE answered(c)
  <2>1. /\ call' = [call EXCEPT ![c] = "returned"] /\ callbacks' = callbacks
        /\ expirations' = expirations /\ promise' = promise /\ call[c] = "waiting"
        /\ promise[c] # "unset"
    BY <1>8 DEF answered
  <2>2. QED  BY <1>1, <1>2, <2>1
<1>9. QED  BY <1>5, <1>6, <1>7, <1>8

-----------------------------------------------------------------------------
(* The inductive invariant. *)
IInv == PoolInv /\ SyncInv

(* The inductive invariant holds at the start. *)
LEMMA InitInv == Init => IInv
<1> SUFFICES ASSUME Init PROVE IInv
  OBVIOUS
<1>1. PoolInv
  <2>1. chain = <<>> /\ pending = <<>> /\ switches = 0
    BY DEF Init, PoolInit
  <2>2. Upright(chain)
    BY <2>1, UprightBase
  <2>3. StateOf(chain) \in State
    BY <2>2, UprightTop DEF Remembers
  <2>4. Tried(StateOf(chain), pending).txs = pending
    BY <2>1, <2>3, TriedGrows DEF Untried
  <2>5. pending \in Seq(Tx) /\ switches \in 0..MaxSwitches
    BY <2>1, BoundsAssumption
  <2>6. QED  BY <2>2, <2>4, <2>5 DEF PoolInv
<1>2. SyncInv
  BY DEF Init, SyncInv, Current, SyncState, Alive, Outcome
<1>3. QED  BY <1>1, <1>2 DEF IInv

(* A step that leaves the pool alone loses nothing. *)
LEMMA PoolRests ==
  ASSUME PoolInv, UNCHANGED poolVars
  PROVE  PoolInv' /\ KeepsAll
<1>1. chain' = chain /\ pending' = pending /\ switches' = switches
  BY DEF poolVars
<1>2. QED  BY <1>1 DEF PoolInv, KeepsAll

(* Every step keeps it, and loses nothing. *)
LEMMA NextKeeps ==
  ASSUME IInv, [Next]_vars
  PROVE  IInv' /\ KeepsAll
<1>0. PoolInv /\ SyncInv
  BY DEF IInv
<1>1. ASSUME UNCHANGED syncVars PROVE SyncInv'
  BY <1>0, <1>1 DEF syncVars, SyncInv, Current, Alive
<1>2. CASE UNCHANGED vars
  <2>1. UNCHANGED poolVars /\ UNCHANGED syncVars
    BY <1>2 DEF vars
  <2>2. QED  BY <1>0, <1>1, <2>1, PoolRests DEF IInv
<1>3. CASE \E c \in Client : Calls(c)
  <2>1. PICK c \in Client : Calls(c)
    BY <1>3
  <2>2. SyncInv'
    BY <1>0, <2>1, CallKeeps DEF Calls
  <2>3. CASE UNCHANGED poolVars
    BY <1>0, <2>2, <2>3, PoolRests DEF IInv
  <2>4. CASE push_transaction(Sent[c])
    <3>1. Sent[c] \in Tx
      BY SentAssumption
    <3>2. QED  BY <1>0, <2>2, <2>4, <3>1, PushTransaction DEF IInv
  <2>5. UNCHANGED poolVars \/ push_transaction(Sent[c])
    BY <2>1 DEF Calls, register, accept_transaction, erase, answered
  <2>6. QED  BY <2>3, <2>4, <2>5
<1>4. CASE Broadcast
  <2>1. PICK t \in Tx : push_transaction(t) /\ UNCHANGED syncVars
    BY <1>4 DEF Broadcast
  <2>2. QED  BY <1>0, <1>1, <2>1, PushTransaction DEF IInv
<1>5. ASSUME NEW b \in Block, push_block(b), on_post_apply_block(Above(chain', Len(chain)))
      PROVE  IInv' /\ KeepsAll
  BY <1>0, <1>5, PushBlock, PostKeeps DEF IInv
<1>6. CASE Produce
  <2>1. PICK when \in 1..MaxTime :
          push_block(Assembled(when)) /\ on_post_apply_block(Above(chain', Len(chain)))
    BY <1>6 DEF Produce
  <2>2. StateOf(chain) \in State /\ pending \in Seq(Tx)
    BY <1>0, AllOnce DEF PoolInv
  <2>3. Assembled(when) \in Block
    BY <2>2, AssembledSays
  <2>4. QED  BY <1>5, <2>1, <2>3
<1>7. CASE Receive
  BY <1>5, <1>7 DEF Receive
<1>8. CASE Switch
  <2>1. PICK n \in Depths : \E fork \in Longer(Kept(Len(chain) - n), n + 1) :
          switch_fork(Len(chain) - n, fork) /\ on_post_apply_block(Above(fork, Len(chain) - n))
    BY <1>8 DEF Switch
  <2>2. PICK k : k = Len(chain) - n
    OBVIOUS
  <2>3. PICK fork \in Longer(Kept(k), n + 1) : switch_fork(k, fork) /\ on_post_apply_block(Above(fork, k))
    BY <2>1, <2>2
  <2>4. PoolInv' /\ KeepsAll /\ Above(fork, k) \in Seq(Entry)
    BY <1>0, <2>2, <2>3, SwitchFork
  <2>5. QED  BY <1>0, <2>3, <2>4, PostKeeps DEF IInv
<1>9. CASE SwitchFails
  <2>1. PICK n \in Depths : \E j \in 0..n : \E fork \in Longer(Kept(Len(chain) - n), j) :
          /\ switch_fork_fails(Len(chain) - n, fork)
          /\ on_post_apply_block(Above(fork, Len(chain) - n) \o Above(chain, Len(chain) - n))
    BY <1>9 DEF SwitchFails
  <2>2. PICK k : k = Len(chain) - n
    OBVIOUS
  <2>3. PICK j \in 0..n : \E fork \in Longer(Kept(k), j) :
          switch_fork_fails(k, fork) /\ on_post_apply_block(Above(fork, k) \o Above(chain, k))
    BY <2>1, <2>2
  <2>4. PICK fork \in Longer(Kept(k), j) :
          switch_fork_fails(k, fork) /\ on_post_apply_block(Above(fork, k) \o Above(chain, k))
    BY <2>3
  <2>5. PoolInv' /\ KeepsAll /\ Above(fork, k) \o Above(chain, k) \in Seq(Entry)
    BY <1>0, <2>2, <2>4, SwitchForkFails
  <2>6. QED  BY <1>0, <2>4, <2>5, PostKeeps DEF IInv
<1>10. QED  BY <1>2, <1>3, <1>4, <1>6, <1>7, <1>8, <1>9 DEF Next

(* The inductive invariant holds. *)
THEOREM PoolInvariant == Spec => []IInv
<1>1. IInv /\ [Next]_vars => IInv'
  BY NextKeeps
<1>2. QED  BY InitInv, <1>1, PTL DEF Spec

(* A list without repetition has as many elements as it is long. *)
LEMMA DistinctCount ==
  ASSUME NEW s \in Seq(Tx), Distinct(s)
  PROVE  Cardinality(Range(s)) = Len(s)
<1>1. Len(s) \in Nat /\ DOMAIN s = 1..Len(s)
  OBVIOUS
<1>2. s \in Bijection(1..Len(s), Range(s))
  <2>1. s \in [1..Len(s) -> Range(s)]
    BY <1>1 DEF Range
  <2>2. \A y \in Range(s) : \E i \in 1..Len(s) : s[i] = y
    BY <1>1 DEF Range
  <2>3. QED  BY <2>1, <2>2 DEF Distinct, Bijection, Injection, Surjection, IsInjective
<1>3. ExistsBijection(1..Len(s), Range(s))
  BY <1>2 DEF ExistsBijection
<1>4. QED  BY <1>1, <1>3, FS_CountingElements

(* What is pending can be applied as it stands, a block made of it can be    *)
(* pushed, and no transaction is in the chain and the pending ones twice.    *)
THEOREM PoolAlwaysSound == Spec => []PoolSound
<1>1. IInv => PoolSound
  <2> SUFFICES ASSUME IInv PROVE PoolSound
    OBVIOUS
  <2>0. PoolInv /\ SyncInv
    BY DEF IInv
  <2>1. chain \in Seq(Entry) /\ StateOf(chain) \in State /\ pending \in Seq(Tx)
    BY <2>0, UprightTop, AllOnce DEF PoolInv
  <2>2. TypeOK
    <3>1. \A i \in DOMAIN chain : chain[i].block \in Block /\ chain[i].st \in State
      <4>1. \A i \in DOMAIN chain : chain[i] \in Entry
        BY <2>1
      <4>2. \A e \in Entry : e.block \in Block /\ e.st \in State
        BY DEF Entry
      <4>3. QED  BY <4>1, <4>2
    <3>2. PoolTypeOK
      BY <2>0, <2>1, <3>1 DEF PoolInv, PoolTypeOK
    <3>3. /\ promise \in [Client -> Outcome] /\ callbacks \in [Tx -> Client \cup {NoTx}]
          /\ expirations \in SUBSET Tx
      BY <2>0 DEF SyncInv, Current, SyncState
    <3>4. QED  BY <2>0, <3>2, <3>3 DEF TypeOK, SyncInv, Outcome
  <2>3. PendingApplies
    <3>1. ASSUME NEW when \in (StateOf(chain).time + 1)..MaxTime
          PROVE  Valid(StateOf(chain), Assembled(when))
      <4>1. StateOf(chain).time \in Nat
        BY <2>1, BoundsAssumption DEF State
      <4>2. when \in 1..MaxTime /\ when > StateOf(chain).time
        BY <4>1, BoundsAssumption
      <4>3. QED  BY <2>1, <4>2, AssembledSays DEF Valid
    <3>2. QED  BY <2>0, <3>1 DEF PoolInv, PendingApplies
  <2>4. AppliedOnce
    <3>1. Popped(chain) \o pending \in Seq(Tx) /\ Distinct(Popped(chain) \o pending)
      BY <2>0, <2>1, AllOnce, ConcatKeeps
    <3>2. QED  BY <3>1, DistinctCount DEF AppliedOnce
  <2>5. QED  BY <2>2, <2>3, <2>4 DEF PoolSound
<1>2. QED  BY <1>1, PoolInvariant, PTL

(* No callback outlives the promise it refers to, and no promise is set      *)
(* twice, also if several clients send the same transaction.                 *)
THEOREM PromisesAlwaysAlive == Spec => []PromisesAlive
<1>1. IInv => PromisesAlive
  BY DEF IInv, SyncInv, Alive, Current, PromisesAlive
<1>2. QED  BY <1>1, PoolInvariant, PTL

(* No step drops a transaction that could still be applied: not a block, nor *)
(* a fork switch, nor one that fails.                                        *)
THEOREM NothingEverLost == Spec => NothingLost
<1>1. IInv /\ [Next]_vars => [KeepsAll]_poolVars
  BY NextKeeps
<1>2. QED  BY <1>1, PoolInvariant, PTL DEF Spec, NothingLost, KeepsAll
=============================================================================
