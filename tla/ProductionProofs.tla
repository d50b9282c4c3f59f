-------------------------- MODULE ProductionProofs --------------------------
(***************************************************************************)
(* The schedule, the virtual time and the producer, for any number of      *)
(* witnesses, votes, blocks and forks.                                     *)
(*                                                                         *)
(* The chain state is a record that a block takes through six functions.   *)
(* What each keeps is a lemma about any state, and the head, the state     *)
(* before it and the states of a fork are all reached by blocks.           *)
(***************************************************************************)
EXTENDS Production, FiniteSetTheorems, WellFoundedInduction, TLAPS

ChainState ==
  [num : Nat, time : Nat, aslot : Nat, sched : Seq(Witness), vtime : Nat,
   filled : Seq({0, 1}), participation : Nat, applied : {0, 1}, next : {0, 1},
   majority : {0, 1}, size : Nat, wit : [Witness -> WitnessState]]

(* A witness with these votes is not past the end of its lap when it is due. *)
Lap(x, vtime) ==
  /\ x.last <= vtime /\ vtime <= x.vsched /\ x.vsched <= LapLength
  /\ x.pos + x.votes * (x.vsched - x.last) <= LapLength
Laps(s) == \A w \in Witness : Lap(s.wit[w], s.vtime)

Ones(q) == Cardinality({i \in DOMAIN q : q[i] = 1})
Slots(s) ==
  /\ s.aslot = s.time \div Interval
  /\ Len(s.filled) = Window /\ s.participation = Ones(s.filled)

(* Nobody takes back a vote: that takes an older binary. *)
Voters(s) == {w \in Witness : s.wit[w].vote = 1}
Backed(s) ==
  /\ s.applied = 1 \/ s.next = 1 => Cardinality(Voters(s)) >= Required
  /\ \A w \in Voters(s) : Version[w] = 1

Round(s) == IsInjective(s.sched) /\ s.sched # <<>>

Sound(s) == s \in ChainState /\ Laps(s) /\ Slots(s) /\ Backed(s) /\ Round(s)

(* A key that is gone was given up or is that of an idle witness. *)
IdleOnly(s) ==
  \A w \in Witness \ Resigning : s.wit[w].key \/ s.num - s.wit[w].confirmed > BlocksPerDay

(* Only the announced block has been confirmed early. *)
Confirmed(s, b) ==
  \A w \in Witness : \/ s.wit[w].confirmed <= s.num
                     \/ b # NoBlock /\ w = b.witness /\ s.wit[w].confirmed <= s.num + 1

Locals == [fine : Nat, enabled : BOOLEAN,
           pc : {"sleep", "slot", "assert", "witness", "time", "key", "rate", "queued", "aborted"},
           slot : Nat, witness : Witness, time : Nat]
Producing ==
  /\ node \in Locals
  /\ node.pc \in {"time", "key", "rate", "queued"} => node.witness \in Mine
  /\ node.pc = "queued" => node.time = Now

(* Every signature is of an earlier call, or the call has returned; a block  *)
(* that is not gone is in the chain, or its successors are.                  *)
Signature == [time : Nat, at : Nat, gone : BOOLEAN]
SignedInTurn(q) ==
  \A j, k \in DOMAIN q : j < k =>
    q[j].at < q[k].at /\ (q[j].time = q[k].time => q[j].gone)
Signatures ==
  /\ signed \in Seq(Signature) /\ SignedInTurn(signed)
  /\ \A k \in DOMAIN signed :
       /\ signed[k].time = Rounded(signed[k].at)
       /\ signed[k].at < node.fine \/ (signed[k].at = node.fine /\ node.pc = "sleep")
       /\ signed[k].gone \/ signed[k].time <= st.time

Chain == Sound(st) /\ Sound(base) /\ events \in Nat
Idlers ==
  /\ IdleOnly(st) /\ IdleOnly(base) /\ Confirmed(st, announced)
  /\ announced = NoBlock \/ announced.witness \in Witness

-----------------------------------------------------------------------------
(* Numbers.                                                                  *)

(* A set of numbers has a least element. *)
LEMMA LeastOf ==
  ASSUME NEW S \in SUBSET Nat, S # {}
  PROVE  Min(S) \in S /\ \A y \in S : Min(S) <= y
<1>1. \E x \in S : \A y \in S : ~(<<y, x>> \in OpToRel(<, Nat))
  BY NatLessThanWellFounded, WFMin
<1>2. PICK x \in S : \A y \in S : ~(<<y, x>> \in OpToRel(<, Nat))
  BY <1>1
<1>3. \A y \in S : ~(y < x)
  BY <1>2 DEF OpToRel
<1>4. \A y \in S : x <= y
  BY <1>3
<1>5. QED  BY <1>4 DEF Min

(* A set of numbers that none exceeds a bound has a largest element. *)
LEMMA LargestOf ==
  ASSUME NEW n \in Nat, NEW S \in SUBSET (0..n), S # {}
  PROVE  Max(S) \in S /\ \A y \in S : Max(S) >= y
<1> DEFINE T == {n - x : x \in S}
<1>1. T \in SUBSET Nat /\ T # {}
  <2>1. \A x \in S : n - x \in Nat
    OBVIOUS
  <2>2. QED  BY <2>1
<1>2. PICK m \in T : \A y \in T : m <= y
  BY <1>1, LeastOf
<1>3. PICK x \in S : m = n - x
  OBVIOUS
<1>4. \A y \in S : x >= y
  <2> SUFFICES ASSUME NEW y \in S PROVE x >= y
    OBVIOUS
  <2>1. n - x <= n - y
    BY <1>2, <1>3
  <2>2. QED  BY <2>1
<1>5. QED  BY <1>4 DEF Max

(* What is left of a division is less than the divisor. *)
LEMMA Quotient ==
  ASSUME NEW a \in Nat, NEW b \in Nat \ {0}
  PROVE  /\ a \div b \in Nat /\ (a \div b) * b <= a /\ a < (a \div b) * b + b
OBVIOUS

(* There is one quotient. *)
LEMMA OneQuotient ==
  ASSUME NEW a \in Nat, NEW b \in Nat \ {0}, NEW q \in Nat, q * b <= a, a < q * b + b
  PROVE  a \div b = q
<1> DEFINE r == a \div b
<1>1. r \in Nat /\ r * b <= a /\ a < r * b + b
  BY Quotient
<1> HIDE DEF r
<1>2. CASE r < q
  <2>1. PICK d \in Nat : q = r + 1 + d
    <3>1. q - r - 1 \in Nat /\ q = r + 1 + (q - r - 1)
      BY <1>1, <1>2
    <3>2. QED  BY <3>1
  <2>2. q * b = r * b + b + d * b /\ d * b >= 0
    BY <1>1, <2>1
  <2>3. QED  BY <1>1, <2>2
<1>3. CASE q < r
  <2>1. PICK d \in Nat : r = q + 1 + d
    <3>1. r - q - 1 \in Nat /\ r = q + 1 + (r - q - 1)
      BY <1>1, <1>3
    <3>2. QED  BY <3>1
  <2>2. r * b = q * b + b + d * b /\ d * b >= 0
    BY <1>1, <2>1
  <2>3. QED  BY <1>1, <2>2
<1>4. QED  BY <1>1, <1>2, <1>3 DEF r

-----------------------------------------------------------------------------
(* Virtual time.                                                             *)

(* A witness that runs with these votes for a part of its lap stays in it.   *)
LEMMA LapRest ==
  ASSUME NEW rest \in Nat, NEW votes \in Nat, NEW k \in Nat, k <= rest \div (votes + 1)
  PROVE  votes * k <= rest /\ k <= rest
<1> DEFINE q == rest \div (votes + 1)
<1>1. q \in Nat /\ q * (votes + 1) <= rest
  <2>1. votes + 1 \in Nat \ {0}
    OBVIOUS
  <2>2. QED  BY <2>1, Quotient
<1> HIDE DEF q
<1>2. k <= q
  BY DEF q
<1>3. PICK d \in Nat : q = k + d
  <2>1. q - k \in Nat /\ q = k + (q - k)
    BY <1>1, <1>2
  <2>2. QED  BY <2>1
<1>4. q * (votes + 1) = votes * k + k + d * votes + d /\ d * votes >= 0 /\ votes * k >= 0
  BY <1>3
<1>5. QED  BY <1>1, <1>4

(* A lap that starts now. *)
LEMMA LapFromStart ==
  ASSUME NEW x \in WitnessState, NEW now \in Nat,
         x.pos = 0, x.last = now, x.vsched = now + LapLength \div (x.votes + 1),
         x.vsched <= LapLength
  PROVE  Lap(x, now)
<1>1. LapLength \in Nat /\ x.votes \in Nat /\ LapLength \div (x.votes + 1) \in Nat
  BY WitnessAssumption, Quotient DEF WitnessState
<1>2. x.votes * (LapLength \div (x.votes + 1)) <= LapLength
  BY <1>1, LapRest
<1> DEFINE q == LapLength \div (x.votes + 1)
<1>3. x.vsched - x.last = q /\ x.last <= now /\ now <= x.vsched
  BY <1>1
<1>4. x.pos + x.votes * q <= LapLength
  BY <1>1, <1>2
<1> HIDE DEF q
<1>5. QED  BY <1>3, <1>4 DEF Lap

(* A lap that is run from its start is not longer than one. *)
LEMMA LapFits ==
  ASSUME NEW votes \in Nat
  PROVE  LapLength \div (votes + 1) \in Nat /\ LapLength \div (votes + 1) <= LapLength
BY WitnessAssumption, Quotient, LapRest

(* adjust_witness_vote(): the rest of the lap with other votes. *)
LEMMA LapAdjusted ==
  ASSUME NEW x \in WitnessState, NEW now \in Nat, Lap(x, now), NEW votes \in Nat,
         NEW pos, pos = x.pos + x.votes * (now - x.last),
         NEW due, due = now + (LapLength - pos) \div (votes + 1),
         NEW vsched, vsched = IF due > LapLength THEN LapLength ELSE due
  PROVE  /\ pos \in Nat /\ vsched \in Nat /\ now <= vsched /\ vsched <= LapLength
         /\ pos + votes * (vsched - now) <= LapLength
<1>1. /\ LapLength \in Nat /\ x.votes \in Nat /\ x.pos \in Nat /\ x.last \in Nat /\ x.vsched \in Nat
      /\ x.last <= now /\ now <= x.vsched /\ x.vsched <= LapLength
      /\ x.pos + x.votes * (x.vsched - x.last) <= LapLength
  BY WitnessAssumption DEF WitnessState, Lap
<1>2. PICK a \in Nat : now = x.last + a
  <2>1. now - x.last \in Nat /\ now = x.last + (now - x.last)
    BY <1>1
  <2>2. QED  BY <2>1
<1>3. PICK c \in Nat : x.vsched = now + c
  <2>1. x.vsched - now \in Nat /\ x.vsched = now + (x.vsched - now)
    BY <1>1
  <2>2. QED  BY <2>1
<1>4. now - x.last = a /\ x.vsched - x.last = a + c
  BY <1>1, <1>2, <1>3
<1>5. x.votes * (a + c) = x.votes * a + x.votes * c /\ x.votes * c >= 0 /\ x.votes * a >= 0
      /\ x.votes * a \in Nat
  BY <1>1
<1>6. pos = x.pos + x.votes * a /\ pos \in Nat /\ pos <= LapLength
  BY <1>1, <1>4, <1>5
<1> DEFINE rest == LapLength - pos
           q == rest \div (votes + 1)
<1>7. rest \in Nat /\ q \in Nat
  <2>1. rest \in Nat /\ votes + 1 \in Nat \ {0}
    BY <1>1, <1>6
  <2>2. QED  BY <2>1, Quotient
<1>8. due = now + q
  OBVIOUS
<1> HIDE DEF q
<1>9. vsched \in Nat /\ now <= vsched /\ vsched <= LapLength /\ vsched - now \in Nat /\ vsched - now <= q
  BY <1>1, <1>7, <1>8
<1>10. votes * (vsched - now) <= rest
  BY <1>7, <1>9, LapRest DEF q
<1>11. votes * (vsched - now) \in Int
  BY <1>9
<1>12. QED  BY <1>1, <1>6, <1>9, <1>10, <1>11

-----------------------------------------------------------------------------
(* What a block does to a state, function by function.                       *)

Block == [time : Nat, witness : Witness, version : {0, 1}, op : Ops]

(* Everything but the witnesses. *)
SameChain(s, x) ==
  /\ x.num = s.num /\ x.time = s.time /\ x.aslot = s.aslot /\ x.sched = s.sched
  /\ x.vtime = s.vtime /\ x.filled = s.filled /\ x.participation = s.participation
  /\ x.applied = s.applied /\ x.next = s.next /\ x.majority = s.majority /\ x.size = s.size

(* The place of a witness in the virtual schedule. *)
SameLap(x, y) == x.votes = y.votes /\ x.pos = y.pos /\ x.last = y.last /\ x.vsched = y.vsched

(* Other witnesses in the same state. *)
LEMMA NewWitnesses ==
  ASSUME NEW s \in ChainState, NEW wit \in [Witness -> WitnessState]
  PROVE  LET x == [s EXCEPT !.wit = wit]
         IN  x \in ChainState /\ x.wit = wit /\ SameChain(s, x)
BY DEF ChainState, SameChain

(* A step that leaves votes and laps alone keeps the laps. *)
LEMMA LapsSame ==
  ASSUME NEW s, NEW x, Laps(s), x.vtime = s.vtime, \A w \in Witness : SameLap(s.wit[w], x.wit[w])
  PROVE  Laps(x)
BY DEF Laps, Lap, SameLap

(* Votes for a hardfork that only come in keep it backed. *)
LEMMA MoreVoters ==
  ASSUME NEW s, NEW x, Backed(s),
         x.applied = 1 \/ x.next = 1 => s.applied = 1 \/ s.next = 1,
         Voters(s) \subseteq Voters(x), \A w \in Voters(x) : Version[w] = 1
  PROVE  Backed(x)
<1>1. IsFiniteSet(Voters(x)) /\ IsFiniteSet(Voters(s))
  <2>1. IsFiniteSet(Witness) /\ Voters(x) \in SUBSET Witness /\ Voters(s) \in SUBSET Witness
    BY WitnessAssumption DEF Voters
  <2>2. QED  BY <2>1, FS_Subset
<1>2. Cardinality(Voters(s)) <= Cardinality(Voters(x))
  BY <1>1, FS_Subset
<1>3. Cardinality(Voters(s)) \in Nat /\ Cardinality(Voters(x)) \in Nat /\ Required \in Nat
  BY <1>1, FS_CardinalityType, WitnessAssumption
<1>4. QED  BY <1>2, <1>3 DEF Backed

(* process_header_extensions(): the producer's version and its vote. *)
LEMMA ExtensionsKeep ==
  ASSUME NEW s, Sound(s), NEW b \in Block, b.version = Version[b.witness]
  PROVE  LET x == process_header_extensions(s, b)
         IN  /\ Sound(x) /\ SameChain(s, x)
             /\ x.wit[b.witness].version = b.version
             /\ \A w \in Witness : /\ SameLap(s.wit[w], x.wit[w])
                                   /\ x.wit[w].key = s.wit[w].key
                                   /\ x.wit[w].confirmed = s.wit[w].confirmed
<1> DEFINE x == process_header_extensions(s, b)
           old == s.wit[b.witness]
           vote == IF s.applied < b.version THEN b.version
                   ELSE IF s.applied = b.version /\ old.vote > b.version THEN b.version ELSE old.vote
           new == [old EXCEPT !.version = b.version, !.vote = vote]
           wit == [s.wit EXCEPT ![b.witness] = new]
<1>1. s \in ChainState /\ b.witness \in Witness /\ b.version \in {0, 1}
  BY DEF Sound, Block
<1>2. old \in WitnessState /\ s.wit \in [Witness -> WitnessState] /\ s.applied \in {0, 1}
  BY <1>1 DEF ChainState
<1>3. vote \in {0, 1}
  BY <1>1, <1>2 DEF WitnessState
<1>4. new \in WitnessState /\ SameLap(old, new) /\ new.key = old.key /\ new.confirmed = old.confirmed
      /\ new.vote = vote /\ new.version = b.version
  BY <1>1, <1>2, <1>3 DEF WitnessState, SameLap
<1>5. x = [s EXCEPT !.wit = wit]
  BY <1>1, <1>2 DEF process_header_extensions, ChainState, WitnessState
<1> HIDE DEF x, new, vote
<1>6. wit \in [Witness -> WitnessState]
  BY <1>1, <1>2, <1>4
<1>7. x \in ChainState /\ x.wit = wit /\ SameChain(s, x)
  BY <1>1, <1>5, <1>6, NewWitnesses
<1>8. \A w \in Witness : x.wit[w] = IF w = b.witness THEN new ELSE s.wit[w]
  BY <1>1, <1>2, <1>7
<1>9. \A w \in Witness : /\ SameLap(s.wit[w], x.wit[w]) /\ x.wit[w].key = s.wit[w].key
                         /\ x.wit[w].confirmed = s.wit[w].confirmed
  BY <1>4, <1>8 DEF SameLap
<1>10. Backed(x)
  <2>1. old.vote = 1 => b.version = 1
    BY <1>1 DEF Sound, Backed, Voters
  <2>2. old.vote = 1 => vote = 1
    BY <1>2, <2>1 DEF vote
  <2>3. vote = 1 => b.version = 1
    BY <1>1, <1>2, <2>1 DEF vote
  <2>4. Voters(s) \subseteq Voters(x) /\ \A w \in Voters(x) : Version[w] = 1
    BY <1>4, <1>8, <2>2, <2>3 DEF Sound, Backed, Voters
  <2>5. QED  BY <1>7, <2>4, MoreVoters DEF Sound, SameChain
<1>11. Laps(x)
  BY <1>7, <1>9, LapsSame DEF Sound, SameChain
<1>12. Sound(x)
  BY <1>7, <1>10, <1>11 DEF Sound, Slots, Round, SameChain
<1>13. QED  BY <1>1, <1>4, <1>7, <1>8, <1>9, <1>12 DEF x

(* The operations are what the bounds say they are. *)
LEMMA OpKinds ==
  ASSUME NEW op \in Ops
  PROVE  \/ op = NoOp
         \/ op.kind = "vote" /\ op.w \in Witness /\ op.n \in Int
         \/ op.kind = "resign" /\ op.w \in Resigning /\ op.w \in Witness
BY ProductionAssumption DEF Ops, NoOp

(* adjust_witness_vote(): laps are kept when votes move in the middle.       *)
LEMMA VoteKeeps ==
  ASSUME NEW s, Sound(s), NEW v \in Witness, NEW delta \in Int, s.wit[v].votes + delta >= 0
  PROVE  LET x == adjust_witness_vote(s, v, delta)
         IN  /\ Sound(x) /\ SameChain(s, x)
             /\ \A w \in Witness : /\ x.wit[w].key = s.wit[w].key
                                   /\ x.wit[w].confirmed = s.wit[w].confirmed
                                   /\ x.wit[w].version = s.wit[w].version
<1> DEFINE old == s.wit[v]
           pos == old.pos + old.votes * (s.vtime - old.last)
           votes == old.votes + delta
           due == s.vtime + (LapLength - pos) \div (votes + 1)
           vsched == IF due > LapLength THEN LapLength ELSE due
           new == [old EXCEPT !.pos = pos, !.last = s.vtime, !.votes = votes, !.vsched = vsched]
           wit == [s.wit EXCEPT ![v] = new]
           x == adjust_witness_vote(s, v, delta)
<1>1. s \in ChainState /\ old \in WitnessState /\ s.wit \in [Witness -> WitnessState]
      /\ s.vtime \in Nat /\ Lap(old, s.vtime)
  BY DEF Sound, ChainState, Laps
<1>2. votes \in Nat
  BY <1>1 DEF WitnessState
<1>3. x = [s EXCEPT !.wit = wit]
  BY <1>1 DEF adjust_witness_vote, ChainState, WitnessState
<1> HIDE DEF x
<1>4. /\ pos \in Nat /\ vsched \in Nat /\ s.vtime <= vsched /\ vsched <= LapLength
      /\ pos + votes * (vsched - s.vtime) <= LapLength
  <2>1. PICK y \in WitnessState, now \in Nat, n \in Nat : y = old /\ now = s.vtime /\ n = votes
    BY <1>1, <1>2
  <2>2. PICK p, d, r : /\ p = y.pos + y.votes * (now - y.last)
                       /\ d = now + (LapLength - p) \div (n + 1)
                       /\ r = IF d > LapLength THEN LapLength ELSE d
    OBVIOUS
  <2>3. Lap(y, now)
    BY <1>1, <2>1
  <2>4. p \in Nat /\ r \in Nat /\ now <= r /\ r <= LapLength /\ p + n * (r - now) <= LapLength
    BY <2>2, <2>3, LapAdjusted
  <2>5. QED  BY <2>1, <2>2, <2>4
<1> HIDE DEF pos, votes, vsched
<1>5. /\ new \in WitnessState /\ new.pos = pos /\ new.last = s.vtime /\ new.votes = votes
      /\ new.vsched = vsched /\ new.key = old.key /\ new.confirmed = old.confirmed
      /\ new.version = old.version /\ new.vote = old.vote
  BY <1>1, <1>2, <1>4 DEF WitnessState
<1> HIDE DEF new
<1>6. Lap(new, s.vtime)
  BY <1>1, <1>4, <1>5 DEF Lap
<1>7. wit \in [Witness -> WitnessState]
  BY <1>1, <1>5
<1>8. x \in ChainState /\ x.wit = wit /\ SameChain(s, x)
  BY <1>1, <1>3, <1>7, NewWitnesses
<1>9. \A w \in Witness : x.wit[w] = IF w = v THEN new ELSE s.wit[w]
  BY <1>1, <1>8
<1>10. \A w \in Witness : /\ x.wit[w].key = s.wit[w].key /\ x.wit[w].confirmed = s.wit[w].confirmed
                          /\ x.wit[w].version = s.wit[w].version /\ x.wit[w].vote = s.wit[w].vote
  BY <1>5, <1>9
<1>11. Laps(x)
  BY <1>6, <1>8, <1>9 DEF Laps, SameChain, Sound
<1>12. Voters(x) = Voters(s)
  BY <1>10 DEF Voters
<1>13. Sound(x)
  BY <1>8, <1>11, <1>12 DEF Sound, Slots, Round, SameChain, Backed
<1>14. QED  BY <1>8, <1>10, <1>13 DEF x

(* Keys, versions and confirmations do not matter to laps, slots and votes.  *)
LEMMA WitnessesKeep ==
  ASSUME NEW s, Sound(s), NEW wit \in [Witness -> WitnessState],
         \A w \in Witness : SameLap(s.wit[w], wit[w]) /\ wit[w].vote = s.wit[w].vote
  PROVE  LET x == [s EXCEPT !.wit = wit]
         IN  Sound(x) /\ SameChain(s, x) /\ x.wit = wit
<1> DEFINE x == [s EXCEPT !.wit = wit]
<1>1. x \in ChainState /\ x.wit = wit /\ SameChain(s, x)
  BY NewWitnesses DEF Sound
<1> HIDE DEF x
<1>2. Laps(x)
  BY <1>1, LapsSame DEF Sound, SameChain
<1>3. Voters(x) = Voters(s)
  BY <1>1 DEF Voters
<1>4. Sound(x)
  BY <1>1, <1>2, <1>3 DEF Sound, Slots, Round, SameChain, Backed
<1>5. QED  BY <1>1, <1>4 DEF x

(* A field of one witness. *)
LEMMA KeyGone ==
  ASSUME NEW s, Sound(s), NEW v \in Witness
  PROVE  LET x == [s EXCEPT !.wit[v].key = FALSE]
         IN  /\ Sound(x) /\ SameChain(s, x)
             /\ \A w \in Witness : /\ w # v => x.wit[w] = s.wit[w]
                                   /\ x.wit[w].confirmed = s.wit[w].confirmed
                                   /\ x.wit[w].version = s.wit[w].version
<1> DEFINE wit == [s.wit EXCEPT ![v] = [s.wit[v] EXCEPT !.key = FALSE]]
           x == [s EXCEPT !.wit[v].key = FALSE]
<1>1. s \in ChainState /\ s.wit \in [Witness -> WitnessState]
  BY DEF Sound, ChainState
<1>2. x = [s EXCEPT !.wit = wit]
  BY <1>1 DEF ChainState
<1>3. wit \in [Witness -> WitnessState]
  BY <1>1 DEF WitnessState
<1>4. \A w \in Witness : /\ SameLap(s.wit[w], wit[w]) /\ wit[w].vote = s.wit[w].vote
                         /\ wit[w].confirmed = s.wit[w].confirmed /\ wit[w].version = s.wit[w].version
                         /\ w # v => wit[w] = s.wit[w]
  BY <1>1 DEF WitnessState, SameLap
<1> HIDE DEF wit, x
<1>5. Sound(x) /\ SameChain(s, x) /\ x.wit = wit
  BY <1>2, <1>3, <1>4, WitnessesKeep
<1>6. QED  BY <1>4, <1>5 DEF x

(* A confirmation raises one number of one witness and touches nothing else. *)
LEMMA ConfirmedSet ==
  ASSUME NEW s, Sound(s), NEW v \in Witness, NEW n \in Nat
  PROVE  LET x == [s EXCEPT !.wit[v].confirmed = IF @ > n THEN @ ELSE n]
         IN  /\ Sound(x) /\ SameChain(s, x)
             /\ \A w \in Witness : /\ x.wit[w].key = s.wit[w].key
                                   /\ w # v => x.wit[w].confirmed = s.wit[w].confirmed
             /\ x.wit[v].confirmed = IF s.wit[v].confirmed > n THEN s.wit[v].confirmed ELSE n
<1> DEFINE old == s.wit[v].confirmed
           num == IF old > n THEN old ELSE n
           wit == [s.wit EXCEPT ![v] = [s.wit[v] EXCEPT !.confirmed = num]]
           x == [s EXCEPT !.wit[v].confirmed = IF @ > n THEN @ ELSE n]
<1>1. s \in ChainState /\ s.wit \in [Witness -> WitnessState] /\ old \in Nat /\ num \in Nat
  BY DEF Sound, ChainState, WitnessState
<1>2. x = [s EXCEPT !.wit = wit]
  BY <1>1 DEF ChainState
<1> HIDE DEF x, num
<1>3. wit \in [Witness -> WitnessState]
  BY <1>1 DEF WitnessState
<1>4. \A w \in Witness : /\ SameLap(s.wit[w], wit[w]) /\ wit[w].vote = s.wit[w].vote
                         /\ wit[w].key = s.wit[w].key /\ (w # v => wit[w] = s.wit[w])
  BY <1>1 DEF WitnessState, SameLap
<1>5. wit[v].confirmed = num
  BY <1>1 DEF WitnessState
<1> HIDE DEF wit
<1>6. Sound(x) /\ SameChain(s, x) /\ x.wit = wit
  BY <1>2, <1>3, <1>4, WitnessesKeep
<1>7. x.wit[v].confirmed = IF s.wit[v].confirmed > n THEN s.wit[v].confirmed ELSE n
  BY <1>5, <1>6 DEF num
<1>8. \A w \in Witness : x.wit[w].key = s.wit[w].key /\ (w # v => x.wit[w].confirmed = s.wit[w].confirmed)
  BY <1>4, <1>6
<1>9. QED  BY <1>6, <1>7, <1>8 DEF x

(* Evaluated(): votes that move keep laps, a key that is given up is gone.   *)
LEMMA EvaluatedKeeps ==
  ASSUME NEW s, Sound(s), NEW op \in Ops, Allowed(s, op)
  PROVE  LET x == Evaluated(s, op)
         IN  /\ Sound(x) /\ SameChain(s, x)
             /\ \A w \in Witness : /\ w \notin Resigning => x.wit[w].key = s.wit[w].key
                                   /\ x.wit[w].confirmed = s.wit[w].confirmed
<1>1. CASE op = NoOp
  BY <1>1 DEF Evaluated, NoOp, SameChain
<1>2. CASE op.kind = "vote" /\ op.w \in Witness /\ op.n \in Int
  <2>1. Evaluated(s, op) = adjust_witness_vote(s, op.w, op.n) /\ s.wit[op.w].votes + op.n >= 0
    BY <1>2 DEF Evaluated, Allowed
  <2>2. QED  BY <1>2, <2>1, VoteKeeps
<1>3. CASE op.kind = "resign" /\ op.w \in Resigning /\ op.w \in Witness
  <2>1. Evaluated(s, op) = [s EXCEPT !.wit[op.w].key = FALSE]
    BY <1>3 DEF Evaluated
  <2>2. PICK x : x = [s EXCEPT !.wit[op.w].key = FALSE]
    OBVIOUS
  <2>3. /\ Sound(x) /\ SameChain(s, x)
        /\ \A w \in Witness : /\ w # op.w => x.wit[w] = s.wit[w]
                              /\ x.wit[w].confirmed = s.wit[w].confirmed
    BY <1>3, <2>2, KeyGone
  <2>4. QED  BY <1>3, <2>1, <2>2, <2>3
<1>4. QED  BY <1>1, <1>2, <1>3, OpKinds

-----------------------------------------------------------------------------
(* Slots.                                                                    *)

(* The first slot after a block begins after it. *)
LEMMA FirstSlot ==
  ASSUME NEW s \in ChainState
  PROVE  /\ \A slot \in Nat : get_slot_time(s, slot) \in Nat
         /\ s.time < get_slot_time(s, 1)
<1>1. s.time \in Nat /\ Interval \in Nat \ {0}
  BY WitnessAssumption DEF ChainState
<1> DEFINE q == s.time \div Interval
<1>2. q \in Nat /\ s.time < q * Interval + Interval
  BY <1>1, Quotient
<1> HIDE DEF q
<1>3. \A slot \in Nat : (q + slot) * Interval \in Nat
  BY <1>1, <1>2
<1>4. (q + 1) * Interval = q * Interval + Interval
  BY <1>1, <1>2
<1>5. QED  BY <1>1, <1>2, <1>3, <1>4 DEF get_slot_time, q

(* Slots are the intervals that begin after the head block. *)
LEMMA SlotCount ==
  ASSUME NEW s \in ChainState, NEW when \in Nat
  PROVE  LET n == get_slot_at_time(s, when)
         IN  /\ n \in Nat /\ (n > 0 => s.time < when)
             /\ n > 0 => n = when \div Interval - s.time \div Interval
<1>1. s.time \in Nat /\ Interval \in Nat \ {0}
  BY WitnessAssumption DEF ChainState
<1> DEFINE q == s.time \div Interval
           first == get_slot_time(s, 1)
           n == get_slot_at_time(s, when)
<1>2. q \in Nat /\ first \in Nat /\ s.time < first /\ first = (q + 1) * Interval
  BY <1>1, Quotient, FirstSlot DEF get_slot_time
<1>3. CASE when < first
  BY <1>3 DEF get_slot_at_time
<1>4. CASE ~(when < first)
  <2>1. when - first \in Nat
    BY <1>2, <1>4
  <2> DEFINE r == (when - first) \div Interval
  <2>2. r \in Nat /\ r * Interval <= when - first /\ when - first < r * Interval + Interval
    BY <1>1, <2>1, Quotient
  <2>3. n = r + 1
    BY <1>4 DEF get_slot_at_time
  <2> HIDE DEF r, q, first, n
  <2>4. (r + q + 1) * Interval = r * Interval + (q + 1) * Interval
    BY <1>1, <1>2, <2>2
  <2>5. r * Interval \in Nat /\ (r + q + 1) * Interval \in Nat /\ r + q + 1 \in Nat
    BY <1>1, <1>2, <2>2
  <2>6. (r + q + 1) * Interval <= when /\ when < (r + q + 1) * Interval + Interval
    BY <1>1, <1>2, <2>1, <2>2, <2>4, <2>5
  <2>7. when \div Interval = r + q + 1
    BY <1>1, <2>5, <2>6, OneQuotient
  <2>8. s.time < when
    BY <1>1, <1>2, <1>4
  <2>9. n \in Nat /\ n = when \div Interval - q
    BY <1>2, <2>2, <2>3, <2>7
  <2>10. QED  BY <2>8, <2>9 DEF q, n
<1>5. QED  BY <1>3, <1>4

(* The bits of two sequences together. *)
LEMMA OnesConcat ==
  ASSUME NEW p \in Seq({0, 1}), NEW q \in Seq({0, 1})
  PROVE  Ones(p) \in Nat /\ Ones(q) \in Nat /\ Ones(p \o q) = Ones(p) + Ones(q)
<1> DEFINE P == {i \in DOMAIN p : p[i] = 1}
           Q == {i \in DOMAIN q : q[i] = 1}
           R == {i \in DOMAIN (p \o q) : (p \o q)[i] = 1}
           m == Len(p)
           T == {i \in (m + 1)..(m + Len(q)) : q[i - m] = 1}
<1>1. /\ m \in Nat /\ Len(q) \in Nat /\ DOMAIN p = 1..m /\ DOMAIN q = 1..Len(q)
      /\ DOMAIN (p \o q) = 1..(m + Len(q))
      /\ \A i \in 1..m : (p \o q)[i] = p[i]
      /\ \A i \in (m + 1)..(m + Len(q)) : (p \o q)[i] = q[i - m]
  OBVIOUS
<1>2. IsFiniteSet(P) /\ IsFiniteSet(Q) /\ IsFiniteSet(T)
  <2>1. IsFiniteSet(1..m) /\ IsFiniteSet(1..Len(q)) /\ IsFiniteSet((m + 1)..(m + Len(q)))
    BY <1>1, FS_Interval
  <2>2. P \in SUBSET (1..m) /\ Q \in SUBSET (1..Len(q)) /\ T \in SUBSET ((m + 1)..(m + Len(q)))
    BY <1>1
  <2>3. QED  BY <2>1, <2>2, FS_Subset
<1> HIDE DEF m
<1>3. R = P \cup T /\ P \cap T = {}
  BY <1>1
<1>4. Cardinality(T) = Cardinality(Q)
  <2> DEFINE f == [i \in Q |-> i + m]
  <2>1. f \in [Q -> T]
    BY <1>1
  <2>2. f \in Injection(Q, T)
    BY <1>1, <2>1 DEF Injection, IsInjective
  <2>3. f \in Surjection(Q, T)
    <3>1. ASSUME NEW t \in T PROVE t - m \in Q /\ f[t - m] = t
      BY <1>1, <3>1
    <3>2. QED  BY <2>1, <3>1 DEF Surjection
  <2>4. ExistsBijection(Q, T)
    BY <2>2, <2>3 DEF ExistsBijection, Bijection
  <2>5. QED  BY <1>2, <2>4, FS_Bijection
<1>5. Cardinality(P) \in Nat /\ Cardinality(Q) \in Nat /\ Cardinality(T) \in Nat
  BY <1>2, FS_CardinalityType
<1>6. Cardinality(P \cup T) = Cardinality(P) + Cardinality(T) - Cardinality(P \cap T)
  BY <1>2, FS_Union
<1>7. Ones(p) = Cardinality(P) /\ Ones(q) = Cardinality(Q) /\ Ones(p \o q) = Cardinality(R)
  BY DEF Ones
<1> HIDE DEF P, Q, R, T
<1>8. Cardinality(R) = Cardinality(P) + Cardinality(T)
  <2>1. Cardinality(P \cap T) = 0 /\ Cardinality(R) = Cardinality(P \cup T)
    BY <1>3, FS_EmptySet, Zenon
  <2>2. QED  BY <1>5, <1>6, <2>1
<1>9. QED  BY <1>4, <1>5, <1>7, <1>8

(* recent_slots_filled moves on, and the count with it. *)
LEMMA FilledKeeps ==
  ASSUME NEW s \in ChainState, Len(s.filled) = Window, s.participation = Ones(s.filled),
         NEW n \in Nat \ {0}
  PROVE  LET x == Filled(s, n)
         IN  /\ x \in ChainState /\ Len(x.filled) = Window /\ x.participation = Ones(x.filled)
             /\ x = [s EXCEPT !.filled = x.filled, !.participation = x.participation]
<1> DEFINE zeros == [i \in 1..(n - 1) |-> 0]
           bits == s.filled \o <<1>> \o zeros
           head == SubSeq(bits, 1, n)
           tail == SubSeq(bits, n + 1, Len(bits))
<1>1. s.filled \in Seq({0, 1}) /\ Window \in Nat /\ s.participation \in Nat
  BY WitnessAssumption DEF ChainState
<1>2. <<1>> \in Seq({0, 1}) /\ zeros \in Seq({0, 1}) /\ Len(<<1>>) = 1 /\ Len(zeros) = n - 1
  OBVIOUS
<1>3. Ones(<<1>>) = 1 /\ Ones(zeros) = 0
  <2>1. {i \in DOMAIN <<1>> : <<1>>[i] = 1} = {1}
    OBVIOUS
  <2>2. {i \in DOMAIN zeros : zeros[i] = 1} = {}
    OBVIOUS
  <2>3. QED  BY <2>1, <2>2, FS_EmptySet, FS_Singleton DEF Ones
<1> HIDE DEF zeros
<1>4. s.filled \o <<1>> \in Seq({0, 1}) /\ Len(s.filled \o <<1>>) = Window + 1
  BY <1>1, <1>2
<1>5. bits \in Seq({0, 1}) /\ Len(bits) = Window + n
  BY <1>1, <1>2, <1>4
<1>6. Ones(bits) = s.participation + 1
  <2>1. Ones(s.filled \o <<1>>) = s.participation + 1
    <3>1. PICK one \in Seq({0, 1}) : one = <<1>>
      BY <1>2
    <3>2. PICK old \in Seq({0, 1}) : old = s.filled
      BY <1>1
    <3>3. Ones(old \o one) = Ones(old) + Ones(one)
      BY OnesConcat
    <3>4. QED  BY <1>3, <3>1, <3>2, <3>3
  <2>2. Ones(bits) = Ones(s.filled \o <<1>>) + Ones(zeros)
    BY <1>2, <1>4, OnesConcat
  <2>3. QED  BY <1>1, <1>3, <2>1, <2>2
<1> HIDE DEF bits
<1>7. /\ head \in Seq({0, 1}) /\ Len(head) = n /\ tail \in Seq({0, 1}) /\ Len(tail) = Window
      /\ \A i \in 1..n : head[i] = bits[i]
      /\ \A i \in 1..Window : tail[i] = bits[n + i]
  BY <1>1, <1>5
<1>8. bits = head \o tail
  BY <1>1, <1>5, <1>7
<1> HIDE DEF head, tail
<1>9. Ones(bits) = Ones(head) + Ones(tail) /\ Ones(head) \in Nat /\ Ones(tail) \in Nat
  BY <1>7, <1>8, OnesConcat
<1>10. s.participation + 1 - Ones(head) = Ones(tail)
  BY <1>1, <1>6, <1>9
<1>11. Filled(s, n) = [s EXCEPT !.filled = tail, !.participation = s.participation + 1 - Ones(head)]
  BY DEF Filled, head, tail, bits, zeros, Ones, ChainState
<1>12. PICK q \in Seq({0, 1}), k \in Nat : q = tail /\ k = s.participation + 1 - Ones(head)
  BY <1>7, <1>9, <1>10
<1>13. Filled(s, n) = [s EXCEPT !.filled = q, !.participation = k] /\ Len(q) = Window /\ k = Ones(q)
  BY <1>7, <1>10, <1>11, <1>12
<1>14. QED  BY <1>13 DEF ChainState

(* Who misses a slot loses the key only when idle. *)
LEMMA MissedKeeps ==
  ASSUME NEW s, Sound(s), NEW b \in Block
  PROVE  LET x == Missed(s, b)
         IN  /\ Sound(x) /\ SameChain(s, x)
             /\ \A w \in Witness :
                  /\ x.wit[w].confirmed = s.wit[w].confirmed
                  /\ \/ x.wit[w].key = s.wit[w].key
                     \/ x.wit[w].key = FALSE /\ Idle(s, w) /\ w # b.witness
<1> DEFINE Misses(w) == \E i \in MissedSlots(s, b) : get_scheduled_witness(s, i) = w
           Less(w) == [s.wit[w] EXCEPT !.key = s.wit[w].key /\ ~Idle(s, w)]
           wit == [w \in Witness |-> IF Misses(w) THEN Less(w) ELSE s.wit[w]]
           x == Missed(s, b)
<1>1. s \in ChainState /\ s.wit \in [Witness -> WitnessState]
  BY DEF Sound, ChainState
<1>2. x = [s EXCEPT !.wit = wit]
  BY DEF Missed
<1>3. \A w \in Witness : Misses(w) => w # b.witness
  BY DEF MissedSlots
<1> HIDE DEF x, Misses
<1>4. ASSUME NEW w \in Witness
      PROVE  /\ Less(w) \in WitnessState /\ SameLap(s.wit[w], Less(w))
             /\ Less(w).vote = s.wit[w].vote /\ Less(w).confirmed = s.wit[w].confirmed
             /\ Less(w).key = s.wit[w].key \/ (Less(w).key = FALSE /\ Idle(s, w))
  <2>1. (s.wit[w].key /\ ~Idle(s, w)) \in BOOLEAN /\ s.wit[w] \in WitnessState
    BY <1>1
  <2>2. Less(w).key = (s.wit[w].key /\ ~Idle(s, w))
    BY <2>1 DEF WitnessState
  <2>3. Less(w) \in WitnessState
    BY <2>1 DEF WitnessState
  <2>4. s.wit[w].key \in BOOLEAN
    BY <2>1 DEF WitnessState
  <2>5. Less(w).key = s.wit[w].key \/ (Less(w).key = FALSE /\ Idle(s, w))
    <3>1. CASE Idle(s, w)
      BY <2>2, <3>1
    <3>2. CASE ~Idle(s, w)
      <4>1. Less(w).key = s.wit[w].key
        BY <2>2, <2>4, <3>2
      <4>2. QED  BY <4>1
    <3>3. QED  BY <3>1, <3>2
  <2>6. QED  BY <2>1, <2>3, <2>5 DEF WitnessState, SameLap
<1> HIDE DEF Less
<1>5. wit \in [Witness -> WitnessState]
  BY <1>1, <1>4
<1>6. \A w \in Witness : /\ SameLap(s.wit[w], wit[w]) /\ wit[w].vote = s.wit[w].vote
                         /\ wit[w].confirmed = s.wit[w].confirmed
                         /\ \/ wit[w].key = s.wit[w].key
                            \/ wit[w].key = FALSE /\ Idle(s, w) /\ w # b.witness
  <2> SUFFICES ASSUME NEW w \in Witness
               PROVE  /\ SameLap(s.wit[w], wit[w]) /\ wit[w].vote = s.wit[w].vote
                      /\ wit[w].confirmed = s.wit[w].confirmed
                      /\ \/ wit[w].key = s.wit[w].key
                         \/ wit[w].key = FALSE /\ Idle(s, w) /\ w # b.witness
    OBVIOUS
  <2>1. CASE Misses(w)
    <3>1. wit[w] = Less(w)  BY <2>1
    <3>2. QED  BY <1>3, <1>4, <2>1, <3>1
  <2>2. CASE ~Misses(w)
    <3>1. wit[w] = s.wit[w]  BY <2>2
    <3>2. QED  BY <3>1 DEF SameLap
  <2>3. QED  BY <2>1, <2>2
<1> HIDE DEF wit
<1>7. Sound(x) /\ SameChain(s, x) /\ x.wit = wit
  BY <1>2, <1>5, <1>6, WitnessesKeep
<1>8. QED  BY <1>6, <1>7 DEF x

(* Keys go only when their witness is idle, and never the producer's. *)
Ticked(s, b, x) ==
  /\ x.num = s.num + 1 /\ x.time = b.time /\ x.sched = s.sched
  /\ \A w \in Witness :
       /\ x.wit[w].confirmed = s.wit[w].confirmed
       /\ \/ x.wit[w].key = s.wit[w].key
          \/ x.wit[w].key = FALSE /\ Idle(s, w) /\ w # b.witness

(* update_global_dynamic_data(): slots, clock and participation go together. *)
LEMMA DynamicDataKeeps ==
  ASSUME NEW s, Sound(s), NEW b \in Block, get_slot_at_time(s, b.time) > 0,
         NEW x, x = update_global_dynamic_data(s, b)
  PROVE  Sound(x) /\ Ticked(s, b, x)
<1> DEFINE n == get_slot_at_time(s, b.time)
           m == Missed(s, b)
           f == Filled(m, n)
<1>1. s \in ChainState /\ b.time \in Nat
  BY DEF Sound, Block
<1>2. n \in Nat \ {0} /\ n = b.time \div Interval - s.time \div Interval
  BY <1>1, SlotCount
<1>3. /\ Sound(m) /\ SameChain(s, m)
      /\ \A w \in Witness :
           /\ m.wit[w].confirmed = s.wit[w].confirmed
           /\ \/ m.wit[w].key = s.wit[w].key
              \/ m.wit[w].key = FALSE /\ Idle(s, w) /\ w # b.witness
  BY MissedKeeps
<1> HIDE DEF n, m
<1>4. /\ f \in ChainState /\ Len(f.filled) = Window /\ f.participation = Ones(f.filled)
      /\ f = [m EXCEPT !.filled = f.filled, !.participation = f.participation]
  BY <1>2, <1>3, FilledKeeps DEF Sound, Slots
<1>5. x = [f EXCEPT !.num = f.num + 1, !.time = b.time, !.aslot = f.aslot + n]
  BY DEF update_global_dynamic_data, n, m
<1>6. m \in ChainState
  BY <1>3 DEF Sound
<1> HIDE DEF f
<1>7. /\ f.num = m.num /\ f.time = m.time /\ f.aslot = m.aslot /\ f.sched = m.sched
      /\ f.vtime = m.vtime /\ f.applied = m.applied /\ f.next = m.next /\ f.wit = m.wit
  BY <1>4, <1>6 DEF ChainState
<1>8. s.aslot + n = b.time \div Interval /\ s.aslot + n \in Nat
  <2>1. s.aslot = s.time \div Interval /\ s.aslot \in Nat
    BY <1>1 DEF Sound, Slots, ChainState
  <2>2. b.time \div Interval \in Nat
    BY <1>1, Quotient, WitnessAssumption
  <2>3. QED  BY <1>2, <2>1, <2>2
<1>9. /\ x \in ChainState /\ x.num = s.num + 1 /\ x.time = b.time /\ x.aslot = b.time \div Interval
      /\ x.sched = s.sched /\ x.vtime = s.vtime /\ x.applied = s.applied /\ x.next = s.next
      /\ x.wit = m.wit /\ x.filled = f.filled /\ x.participation = f.participation
  <2>1. f.num + 1 \in Nat /\ f.aslot + n \in Nat /\ f.aslot + n = b.time \div Interval
    BY <1>1, <1>3, <1>7, <1>8 DEF SameChain, ChainState
  <2>2. PICK k \in Nat, l \in Nat, t \in Nat : k = f.num + 1 /\ l = f.aslot + n /\ t = b.time
    BY <1>1, <2>1
  <2>3. x = [f EXCEPT !.num = k, !.time = t, !.aslot = l]
    BY <1>5, <2>2
  <2>4. /\ x \in ChainState /\ x.num = k /\ x.time = t /\ x.aslot = l /\ x.sched = f.sched
        /\ x.vtime = f.vtime /\ x.applied = f.applied /\ x.next = f.next /\ x.wit = f.wit
        /\ x.filled = f.filled /\ x.participation = f.participation
    BY <1>4, <2>3 DEF ChainState
  <2>5. QED  BY <1>3, <1>7, <1>8, <2>1, <2>2, <2>4 DEF SameChain
<1>10. Sound(x)
  <2>1. Laps(x)  BY <1>3, <1>9 DEF Sound, Laps, SameChain
  <2>2. Slots(x)  BY <1>4, <1>9 DEF Slots
  <2>3. Voters(x) = Voters(m) /\ Backed(x)
    BY <1>3, <1>9 DEF Sound, Voters, Backed, SameChain
  <2>4. Round(x)  BY <1>9 DEF Sound, Round
  <2>5. QED  BY <1>9, <2>1, <2>2, <2>3, <2>4 DEF Sound
<1>11. QED  BY <1>3, <1>9, <1>10 DEF Ticked

(* What a valid block means for the witnesses. *)
Applied(s, b, x) ==
  /\ x.num = s.num + 1 /\ x.time = b.time
  /\ \A w \in Witness :
       /\ w # b.witness => x.wit[w].confirmed = s.wit[w].confirmed
       /\ w \notin Resigning => \/ x.wit[w].key = s.wit[w].key
                                \/ x.wit[w].key = FALSE /\ Idle(s, w) /\ w # b.witness
  /\ x.wit[b.witness].confirmed = IF s.wit[b.witness].confirmed > s.num + 1
                                    THEN s.wit[b.witness].confirmed ELSE s.num + 1

(* What a block does before the schedule: keys go only when their witness    *)
(* is idle, and the producer has confirmed its block.                        *)
LEMMA CountedKeeps ==
  ASSUME NEW s, Sound(s), NEW b \in Block, b.version = Version[b.witness], Allowed(s, b.op),
         get_slot_at_time(s, b.time) > 0, NEW x, x = Counted(s, b)
  PROVE  Sound(x) /\ Applied(s, b, x)
<1>1. PICK e : e = process_header_extensions(s, b)
  OBVIOUS
<1>2. PICK v : v = Evaluated(e, b.op)
  OBVIOUS
<1>3. PICK d : d = update_global_dynamic_data(v, b)
  OBVIOUS
<1>4. x = update_signing_witness(d, b.witness)
  BY <1>1, <1>2, <1>3 DEF Counted
<1>6. b.witness \in Witness /\ b.op \in Ops /\ b.time \in Nat /\ s.num \in Nat
  BY DEF Block, Sound, ChainState
<1>7. /\ Sound(e) /\ SameChain(s, e)
      /\ \A w \in Witness : /\ e.wit[w].votes = s.wit[w].votes /\ e.wit[w].key = s.wit[w].key
                            /\ e.wit[w].confirmed = s.wit[w].confirmed
  BY <1>1, ExtensionsKeep DEF SameLap
<1>8. Allowed(e, b.op)
  <2>1. b.op.kind = "vote" => b.op.w \in Witness
    BY <1>6, OpKinds DEF NoOp
  <2>2. QED  BY <1>7, <2>1 DEF Allowed
<1>9. /\ Sound(v) /\ SameChain(e, v)
      /\ \A w \in Witness : /\ w \notin Resigning => v.wit[w].key = e.wit[w].key
                            /\ v.wit[w].confirmed = e.wit[w].confirmed
  BY <1>2, <1>6, <1>7, <1>8, EvaluatedKeeps
<1>10. get_slot_at_time(v, b.time) > 0
  <2>1. get_slot_at_time(v, b.time) = get_slot_at_time(s, b.time)
    BY <1>7, <1>9 DEF get_slot_at_time, get_slot_time, SameChain
  <2>2. QED  BY <2>1
<1>11. Sound(d) /\ Ticked(v, b, d)
  BY <1>3, <1>9, <1>10, DynamicDataKeeps
<1>12. /\ Sound(d) /\ d.num = v.num + 1 /\ d.sched = v.sched
       /\ \A w \in Witness :
            /\ d.wit[w].confirmed = v.wit[w].confirmed
            /\ \/ d.wit[w].key = v.wit[w].key
               \/ d.wit[w].key = FALSE /\ Idle(v, w) /\ w # b.witness
  BY <1>11 DEF Ticked
<1>13. d.num \in Nat /\ d.num = s.num + 1 /\ d.sched = s.sched
  BY <1>6, <1>7, <1>9, <1>12 DEF SameChain
<1>14. /\ Sound(x) /\ SameChain(d, x)
       /\ \A w \in Witness : /\ x.wit[w].key = d.wit[w].key
                             /\ w # b.witness => x.wit[w].confirmed = d.wit[w].confirmed
       /\ x.wit[b.witness].confirmed = IF d.wit[b.witness].confirmed > d.num
                                         THEN d.wit[b.witness].confirmed ELSE d.num
  BY <1>4, <1>6, <1>12, <1>13, ConfirmedSet, SMTT(40) DEF update_signing_witness
<1>15. \A w \in Witness : w \notin Resigning =>
          \/ x.wit[w].key = s.wit[w].key
          \/ x.wit[w].key = FALSE /\ Idle(s, w) /\ w # b.witness
  <2>1. \A w \in Witness : Idle(v, w) => Idle(s, w)
    BY <1>7, <1>9 DEF Idle, SameChain
  <2>2. QED  BY <1>7, <1>9, <1>12, <1>14, <2>1
<1>16. /\ Sound(x) /\ x.num = s.num + 1 /\ x.sched = s.sched
       /\ \A w \in Witness : w # b.witness => x.wit[w].confirmed = s.wit[w].confirmed
       /\ x.wit[b.witness].confirmed = IF s.wit[b.witness].confirmed > s.num + 1
                                         THEN s.wit[b.witness].confirmed ELSE s.num + 1
  BY <1>6, <1>7, <1>9, <1>12, <1>13, <1>14 DEF SameChain
<1>17. x.time = b.time
  BY <1>11, <1>14 DEF Ticked, SameChain
<1>18. QED  BY <1>15, <1>16, <1>17 DEF Applied

-----------------------------------------------------------------------------
(* The schedule of a round.                                                  *)

(* Who the loop has not come to is due later than whom it has. *)
LEMMA ProcessedFirst ==
  ASSUME NEW s \in ChainState
  PROVE  /\ Processed(s) \subseteq Witness
         /\ \A p \in Processed(s), w \in Witness \ Processed(s) : s.wit[p].vsched <= s.wit[w].vsched
<1>1. \A w \in Witness : w \in Nat /\ s.wit[w].vsched \in Nat
  BY WitnessAssumption DEF ChainState, WitnessState
<1>2. Leading(s) \subseteq Witness
  BY DEF Leading, Runners, Keyed
<1>3. CASE Processed(s) = Witness
  BY <1>3
<1>4. CASE Processed(s) = {w \in Witness : \E l \in Leading(s) : w = l \/ Earlier(s, w, l)}
  <2> SUFFICES ASSUME NEW p \in Processed(s), NEW w \in Witness \ Processed(s)
               PROVE  s.wit[p].vsched <= s.wit[w].vsched
    BY <1>4
  <2>1. PICK l \in Leading(s) : p = l \/ Earlier(s, p, l)
    BY <1>4
  <2>2. w # l /\ ~Earlier(s, w, l)
    BY <1>4
  <2>3. s.wit[p].vsched <= s.wit[l].vsched
    BY <1>1, <1>2, <1>4, <2>1 DEF Earlier
  <2>4. s.wit[l].vsched <= s.wit[w].vsched
    BY <1>1, <1>2, <2>2 DEF Earlier
  <2>5. QED  BY <1>1, <1>2, <1>4, <2>3, <2>4
<1>5. QED  BY <1>3, <1>4 DEF Processed

(* Only virtual time and laps move, and the laps are kept. *)
LEMMA AdvancedKeeps ==
  ASSUME NEW s, Sound(s)
  PROVE  LET x == Advanced(s)
         IN  /\ x \in ChainState /\ Laps(x) /\ SameChain(s, [x EXCEPT !.vtime = s.vtime])
             /\ \A w \in Witness : /\ x.wit[w].key = s.wit[w].key /\ x.wit[w].vote = s.wit[w].vote
                                   /\ x.wit[w].confirmed = s.wit[w].confirmed
<1>1. s \in ChainState /\ s.vtime \in Nat /\ s.wit \in [Witness -> WitnessState] /\ Laps(s)
  BY DEF Sound, ChainState
<1>2. \A w \in Witness : /\ s.wit[w] \in WitnessState /\ s.wit[w].votes \in Nat /\ s.wit[w].vsched \in Nat
                         /\ s.vtime <= s.wit[w].vsched /\ s.wit[w].vsched <= LapLength
  BY <1>1 DEF WitnessState, Laps, Lap
<1>3. LapLength \in Nat /\ 1 \in Witness
  BY WitnessAssumption
<1>4. \A w \in Witness : /\ LapLength \div (s.wit[w].votes + 1) \in Nat
                         /\ LapLength \div (s.wit[w].votes + 1) <= LapLength
  BY <1>2, LapFits
<1> DEFINE times == {s.vtime} \cup {s.wit[w].vsched : w \in Processed(s)}
           now == Max(times)
           next == [w \in Witness |-> now + LapLength \div (s.wit[w].votes + 1)]
           x == Advanced(s)
<1>5. times \in SUBSET (0..LapLength) /\ times # {}
  BY <1>1, <1>2, <1>3, ProcessedFirst
<1>6. now \in times /\ (\A t \in times : now >= t) /\ now \in Nat
  <2>1. now \in times /\ \A t \in times : now >= t
    BY <1>3, <1>5, LargestOf
  <2> HIDE DEF times, now
  <2>2. now \in 0..LapLength
    BY <1>5, <2>1
  <2>3. QED  BY <1>3, <2>1, <2>2
<1> DEFINE resets == \E w \in Processed(s) : next[w] > LapLength
<1>7. CASE resets
  <2> DEFINE from(w) == [s.wit[w] EXCEPT !.pos = 0, !.last = 0,
                                         !.vsched = LapLength \div (s.wit[w].votes + 1)]
             wit == [w \in Witness |-> from(w)]
  <2>1. x = [s EXCEPT !.vtime = 0, !.wit = wit]
    BY <1>7 DEF Advanced, reset_virtual_schedule_time
  <2>2. ASSUME NEW w \in Witness
        PROVE  /\ from(w) \in WitnessState /\ Lap(from(w), 0)
               /\ from(w).key = s.wit[w].key /\ from(w).vote = s.wit[w].vote
               /\ from(w).confirmed = s.wit[w].confirmed
    <3>1. PICK q \in Nat : q = LapLength \div (s.wit[w].votes + 1) /\ q <= LapLength
      BY <1>4
    <3>2. PICK y : y = [s.wit[w] EXCEPT !.pos = 0, !.last = 0, !.vsched = q]
      OBVIOUS
    <3>3. /\ y \in WitnessState /\ y.pos = 0 /\ y.last = 0 /\ y.vsched = q /\ y.votes = s.wit[w].votes
          /\ y.key = s.wit[w].key /\ y.vote = s.wit[w].vote /\ y.confirmed = s.wit[w].confirmed
      BY <1>2, <3>2 DEF WitnessState
    <3>4. Lap(y, 0)
      <4>1. y.vsched = 0 + LapLength \div (y.votes + 1) /\ y.vsched <= LapLength
        BY <3>1, <3>3
      <4>2. QED  BY <3>3, <4>1, LapFromStart
    <3>5. QED  BY <3>1, <3>2, <3>3, <3>4
  <2> HIDE DEF from, x
  <2>3. wit \in [Witness -> WitnessState]
    BY <2>2
  <2>4. x \in ChainState /\ x.wit = wit /\ x.vtime = 0 /\ SameChain(s, [x EXCEPT !.vtime = s.vtime])
    BY <1>1, <2>1, <2>3 DEF ChainState, SameChain
  <2>5. QED  BY <2>2, <2>4 DEF Laps, x
<1>8. CASE ~resets
  <2> DEFINE from(w) == [s.wit[w] EXCEPT !.pos = 0, !.last = now, !.vsched = next[w]]
             wit == [w \in Witness |-> IF w \in Processed(s) THEN from(w) ELSE s.wit[w]]
  <2>1. x = [s EXCEPT !.vtime = now, !.wit = wit]
    BY <1>8 DEF Advanced
  <2>2. \A w \in Witness : next[w] \in Nat /\ next[w] = now + LapLength \div (s.wit[w].votes + 1)
    BY <1>4, <1>6
  <2>3. \A w \in Processed(s) : next[w] <= LapLength
    <3> SUFFICES ASSUME NEW w \in Processed(s) PROVE next[w] <= LapLength
      OBVIOUS
    <3>1. ~(next[w] > LapLength)
      BY <1>8
    <3>2. next[w] \in Nat
      BY <1>1, <2>2, ProcessedFirst
    <3> HIDE DEF next
    <3>3. QED  BY <1>3, <3>1, <3>2
  <2> HIDE DEF next, x
  <2>4. ASSUME NEW w \in Processed(s)
        PROVE  /\ from(w) \in WitnessState /\ Lap(from(w), now)
               /\ from(w).key = s.wit[w].key /\ from(w).vote = s.wit[w].vote
               /\ from(w).confirmed = s.wit[w].confirmed
    <3>1. PICK n \in Nat, m \in Nat : n = now /\ m = next[w]
      BY <1>1, <1>6, <2>2, ProcessedFirst
    <3>2. PICK y : y = [s.wit[w] EXCEPT !.pos = 0, !.last = n, !.vsched = m]
      OBVIOUS
    <3>3. /\ y \in WitnessState /\ y.pos = 0 /\ y.last = n /\ y.vsched = m /\ y.votes = s.wit[w].votes
          /\ y.key = s.wit[w].key /\ y.vote = s.wit[w].vote /\ y.confirmed = s.wit[w].confirmed
      BY <1>1, <1>2, <3>2, ProcessedFirst, ZenonT(40) DEF WitnessState
    <3>4. Lap(y, n)
      <4>1. y.vsched = n + LapLength \div (y.votes + 1) /\ y.vsched <= LapLength
        BY <1>1, <2>2, <2>3, <3>1, <3>3, ProcessedFirst
      <4>2. QED  BY <3>3, <4>1, LapFromStart
    <3>5. QED  BY <3>1, <3>2, <3>3, <3>4
  <2>5. ASSUME NEW w \in Witness \ Processed(s) PROVE Lap(s.wit[w], now)
    <3>1. now <= s.wit[w].vsched
      <4>1. CASE now = s.vtime  BY <1>2, <4>1
      <4>2. CASE now # s.vtime
        <5>1. PICK p \in Processed(s) : now = s.wit[p].vsched
          BY <1>6, <4>2
        <5>2. QED  BY <1>1, <5>1, ProcessedFirst
      <4>3. QED  BY <4>1, <4>2
    <3>2. s.vtime <= now
      BY <1>6
    <3>3. s.wit[w].last \in Nat /\ s.wit[w].last <= s.vtime
      BY <1>1, <1>2 DEF Laps, Lap, WitnessState
    <3>4. s.wit[w].last <= now
      BY <1>1, <1>6, <3>2, <3>3
    <3>5. QED  BY <1>1, <3>1, <3>4 DEF Laps, Lap
  <2> HIDE DEF from, now
  <2>6. wit \in [Witness -> WitnessState]
    BY <1>2, <2>4
  <2>7. x \in ChainState /\ x.wit = wit /\ x.vtime = now /\ SameChain(s, [x EXCEPT !.vtime = s.vtime])
    BY <1>1, <1>6, <2>1, <2>6 DEF ChainState, SameChain
  <2>8. \A w \in Witness : x.wit[w] = IF w \in Processed(s) THEN from(w) ELSE s.wit[w]
    BY <2>7
  <2>9. Laps(x)
    BY <2>4, <2>5, <2>7, <2>8 DEF Laps
  <2>10. \A w \in Witness : /\ x.wit[w].key = s.wit[w].key /\ x.wit[w].vote = s.wit[w].vote
                            /\ x.wit[w].confirmed = s.wit[w].confirmed
    BY <2>4, <2>8
  <2>11. QED  BY <2>7, <2>9, <2>10 DEF x
<1>9. QED  BY <1>7, <1>8

(* A finite set as a sequence without repetitions. *)
LEMMA SequenceOf ==
  ASSUME NEW S, IsFiniteSet(S)
  PROVE  LET q == SetToSeq(S)
         IN  /\ q \in Seq(S) /\ IsInjective(q) /\ Len(q) = Cardinality(S) /\ Cardinality(S) \in Nat
<1> DEFINE n == Cardinality(S)
           q == SetToSeq(S)
<1>1. n \in Nat /\ ExistsBijection(1..n, S)
  BY FS_CardinalityType
<1> HIDE DEF n
<1>2. PICK f \in Bijection(1..n, S) : TRUE
  BY <1>1 DEF ExistsBijection
<1>3. f \in [1..n -> S] /\ IsInjective(f)
  BY <1>2 DEF Bijection, Injection
<1>4. q = CHOOSE g \in [1..n -> S] : IsInjective(g)
  BY DEF SetToSeq, n
<1>5. q \in [1..n -> S] /\ IsInjective(q)
  BY <1>3, <1>4
<1> HIDE DEF q
<1>6. q \in Seq(S) /\ Len(q) = n
  BY <1>1, <1>5
<1>7. QED  BY <1>1, <1>5, <1>6 DEF q, n

(* Two such sequences of different elements, one after the other. *)
LEMMA ConcatUnrepeated ==
  ASSUME NEW W, NEW p \in Seq(W), NEW q \in Seq(W), IsInjective(p), IsInjective(q),
         \A i \in DOMAIN p, j \in DOMAIN q : p[i] # q[j]
  PROVE  p \o q \in Seq(W) /\ IsInjective(p \o q)
<1>1. /\ Len(p) \in Nat /\ Len(q) \in Nat /\ DOMAIN p = 1..Len(p) /\ DOMAIN q = 1..Len(q)
      /\ p \o q \in Seq(W) /\ DOMAIN (p \o q) = 1..(Len(p) + Len(q))
      /\ \A i \in 1..(Len(p) + Len(q)) : (p \o q)[i] = IF i <= Len(p) THEN p[i] ELSE q[i - Len(p)]
  OBVIOUS
<1>2. ASSUME NEW i \in 1..(Len(p) + Len(q)), NEW j \in 1..(Len(p) + Len(q)),
             (p \o q)[i] = (p \o q)[j]
      PROVE  i = j
  <2>1. CASE i <= Len(p) /\ j <= Len(p)
    BY <1>1, <1>2, <2>1 DEF IsInjective
  <2>2. CASE ~(i <= Len(p)) /\ ~(j <= Len(p))
    <3>1. i - Len(p) \in DOMAIN q /\ j - Len(p) \in DOMAIN q /\ q[i - Len(p)] = q[j - Len(p)]
      BY <1>1, <1>2, <2>2
    <3>2. i - Len(p) = j - Len(p)
      BY <3>1 DEF IsInjective
    <3>3. QED  BY <1>1, <3>2
  <2>3. CASE i <= Len(p) /\ ~(j <= Len(p))
    <3>1. i \in DOMAIN p /\ j - Len(p) \in DOMAIN q /\ p[i] = q[j - Len(p)]
      BY <1>1, <1>2, <2>3
    <3>2. QED  BY <3>1
  <2>4. CASE ~(i <= Len(p)) /\ j <= Len(p)
    <3>1. j \in DOMAIN p /\ i - Len(p) \in DOMAIN q /\ p[j] = q[i - Len(p)]
      BY <1>1, <1>2, <2>4
    <3>2. QED  BY <3>1
  <2>5. QED  BY <2>1, <2>2, <2>3, <2>4
<1>3. QED  BY <1>1, <1>2 DEF IsInjective

(* Voted and leading witnesses are different ones: each has one place. *)
LEMMA ActiveUnrepeated ==
  ASSUME NEW s
  PROVE  Active(s) \in Seq(Witness) /\ IsInjective(Active(s))
<1>1. /\ Voted(s) \in SUBSET Witness /\ Leading(s) \in SUBSET Witness /\ Voted(s) \cap Leading(s) = {}
  BY DEF Voted, Leading, Runners, Keyed
<1>2. IsFiniteSet(Voted(s)) /\ IsFiniteSet(Leading(s))
  BY <1>1, WitnessAssumption, FS_Subset
<1>3. PICK p : p = SetToSeq(Voted(s))
  OBVIOUS
<1>4. PICK q : q = SetToSeq(Leading(s))
  OBVIOUS
<1>5. p \in Seq(Voted(s)) /\ IsInjective(p) /\ q \in Seq(Leading(s)) /\ IsInjective(q)
  BY <1>2, <1>3, <1>4, SequenceOf
<1>6. p \in Seq(Witness) /\ q \in Seq(Witness)
  BY <1>1, <1>5
<1>7. \A i \in DOMAIN p, j \in DOMAIN q : p[i] # q[j]
  <2>1. \A i \in DOMAIN p : p[i] \in Voted(s)
    BY <1>5
  <2>2. \A j \in DOMAIN q : q[j] \in Leading(s)
    BY <1>5
  <2>3. QED  BY <1>1, <2>1, <2>2
<1>8. Active(s) = p \o q
  BY <1>3, <1>4 DEF Active
<1>9. QED  BY <1>5, <1>6, <1>7, <1>8, ConcatUnrepeated

(* The shuffle gives everyone a slot. *)
LEMMA ShuffledUnrepeated ==
  ASSUME NEW q \in Seq(Witness), IsInjective(q), NEW r \in Shuffled(q)
  PROVE  r \in Seq(Witness) /\ IsInjective(r) /\ Len(r) = Len(q)
<1>1. PICK p \in [DOMAIN q -> DOMAIN q] : IsInjective(p) /\ r = [i \in DOMAIN q |-> q[p[i]]]
  BY DEF Shuffled
<1>2. Len(q) \in Nat /\ DOMAIN q = 1..Len(q) /\ \A i \in DOMAIN q : q[i] \in Witness
  OBVIOUS
<1>3. r \in [1..Len(q) -> Witness]
  BY <1>1, <1>2
<1>4. r \in Seq(Witness) /\ Len(r) = Len(q)
  BY <1>2, <1>3
<1>5. IsInjective(r)
  BY <1>1 DEF IsInjective
<1>6. QED  BY <1>4, <1>5

(* The hardfork a round votes for has the witnesses behind it. *)
LEMMA NextBacked ==
  ASSUME NEW s, Sound(s)
  PROVE  /\ NextHardfork(s) \in {0, 1}
         /\ NextHardfork(s) = 1 => Cardinality(Voters(s)) >= Required
<1>1. s \in ChainState /\ s.applied \in {0, 1} /\ s.sched \in Seq(Witness) /\ IsInjective(s.sched)
      /\ \A w \in Witness : s.wit[w].vote \in {0, 1}
  BY DEF Sound, Round, ChainState, WitnessState
<1>2. CASE VotedHardfork(s) = {}
  BY <1>1, <1>2 DEF NextHardfork, Sound, Backed
<1>3. CASE VotedHardfork(s) # {}
  <2>1. VotedHardfork(s) \subseteq {0, 1} /\ VotedHardfork(s) \in SUBSET Nat
    BY <1>1 DEF VotedHardfork
  <2>2. NextHardfork(s) \in VotedHardfork(s)
    BY <1>3, <2>1, LeastOf DEF NextHardfork
  <2>3. ASSUME NextHardfork(s) = 1 PROVE Cardinality(Voters(s)) >= Required
    <3> DEFINE D == {i \in DOMAIN s.sched : s.wit[s.sched[i]].vote = 1}
               f == [i \in D |-> s.sched[i]]
    <3>1. Cardinality(D) >= Required
      BY <2>2, <2>3 DEF VotedHardfork
    <3>2. \A i \in D : s.sched[i] \in Voters(s)
      BY <1>1 DEF Voters
    <3>3. f \in Injection(D, Voters(s))
      BY <1>1, <3>2 DEF Injection, IsInjective
    <3>4. IsFiniteSet(Voters(s))
      <4>1. Voters(s) \in SUBSET Witness
        BY DEF Voters
      <4>2. QED  BY <4>1, WitnessAssumption, FS_Subset
    <3>5. IsFiniteSet(D) /\ Cardinality(D) <= Cardinality(Voters(s))
      BY <3>3, <3>4, FS_Injection
    <3>6. Cardinality(D) \in Nat /\ Cardinality(Voters(s)) \in Nat /\ Required \in Nat
      BY <3>4, <3>5, FS_CardinalityType, WitnessAssumption
    <3>7. QED  BY <3>1, <3>5, <3>6
  <2>4. QED  BY <2>1, <2>2, <2>3
<1>4. QED  BY <1>2, <1>3

(* The majority version is one of the versions. *)
LEMMA MajorityKnown ==
  ASSUME NEW s \in ChainState
  PROVE  MajorityVersion(s) \in {0, 1}
<1> DEFINE versions == {s.wit[s.sched[i]].version : i \in DOMAIN s.sched}
           enough == {v \in versions :
                        Cardinality({i \in DOMAIN s.sched : s.wit[s.sched[i]].version >= v}) >= Required}
<1>1. s.majority \in {0, 1} /\ \A i \in DOMAIN s.sched : s.wit[s.sched[i]].version \in {0, 1}
  BY DEF ChainState, WitnessState
<1>2. enough \in SUBSET (0..1)
  BY <1>1
<1>3. enough # {} => Max(enough) \in enough
  BY <1>2, LargestOf
<1>4. MajorityVersion(s) = IF enough = {} THEN s.majority ELSE Max(enough)
  BY DEF MajorityVersion
<1> HIDE DEF enough
<1>5. QED  BY <1>1, <1>2, <1>3, <1>4

(* A sequence of numbers that is not empty has a largest one. *)
LEMMA LargestIn ==
  ASSUME NEW q \in Seq(Nat), q # <<>>
  PROVE  \E i \in DOMAIN q : \A j \in DOMAIN q : q[j] <= q[i]
<1> DEFINE Top(k) == \E i \in 1..k : \A j \in 1..k : q[j] <= q[i]
           T == {k \in 1..Len(q) : ~Top(k)}
<1>1. Len(q) \in Nat /\ DOMAIN q = 1..Len(q) /\ Len(q) >= 1 /\ \A i \in 1..Len(q) : q[i] \in Nat
  OBVIOUS
<1>2. T = {}
  <2> SUFFICES ASSUME T # {} PROVE FALSE
    OBVIOUS
  <2>1. T \in SUBSET Nat
    BY <1>1
  <2>2. PICK k \in T : \A l \in T : k <= l
    BY <2>1, LeastOf
  <2>3. k \in 1..Len(q) /\ ~Top(k)
    OBVIOUS
  <2>4. CASE k = 1
    <3>1. \A j \in 1..1 : j = 1
      OBVIOUS
    <3>2. q[1] <= q[1] /\ 1 \in 1..1
      BY <1>1
    <3>3. QED  BY <2>3, <2>4, <3>1, <3>2
  <2>5. CASE k # 1
    <3>1. k - 1 \in 1..Len(q) /\ k - 1 < k
      BY <1>1, <2>3, <2>5
    <3>2. Top(k - 1)
      <4> HIDE DEF T
      <4>1. k - 1 \notin T
        BY <2>1, <2>2, <3>1
      <4>2. QED  BY <3>1, <4>1 DEF T
    <3>3. PICK i \in 1..(k - 1) : \A j \in 1..(k - 1) : q[j] <= q[i]
      BY <3>2
    <3> HIDE DEF Top, T
    <3>4. i \in 1..k /\ k \in 1..k /\ q[i] \in Nat /\ q[k] \in Nat
      BY <1>1, <2>3, <3>3
    <3>5. \A j \in 1..k : j \in 1..(k - 1) \/ j = k
      BY <1>1, <2>3
    <3>6. \A j \in 1..k : q[j] \in Nat
      BY <1>1, <2>3
    <3>7. CASE q[k] <= q[i]
      <4>1. \A j \in 1..k : q[j] <= q[i]
        BY <3>3, <3>5, <3>7
      <4>2. QED  BY <2>3, <3>4, <4>1 DEF Top
    <3>8. CASE q[i] <= q[k]
      <4>1. ASSUME NEW j \in 1..k PROVE q[j] <= q[k]
        <5>1. CASE j = k
          BY <3>4, <5>1
        <5>2. CASE j \in 1..(k - 1)
          <6>1. q[j] <= q[i] /\ q[j] \in Nat
            BY <3>3, <3>6, <5>2
          <6>2. QED  BY <3>4, <3>8, <6>1
        <5>3. QED  BY <3>5, <5>1, <5>2
      <4>2. QED  BY <2>3, <3>4, <4>1 DEF Top
    <3>9. q[k] <= q[i] \/ q[i] <= q[k]
      BY <3>4
    <3>10. QED  BY <3>7, <3>8, <3>9
  <2>6. QED  BY <2>4, <2>5
<1>3. Top(Len(q))
  <2>1. Len(q) \in 1..Len(q)
    BY <1>1
  <2>2. Len(q) \notin T
    BY <1>2
  <2>3. QED  BY <2>1, <2>2
<1>4. QED  BY <1>1, <1>3

(* There is a median. *)
LEMMA MedianThere ==
  ASSUME NEW sched \in Seq(Witness), sched # <<>>
  PROVE  MedianSize(sched) \in Nat
<1> DEFINE size == [i \in DOMAIN sched |-> BlockSizes[sched[i]]]
           Half == {n \in Range(size) :
                      Cardinality({i \in DOMAIN sched : size[i] <= n}) > Len(sched) \div 2}
<1>1. /\ Len(sched) \in Nat /\ DOMAIN sched = 1..Len(sched) /\ Len(sched) >= 1
      /\ \A i \in 1..Len(sched) : BlockSizes[sched[i]] \in Nat
  <2>1. Len(sched) \in Nat /\ DOMAIN sched = 1..Len(sched) /\ Len(sched) >= 1
    OBVIOUS
  <2>2. \A i \in 1..Len(sched) : sched[i] \in Witness
    OBVIOUS
  <2>3. QED  BY <2>1, <2>2, WitnessAssumption
<1>2. size \in Seq(Nat) /\ size # <<>> /\ DOMAIN size = DOMAIN sched
  BY <1>1
<1> HIDE DEF size
<1>3. PICK i \in DOMAIN size : \A j \in DOMAIN size : size[j] <= size[i]
  BY <1>2, LargestIn
<1>4. {j \in DOMAIN sched : size[j] <= size[i]} = 1..Len(sched)
  BY <1>1, <1>2, <1>3
<1>5. Cardinality(1..Len(sched)) = Len(sched)
  BY <1>1, FS_Interval
<1>6. Len(sched) > Len(sched) \div 2
  BY <1>1
<1>7. size[i] \in Half
  <2>1. Cardinality({j \in DOMAIN sched : size[j] <= size[i]}) > Len(sched) \div 2
    BY <1>4, <1>5, <1>6
  <2>2. QED  BY <1>3, <2>1 DEF Range
<1>8. Half \in SUBSET Nat
  BY <1>2 DEF Range
<1>9. MedianSize(sched) = Min(Half)
  BY DEF MedianSize, size
<1>10. QED  BY <1>7, <1>8, <1>9, LeastOf

(* A round has witnesses. *)
LEMMA RoundThere ==
  ASSUME NEW s, Rounds(s)
  PROVE  Active(s) # <<>>
<1>1. MaxWitnesses \in Nat \ {0} /\ Cardinality(Witness) \in Nat \ {0}
  <2>1. IsFiniteSet(Witness) /\ Witness # {}
    BY WitnessAssumption
  <2>2. QED  BY <2>1, FS_CardinalityType, FS_EmptySet, WitnessAssumption
<1>2. Min({MaxWitnesses, Cardinality(Witness)}) \in {MaxWitnesses, Cardinality(Witness)}
  <2>1. {MaxWitnesses, Cardinality(Witness)} \in SUBSET Nat
    BY <1>1
  <2>2. QED  BY <2>1, LeastOf
<1>3. Len(Active(s)) \in Nat \ {0}
  BY <1>1, <1>2 DEF Rounds
<1>4. QED  BY <1>3

(* What the schedule may change. *)
Scheduled(s, x) ==
  /\ x.num = s.num /\ x.time = s.time
  /\ \A w \in Witness : x.wit[w].key = s.wit[w].key /\ x.wit[w].confirmed = s.wit[w].confirmed

(* update_witness_schedule(): a new round at the end of one, with the        *)
(* hardfork the old one has voted for.                                       *)
LEMMA ScheduleKeeps ==
  ASSUME NEW s, Sound(s), s.num % MaxWitnesses = 0 => Rounds(s), NEW x \in update_witness_schedule(s)
  PROVE  Sound(x) /\ Scheduled(s, x)
<1>1. CASE s.num % MaxWitnesses # 0
  <2>1. x = s
    BY <1>1 DEF update_witness_schedule
  <2>2. QED  BY <2>1 DEF Scheduled
<1>2. CASE s.num % MaxWitnesses = 0
  <2>1. PICK sched \in Shuffled(Active(s)) : x = update_witness_schedule4(s, sched)
    BY <1>2 DEF update_witness_schedule
  <2>2. sched \in Seq(Witness) /\ IsInjective(sched) /\ Len(sched) = Len(Active(s))
    BY ActiveUnrepeated, ShuffledUnrepeated
  <2>3. sched # <<>>
    <3>1. Active(s) # <<>> /\ Active(s) \in Seq(Witness)
      BY <1>2, RoundThere, ActiveUnrepeated
    <3>2. QED  BY <2>2, <3>1
  <2>4. PICK a : a = Advanced(s)
    OBVIOUS
  <2>5. /\ a \in ChainState /\ Laps(a) /\ SameChain(s, [a EXCEPT !.vtime = s.vtime])
        /\ \A w \in Witness : /\ a.wit[w].key = s.wit[w].key /\ a.wit[w].vote = s.wit[w].vote
                              /\ a.wit[w].confirmed = s.wit[w].confirmed
    BY <2>4, AdvancedKeeps
  <2>6. /\ a.num = s.num /\ a.time = s.time /\ a.aslot = s.aslot /\ a.filled = s.filled
        /\ a.participation = s.participation /\ a.applied = s.applied
    BY <2>5 DEF SameChain, ChainState
  <2>7. PICK h \in {0, 1}, v \in {0, 1}, m \in Nat :
          h = NextHardfork(s) /\ v = MajorityVersion(s) /\ m = MedianSize(sched)
    BY <2>2, <2>3, NextBacked, MajorityKnown, MedianThere DEF Sound
  <2>8. x = [a EXCEPT !.sched = sched, !.next = h, !.majority = v, !.size = m]
    BY <2>1, <2>4, <2>7 DEF update_witness_schedule4
  <2>9. /\ x \in ChainState /\ x.sched = sched /\ x.next = h /\ x.wit = a.wit /\ x.vtime = a.vtime
        /\ x.num = a.num /\ x.time = a.time /\ x.aslot = a.aslot /\ x.filled = a.filled
        /\ x.participation = a.participation /\ x.applied = a.applied
    BY <2>2, <2>5, <2>8 DEF ChainState
  <2>10. Laps(x) /\ Slots(x) /\ Round(x)
    BY <2>2, <2>3, <2>5, <2>6, <2>9 DEF Sound, Laps, Slots, Round
  <2>11. Voters(x) = Voters(s)
    BY <2>5, <2>9 DEF Voters
  <2>12. Backed(x)
    BY <2>6, <2>7, <2>9, <2>11, NextBacked DEF Sound, Backed
  <2>13. QED  BY <2>5, <2>6, <2>9, <2>10, <2>12 DEF Sound, Scheduled
<1>3. QED  BY <1>1, <1>2

(* process_hardforks(): what is applied was voted for. *)
LEMMA HardforksKeep ==
  ASSUME NEW s, Sound(s)
  PROVE  Sound(process_hardforks(s)) /\ Scheduled(s, process_hardforks(s))
<1>1. CASE process_hardforks(s) = s
  BY <1>1 DEF Scheduled
<1>2. CASE process_hardforks(s) = [s EXCEPT !.applied = s.next]
  <2>1. PICK x : x = [s EXCEPT !.applied = s.next]
    OBVIOUS
  <2>2. s \in ChainState /\ s.next \in {0, 1}
    BY DEF Sound, ChainState
  <2>3. /\ x \in ChainState /\ x.applied = s.next /\ x.next = s.next /\ x.wit = s.wit
        /\ x.num = s.num /\ x.vtime = s.vtime /\ x.sched = s.sched /\ x.time = s.time
        /\ x.aslot = s.aslot /\ x.filled = s.filled /\ x.participation = s.participation
    BY <2>1, <2>2 DEF ChainState
  <2>4. Laps(x) /\ Slots(x) /\ Round(x) /\ Voters(x) = Voters(s)
    BY <2>3 DEF Sound, Laps, Slots, Round, Voters
  <2>5. Backed(x)
    BY <2>3, <2>4 DEF Sound, Backed
  <2>6. QED  BY <1>2, <2>1, <2>3, <2>4, <2>5 DEF Sound, Scheduled
<1>3. QED  BY <1>1, <1>2 DEF process_hardforks

-----------------------------------------------------------------------------
(* A block, from end to end.                                                 *)

(* The head block is followed by a sound state. *)
LEMMA BlockKeeps ==
  ASSUME NEW s, Sound(s), NEW b \in Block, b.version = Version[b.witness], Valid(s, b),
         NEW x \in After(s, b)
  PROVE  Sound(x) /\ Applied(s, b, x) /\ s.wit[b.witness].key
<1>1. Allowed(s, b.op) /\ Failing(s, b) = {}
  BY DEF Valid
<1>2. validate_block_header(s, b)
  BY <1>1 DEF Failing
<1>3. get_slot_at_time(s, b.time) > 0 /\ s.wit[b.witness].key
  BY <1>2 DEF validate_block_header
<1>4. PICK c : c = Counted(s, b)
  OBVIOUS
<1>5. Sound(c) /\ Applied(s, b, c)
  BY <1>1, <1>3, <1>4, CountedKeeps
<1>6. c.num % MaxWitnesses = 0 => Rounds(c)
  BY <1>1, <1>4 DEF Failing
<1>7. PICK y \in update_witness_schedule(c) : x = process_hardforks(y)
  BY <1>4 DEF After
<1>8. Sound(y) /\ Scheduled(c, y)
  BY <1>5, <1>6, ScheduleKeeps
<1>9. Sound(x) /\ Scheduled(y, x)
  BY <1>7, <1>8, HardforksKeep
<1>10. b.witness \in Witness
  BY DEF Block
<1>11. Applied(s, b, x)
  BY <1>5, <1>8, <1>9, <1>10 DEF Applied, Scheduled
<1>12. QED  BY <1>3, <1>9, <1>11

(* The blocks of the model are blocks. *)
LEMMA BlocksValid ==
  ASSUME NEW s, Sound(s), NEW b \in Blocks(s)
  PROVE  b \in Block /\ b.version = Version[b.witness] /\ Valid(s, b)
<1>1. s.time \in Nat /\ s.sched \in Seq(Witness)
  BY DEF Sound, ChainState
<1> DEFINE end == Min({MaxTime, s.time + MaxSlots * Interval})
<1>2. end \in Nat
  <2>1. MaxTime \in Nat /\ s.time + MaxSlots * Interval \in Nat
    <3>1. MaxTime \in Nat /\ MaxSlots \in Nat
      BY ProductionAssumption
    <3>2. Interval \in Nat
      BY WitnessAssumption
    <3>3. MaxSlots * Interval \in Nat
      BY <3>1, <3>2
    <3>4. QED  BY <1>1, <3>1, <3>3
  <2>2. {MaxTime, s.time + MaxSlots * Interval} \in SUBSET Nat
    BY <2>1
  <2>3. end \in {MaxTime, s.time + MaxSlots * Interval}
    BY <2>2, LeastOf
  <2>4. QED  BY <2>2, <2>3
<1> HIDE DEF end
<1>3. b \in [time : (s.time + 1)..end, witness : Range(s.sched), version : {0, 1}, op : Ops]
  BY DEF Blocks, end
<1>4. \A t \in (s.time + 1)..end : t \in Nat
  BY <1>1, <1>2
<1>5. \A w \in Range(s.sched) : w \in Witness
  BY <1>1 DEF Range
<1>6. b \in Block
  BY <1>3, <1>4, <1>5 DEF Block
<1>7. QED  BY <1>6 DEF Blocks

(* Blocks do not make a witness that is not idle lose its key, if only the   *)
(* producer may have confirmed more than the head.                           *)
LEMMA BlockKeepsIdlers ==
  ASSUME NEW s, Sound(s), IdleOnly(s), NEW b, b.witness \in Witness, s.wit[b.witness].key,
         \A w \in Witness : s.wit[w].confirmed <= s.num + 1,
         \A w \in Witness : w # b.witness => s.wit[w].confirmed <= s.num,
         NEW x, Sound(x), Applied(s, b, x)
  PROVE  IdleOnly(x) /\ \A w \in Witness : x.wit[w].confirmed <= x.num
<1>1. s.num \in Nat /\ BlocksPerDay \in Nat /\ x.num = s.num + 1
      /\ \A w \in Witness : s.wit[w].confirmed \in Nat
  BY WitnessAssumption DEF Sound, ChainState, WitnessState, Applied
<1>2. ASSUME NEW w \in Witness PROVE x.wit[w].confirmed <= x.num
  <2>1. CASE w = b.witness  BY <1>1, <2>1 DEF Applied
  <2>2. CASE w # b.witness  BY <1>1, <2>2 DEF Applied
  <2>3. QED  BY <2>1, <2>2
<1>3. ASSUME NEW w \in Witness \ Resigning
      PROVE  x.wit[w].key \/ x.num - x.wit[w].confirmed > BlocksPerDay
  <2>1. CASE w = b.witness
    <3>1. x.wit[w].key = s.wit[w].key
      BY <2>1 DEF Applied
    <3>2. QED  BY <2>1, <3>1
  <2>2. CASE w # b.witness
    <3>1. x.wit[w].confirmed = s.wit[w].confirmed /\ s.wit[w].confirmed <= s.num
      BY <2>2 DEF Applied
    <3>2. \/ x.wit[w].key = s.wit[w].key
          \/ Idle(s, w)
      BY <2>2 DEF Applied
    <3>3. CASE Idle(s, w)
      <4>1. s.num - s.wit[w].confirmed > BlocksPerDay
        BY <1>1, <3>1, <3>3 DEF Idle
      <4>2. QED  BY <1>1, <3>1, <4>1
    <3>4. CASE x.wit[w].key = s.wit[w].key
      <4>1. CASE s.wit[w].key
        BY <3>4, <4>1
      <4>2. CASE s.num - s.wit[w].confirmed > BlocksPerDay
        BY <1>1, <3>1, <4>2
      <4>3. QED  BY <4>1, <4>2 DEF IdleOnly
    <3>5. QED  BY <3>2, <3>3, <3>4
  <2>3. QED  BY <2>1, <2>2
<1>4. QED  BY <1>2, <1>3 DEF IdleOnly

-----------------------------------------------------------------------------
(* The steps.                                                                *)

(* The state the chain begins with. *)
LEMMA GenesisSound ==
  Sound(GenesisState) /\ IdleOnly(GenesisState) /\ Confirmed(GenesisState, NoBlock)
<1> DEFINE s == GenesisState
           ones == [i \in 1..Window |-> 1]
           first(w) == [votes |-> InitVotes[w], key |-> TRUE, pos |-> 0, last |-> 0,
                        vsched |-> LapLength \div (InitVotes[w] + 1),
                        confirmed |-> 0, version |-> 0, vote |-> 0]
           wit == [w \in Witness |-> first(w)]
<1>1. /\ s.num = 0 /\ s.time = 0 /\ s.aslot = 0 /\ s.sched = <<1>> /\ s.vtime = 0
      /\ s.filled = ones /\ s.participation = Window /\ s.applied = 0 /\ s.next = 0
      /\ s.wit = wit
  BY DEF GenesisState
<1>2. ASSUME NEW w \in Witness
      PROVE  first(w) \in WitnessState /\ Lap(first(w), 0)
  <2>1. PICK n \in Nat, q \in Nat : n = InitVotes[w] /\ q = LapLength \div (n + 1) /\ q <= LapLength
    BY WitnessAssumption, LapFits
  <2>2. PICK y : y = [votes |-> n, key |-> TRUE, pos |-> 0, last |-> 0, vsched |-> q,
                      confirmed |-> 0, version |-> 0, vote |-> 0]
    OBVIOUS
  <2>3. y \in WitnessState /\ y.votes = n /\ y.pos = 0 /\ y.last = 0 /\ y.vsched = q
    BY <2>2 DEF WitnessState
  <2>4. y.vsched = 0 + LapLength \div (y.votes + 1) /\ y.vsched <= LapLength
    BY <2>1, <2>3
  <2>5. Lap(y, 0)
    BY <2>3, <2>4, LapFromStart
  <2>6. QED  BY <2>1, <2>2, <2>3, <2>5
<1>3. \A w \in Witness : /\ first(w).key = TRUE /\ first(w).confirmed = 0 /\ first(w).vote = 0
  OBVIOUS
<1> HIDE DEF first
<1>4. Window \in Nat /\ 1 \in Witness /\ Interval \in Nat \ {0}
  BY WitnessAssumption
<1>5. wit \in [Witness -> WitnessState] /\ \A w \in Witness : s.wit[w] = first(w)
  BY <1>1, <1>2
<1>6. ones \in Seq({0, 1}) /\ Len(ones) = Window
  BY <1>4
<1>7. Ones(ones) = Window
  <2>1. {i \in DOMAIN ones : ones[i] = 1} = 1..Window
    BY <1>4
  <2>2. Cardinality(1..Window) = Window
    BY <1>4, FS_Interval
  <2>3. QED  BY <2>1, <2>2 DEF Ones
<1>8. <<1>> \in Seq(Witness) /\ <<1>> # <<>> /\ IsInjective(<<1>>)
  BY <1>4 DEF IsInjective
<1>9. s \in ChainState
  BY <1>4, <1>5, <1>6, <1>8 DEF GenesisState, ChainState, first
<1> HIDE DEF s, ones, wit
<1>10. Laps(s)
  BY <1>1, <1>2, <1>5 DEF Laps
<1>11. Slots(s)
  <2>1. 0 \div Interval = 0
    <3>1. 0 * Interval <= 0 /\ 0 < 0 * Interval + Interval
      BY <1>4
    <3>2. QED  BY <1>4, <3>1, OneQuotient
  <2>2. QED  BY <1>1, <1>6, <1>7, <2>1 DEF Slots
<1>12. Backed(s)
  <2>1. Voters(s) = {}
    BY <1>3, <1>5 DEF Voters
  <2>2. QED  BY <1>1, <2>1 DEF Backed
<1>13. Round(s)
  BY <1>1, <1>8 DEF Round
<1>14. IdleOnly(s) /\ Confirmed(s, NoBlock)
  BY <1>1, <1>3, <1>5 DEF IdleOnly, Confirmed
<1>15. QED  BY <1>9, <1>10, <1>11, <1>12, <1>13, <1>14 DEF Sound, s

(* The block _generate_block() makes. *)
Own == [time |-> node.time, witness |-> node.witness, version |-> Version[node.witness], op |-> NoOp]

(* What _generate_block() signs is a block of the slot it found. *)
LEMMA OwnIsBlock ==
  ASSUME Producing
  PROVE  /\ Own \in Block /\ Own.version = Version[Own.witness] /\ Allowed(st, Own.op)
         /\ Own.witness = node.witness /\ Own.time = node.time /\ Own.op = NoOp
<1>1. node.time \in Nat /\ node.witness \in Witness /\ Version[node.witness] \in {0, 1}
  BY ProductionAssumption DEF Producing, Locals
<1>2. NoOp \in Ops
  BY DEF Ops
<1>3. NoOp.kind # "vote"
  BY DEF NoOp
<1>4. QED  BY <1>1, <1>2, <1>3 DEF Own, Block, Allowed

(* A block that is pushed leads from one sound state to another. *)
LEMMA PushKeeps ==
  ASSUME Chain, NEW b \in Block, b.version = Version[b.witness], Valid(st, b), push_block(b)
  PROVE  Sound(st') /\ Sound(base') /\ events' \in Nat /\ Applied(st, b, st') /\ st.wit[b.witness].key
<1>1. st' \in After(st, b) /\ base' = st /\ Sound(st)
  BY DEF push_block, Chain
<1>2. PICK x \in After(st, b) : x = st'
  BY <1>1
<1>3. Sound(x) /\ Applied(st, b, x) /\ st.wit[b.witness].key
  BY <1>1, BlockKeeps
<1>4. events' \in Nat
  BY DEF push_block, Chain
<1>5. QED  BY <1>1, <1>2, <1>3, <1>4

(* So do the two blocks of a fork. *)
LEMMA ForkKeeps ==
  ASSUME Sound(base), SwitchFork
  PROVE  /\ Sound(st') /\ Sound(base')
         /\ \E b, c \in Block : /\ Applied(base, b, base') /\ base.wit[b.witness].key
                                /\ Applied(base', c, st') /\ base'.wit[c.witness].key
<1>1. PICK b \in Blocks(base) : \E mid \in After(base, b) :
         \E c \in Blocks(mid) : st' \in After(mid, c) /\ base' = mid
  BY DEF SwitchFork
<1>2. PICK mid \in After(base, b) : \E c \in Blocks(mid) : st' \in After(mid, c) /\ base' = mid
  BY <1>1
<1>3. PICK c \in Blocks(mid) : st' \in After(mid, c) /\ base' = mid
  BY <1>2
<1>4. b \in Block /\ Sound(mid) /\ Applied(base, b, mid) /\ base.wit[b.witness].key
  BY BlocksValid, BlockKeeps
<1>5. PICK x \in After(mid, c) : x = st'
  BY <1>3
<1>6. c \in Block /\ Sound(x) /\ Applied(mid, c, x) /\ mid.wit[c.witness].key
  BY <1>4, BlocksValid, BlockKeeps
<1>7. QED  BY <1>3, <1>4, <1>5, <1>6

(* An early confirm message only counts for its witness. *)
Confirming(s, b, x) ==
  /\ x.num = s.num /\ x.time = s.time
  /\ \A w \in Witness : /\ x.wit[w].key = s.wit[w].key
                        /\ w # b.witness => x.wit[w].confirmed = s.wit[w].confirmed
  /\ x.wit[b.witness].confirmed = IF s.wit[b.witness].confirmed > s.num + 1
                                    THEN s.wit[b.witness].confirmed ELSE s.num + 1

(* The head's confirmation keeps the chain sound. *)
LEMMA ConfirmKeeps ==
  ASSUME Chain, confirm_block
  PROVE  /\ Sound(st') /\ base' = base /\ events' \in Nat
         /\ \E b \in Block : /\ announced' = b /\ Confirming(st, b, st') /\ Valid(st, b)
<1>1. PICK b \in Blocks(st) :
         /\ st' = [st EXCEPT !.wit[b.witness].confirmed = IF @ > st.num + 1 THEN @ ELSE st.num + 1]
         /\ announced' = b
  BY DEF confirm_block
<1>2. b \in Block /\ b.witness \in Witness /\ Valid(st, b)
  BY BlocksValid DEF Chain, Block
<1>3. PICK n \in Nat : n = st.num + 1
  BY SMTT(40) DEF Chain, Sound, ChainState
<1>4. PICK x : x = [st EXCEPT !.wit[b.witness].confirmed = IF @ > n THEN @ ELSE n]
  OBVIOUS
<1>5. /\ Sound(x) /\ SameChain(st, x)
      /\ \A w \in Witness : /\ x.wit[w].key = st.wit[w].key
                            /\ w # b.witness => x.wit[w].confirmed = st.wit[w].confirmed
      /\ x.wit[b.witness].confirmed = IF st.wit[b.witness].confirmed > n
                                        THEN st.wit[b.witness].confirmed ELSE n
  BY <1>2, <1>4, ConfirmedSet DEF Chain
<1>6. Confirming(st, b, x)
  BY <1>3, <1>5 DEF Confirming, SameChain
<1>7. st' = x
  BY <1>1, <1>3, <1>4
<1>8. base' = base /\ events' \in Nat
  BY DEF confirm_block, Chain
<1>9. QED  BY <1>1, <1>2, <1>5, <1>6, <1>7, <1>8

(* The steps of maybe_produce_block() itself. *)
Reads == Wake \/ ReadSlot \/ AssertTime \/ ReadWitness \/ ReadTime \/ ReadKey \/ ReadRate

(* They only change its locals. *)
LEMMA ReadsOnly == Reads => UNCHANGED <<chainVars, signed, refused>>
BY DEF Reads, Wake, ReadSlot, AssertTime, ReadWitness, ReadTime, ReadKey, ReadRate

(* What the steps of the producer's thread leave alone. *)
LEMMA GenerateCases ==
  ASSUME Producing, _generate_block
  PROVE  \/ UNCHANGED chainVars
         \/ Valid(st, Own) /\ push_block(Own)
<1>1. \/ UNCHANGED chainVars
      \/ Failing(st, Own) = {} /\ push_block(Own)
  BY DEF _generate_block, Own
<1>2. QED  BY <1>1, OwnIsBlock DEF Valid

(* Every state of the chain is sound, and so is the one before it. *)
LEMMA ChainKeeps ==
  ASSUME Chain, Producing, Next
  PROVE  Chain'
<1>1. CASE Receive
  <2>1. PICK b \in Blocks(st) : push_block(b)
    BY <1>1 DEF Receive
  <2>2. Sound(st') /\ Sound(base') /\ events' \in Nat
    BY <2>1, BlocksValid, PushKeeps DEF Chain
  <2>3. QED  BY <2>2 DEF Chain
<1>2. CASE SwitchFork
  <2>1. Sound(st') /\ Sound(base')
    BY <1>2, ForkKeeps DEF Chain
  <2>2. events' \in Nat
    BY <1>2 DEF SwitchFork, Chain
  <2>3. QED  BY <2>1, <2>2 DEF Chain
<1>3. CASE confirm_block
  BY <1>3, ConfirmKeeps DEF Chain
<1>4. CASE Reads
  <2>1. UNCHANGED chainVars
    BY <1>4, ReadsOnly
  <2>2. QED  BY <2>1 DEF Chain, chainVars
<1>5. CASE _generate_block
  <2>1. CASE UNCHANGED chainVars
    BY <2>1 DEF Chain, chainVars
  <2>2. CASE Valid(st, Own) /\ push_block(Own)
    <3>1. PICK b \in Block : b = Own /\ b.version = Version[b.witness]
      BY OwnIsBlock
    <3>2. Sound(st') /\ Sound(base') /\ events' \in Nat
      BY <2>2, <3>1, PushKeeps
    <3>3. QED  BY <3>2 DEF Chain
  <2>3. QED  BY <1>5, <2>1, <2>2, GenerateCases
<1>6. QED  BY <1>1, <1>2, <1>3, <1>4, <1>5 DEF Next, Reads

(* Two calls round to the same second only within half a second. *)
LEMMA RoundedTwice ==
  ASSUME NEW a \in Nat, NEW c \in Nat, a < c, Rounded(a) = Rounded(c)
  PROVE  a % 2 = 1 /\ c = a + 1
BY DEF Rounded

(* The locals of maybe_produce_block(): what is queued is for this second. *)
LEMMA ProducingKeeps ==
  ASSUME Chain, Producing, Next
  PROVE  Producing'
<1>1. node \in Locals /\ node.fine \in Nat /\ st \in ChainState /\ 1 \in Witness
  BY WitnessAssumption DEF Producing, Locals, Chain, Sound
<1>2. Now \in Nat
  BY <1>1 DEF Now, Rounded
<1>3. ASSUME Sleep
      PROVE  node' \in Locals /\ node'.pc = "sleep" /\ node'.fine = node.fine
  BY <1>1, <1>3 DEF Sleep, Locals
<1>4. CASE Sleep
  BY <1>3, <1>4 DEF Producing
<1>5. CASE UNCHANGED node
  BY <1>5 DEF Producing, Now
<1>6. CASE Wake
  <2>1. PICK fine \in NextTick..(2 * MaxTime), enabled \in BOOLEAN :
          node' = [node EXCEPT !.fine = fine, !.enabled = enabled,
                               !.pc = IF enabled THEN "slot" ELSE "sleep"]
    <3>1. PICK fine \in NextTick..(2 * MaxTime) :
            LET enabled == node.enabled \/ get_slot_time(st, 1) >= Rounded(fine)
            IN  node' = [node EXCEPT !.fine = fine, !.enabled = enabled,
                                     !.pc = IF enabled THEN "slot" ELSE "sleep"]
      BY <1>6 DEF Wake
    <3>2. PICK enabled \in BOOLEAN : enabled = (node.enabled \/ get_slot_time(st, 1) >= Rounded(fine))
      OBVIOUS
    <3>3. QED  BY <3>1, <3>2
  <2>2. fine \in Nat
    BY <1>1, ProductionAssumption DEF NextTick
  <2>3. node' \in Locals /\ node'.pc \in {"slot", "sleep"}
    BY <1>1, <2>1, <2>2 DEF Locals
  <2>4. QED  BY <2>3 DEF Producing
<1>7. CASE ReadSlot
  <2>1. PICK slot \in Nat : slot = get_slot_at_time(st, Now)
    BY <1>1, <1>2, SlotCount
  <2>2. Sleep \/ node' = [node EXCEPT !.pc = "assert", !.slot = slot]
    BY <1>7, <2>1 DEF ReadSlot
  <2>3. node' = [node EXCEPT !.pc = "assert", !.slot = slot] => node' \in Locals /\ node'.pc = "assert"
    BY <1>1 DEF Locals
  <2>4. QED  BY <1>4, <2>2, <2>3 DEF Producing
<1>8. CASE AssertTime
  <2>1. node' \in Locals /\ node'.pc \in {"witness", "aborted"}
    BY <1>1, <1>8 DEF AssertTime, Locals
  <2>2. QED  BY <2>1 DEF Producing
<1>9. CASE ReadWitness
  <2>1. Sleep \/ \E w \in Mine : node' = [node EXCEPT !.pc = "time", !.witness = w]
    BY <1>9 DEF ReadWitness
  <2>2. ASSUME NEW w \in Mine, node' = [node EXCEPT !.pc = "time", !.witness = w]
        PROVE  Producing'
    <3>1. node' \in Locals /\ node'.pc = "time" /\ node'.witness = w
      BY <1>1, <2>2, ProductionAssumption DEF Locals
    <3>2. QED  BY <3>1 DEF Producing
  <2>3. QED  BY <1>4, <2>1, <2>2
<1>10. CASE ReadTime
  <2>1. PICK t \in Nat : t = get_slot_time(st, node.slot)
    BY <1>1, FirstSlot DEF Locals
  <2>2. node' = [node EXCEPT !.pc = "key", !.time = t] /\ node.pc = "time" /\ node.witness \in Mine
    BY <1>10, <2>1 DEF ReadTime, Producing
  <2>3. node' \in Locals /\ node'.pc = "key" /\ node'.witness = node.witness
    BY <1>1, <2>2 DEF Locals
  <2>4. QED  BY <2>2, <2>3 DEF Producing
<1>11. CASE ReadKey
  <2>1. node.pc = "key" /\ node.witness \in Mine
    BY <1>11 DEF ReadKey, Producing
  <2>2. Sleep \/ node' = [node EXCEPT !.pc = "rate"]
    BY <1>11 DEF ReadKey
  <2>3. node' = [node EXCEPT !.pc = "rate"] =>
          node' \in Locals /\ node'.pc = "rate" /\ node'.witness = node.witness
    BY <1>1 DEF Locals
  <2>4. QED  BY <1>4, <2>1, <2>2, <2>3 DEF Producing
<1>12. CASE ReadRate
  <2>1. node.pc = "rate" /\ node.witness \in Mine
    BY <1>12 DEF ReadRate, Producing
  <2>2. Sleep \/ (node.time = Now /\ node' = [node EXCEPT !.pc = "queued"])
    BY <1>12 DEF ReadRate, LagOk
  <2>3. node' = [node EXCEPT !.pc = "queued"] =>
          /\ node' \in Locals /\ node'.pc = "queued" /\ node'.witness = node.witness
          /\ node'.time = node.time /\ node'.fine = node.fine
    BY <1>1 DEF Locals
  <2>4. QED  BY <1>4, <2>1, <2>2, <2>3 DEF Producing, Now
<1>13. QED  BY <1>4, <1>5, <1>6, <1>7, <1>8, <1>9, <1>10, <1>11, <1>12
            DEF Next, Receive, SwitchFork, confirm_block, _generate_block, nodeVars

(* The clock of the calls: it stands still within one, and moves on at the   *)
(* next.                                                                     *)
LEMMA ClockMoves ==
  ASSUME Producing, Reads
  PROVE  \/ node'.fine = node.fine /\ node.pc # "sleep"
         \/ node'.fine \in Nat /\ node.fine < node'.fine
<1>1. node \in Locals /\ node.fine \in Nat
  BY DEF Producing, Locals
<1>2. CASE Wake
  <2>1. PICK fine \in NextTick..(2 * MaxTime) :
          LET enabled == node.enabled \/ get_slot_time(st, 1) >= Rounded(fine)
          IN  node' = [node EXCEPT !.fine = fine, !.enabled = enabled,
                                   !.pc = IF enabled THEN "slot" ELSE "sleep"]
    BY <1>2 DEF Wake
  <2>2. node'.fine = fine
    BY <1>1, <2>1 DEF Locals
  <2>3. fine \in Nat /\ node.fine < fine
    BY <1>1, ProductionAssumption DEF NextTick
  <2>4. QED  BY <2>2, <2>3
<1>3. CASE ReadSlot \/ AssertTime \/ ReadWitness \/ ReadTime \/ ReadKey \/ ReadRate
  <2>1. node.pc # "sleep"
    BY <1>3 DEF ReadSlot, AssertTime, ReadWitness, ReadTime, ReadKey, ReadRate
  <2>2. node'.fine = node.fine
    <3>1. CASE Sleep
      BY <1>1, <3>1 DEF Locals, Sleep
    <3>2. CASE AssertTime
      BY <1>1, <3>2 DEF Locals, AssertTime
    <3>3. CASE ReadTime
      BY <1>1, <3>3 DEF Locals, ReadTime
    <3>4. CASE ReadSlot
      BY <1>1, <3>1, <3>4 DEF Locals, ReadSlot
    <3>5. CASE ReadWitness
      BY <1>1, <3>1, <3>5 DEF Locals, ReadWitness
    <3>6. CASE ReadKey
      BY <1>1, <3>1, <3>6 DEF Locals, ReadKey
    <3>7. CASE ReadRate
      BY <1>1, <3>1, <3>7 DEF Locals, ReadRate
    <3>8. QED  BY <1>3, <3>2, <3>3, <3>4, <3>5, <3>6, <3>7
  <2>3. QED  BY <2>1, <2>2
<1>4. QED  BY <1>2, <1>3 DEF Reads

(* Time only goes back in a fork switch. *)
LEMMA PushedLater ==
  ASSUME Chain, NEW b \in Block, b.version = Version[b.witness], Valid(st, b), push_block(b)
  PROVE  st.time \in Nat /\ st'.time = b.time /\ b.time \in Nat /\ st.time < b.time
<1>1. st'.time = b.time /\ st.time \in Nat /\ b.time \in Nat
  BY PushKeeps DEF Applied, Chain, Sound, ChainState, Block
<1>2. validate_block_header(st, b)
  BY DEF Valid, Failing
<1>3. QED  BY <1>1, <1>2 DEF validate_block_header

(* What is signed stays as it is unless a fork switch comes. *)
LEMMA SignaturesKeep ==
  ASSUME Chain, Producing, Signatures, Next
  PROVE  Signatures'
<1>1. /\ Len(signed) \in Nat /\ DOMAIN signed = 1..Len(signed)
      /\ \A k \in DOMAIN signed : signed[k] \in Signature /\ signed[k].time \in Nat /\ signed[k].at \in Nat
  <2>1. /\ Len(signed) \in Nat /\ DOMAIN signed = 1..Len(signed)
        /\ \A k \in DOMAIN signed : signed[k] \in Signature
    BY DEF Signatures
  <2>2. \A e \in Signature : e.time \in Nat /\ e.at \in Nat
    BY DEF Signature
  <2>3. QED  BY <2>1, <2>2
<1>2. st.time \in Nat /\ node.fine \in Nat /\ node \in Locals
  BY DEF Chain, Sound, ChainState, Producing, Locals
<1>3. ASSUME UNCHANGED <<node, signed>>, st'.time \in Nat, st.time <= st'.time
      PROVE  Signatures'
  <2>1. \A k \in DOMAIN signed : signed[k].time <= st.time => signed[k].time <= st'.time
    BY <1>1, <1>2, <1>3
  <2>2. QED  BY <1>3, <2>1 DEF Signatures, SignedInTurn
<1>4. CASE Receive
  <2>1. PICK b \in Blocks(st) : push_block(b)
    BY <1>4 DEF Receive
  <2>2. st'.time \in Nat /\ st.time <= st'.time
    BY <1>2, <2>1, BlocksValid, PushedLater DEF Chain
  <2>3. QED  BY <1>3, <1>4, <2>2 DEF Receive, nodeVars
<1>5. CASE SwitchFork
  <2>1. PICK q : q = [k \in DOMAIN signed |-> [signed[k] EXCEPT !.gone = TRUE]]
    OBVIOUS
  <2>2. signed' = q /\ UNCHANGED node
    BY <1>5, <2>1 DEF SwitchFork
  <2>3. /\ DOMAIN q = DOMAIN signed
        /\ \A k \in DOMAIN q : /\ q[k] \in Signature /\ q[k].gone
                               /\ q[k].time = signed[k].time /\ q[k].at = signed[k].at
    BY <1>1, <2>1 DEF Signature
  <2>4. q \in Seq(Signature)
    <3>1. q \in [1..Len(signed) -> Signature]
      BY <1>1, <2>1, <2>3
    <3>2. QED  BY <1>1, <3>1
  <2>5. SignedInTurn(q)
    BY <2>3 DEF Signatures, SignedInTurn
  <2>6. \A k \in DOMAIN q : /\ q[k].time = Rounded(q[k].at)
                            /\ q[k].at < node.fine \/ (q[k].at = node.fine /\ node.pc = "sleep")
    BY <2>3 DEF Signatures
  <2>7. QED  BY <2>2, <2>3, <2>4, <2>5, <2>6 DEF Signatures
<1>6. CASE confirm_block
  <2>1. st'.time = st.time
    BY <1>6, ConfirmKeeps DEF Confirming
  <2>2. QED  BY <1>2, <1>3, <1>6, <2>1 DEF confirm_block, nodeVars
<1>7. CASE Reads
  <2>1. UNCHANGED <<st, signed>>
    BY <1>7, ReadsOnly DEF chainVars
  <2>2. \A k \in DOMAIN signed : signed[k].at < node'.fine
    BY <1>1, <1>2, <1>7, ClockMoves DEF Signatures
  <2>3. QED  BY <2>1, <2>2 DEF Signatures, SignedInTurn
<1>8. CASE _generate_block
  <2>1. node.pc = "queued" /\ node.time = Now /\ Sleep
    BY <1>8 DEF _generate_block, Producing
  <2>2. node'.fine = node.fine /\ node'.pc = "sleep"
    BY <1>2, <2>1 DEF Sleep, Locals
  <2>3. \A k \in DOMAIN signed : signed[k].at < node.fine
    BY <2>1 DEF Signatures
  <2>4. CASE UNCHANGED <<chainVars, signed>>
    BY <2>2, <2>3, <2>4 DEF Signatures, SignedInTurn, chainVars
  <2>5. CASE StillMyTurn(Own) /\ \E g \in BOOLEAN :
               /\ signed' = Append(signed, [time |-> node.time, at |-> node.fine, gone |-> g])
               /\ \/ ~g /\ push_block(Own) /\ Valid(st, Own)
                  \/ g /\ UNCHANGED chainVars
    <3>1. PICK g \in BOOLEAN, e \in Signature :
            /\ e = [time |-> node.time, at |-> node.fine, gone |-> g]
            /\ signed' = Append(signed, e)
            /\ \/ ~g /\ push_block(Own) /\ Valid(st, Own)
               \/ g /\ UNCHANGED chainVars
      <4>1. node.time \in Nat
        BY <1>2 DEF Locals
      <4>2. QED  BY <1>2, <2>5, <4>1 DEF Signature
    <3>2. e.time = node.time /\ e.at = node.fine /\ e.gone = g /\ e.time = Rounded(e.at)
      BY <2>1, <3>1 DEF Now
    <3>3. Own.time = node.time /\ Own.time \in Nat
      BY OwnIsBlock DEF Block
    <3>4. st.time < e.time
      BY <1>2, <2>5, <3>2, <3>3, SlotCount DEF StillMyTurn, Chain, Sound
    <3>5. st'.time \in Nat /\ st.time <= st'.time /\ (e.gone \/ e.time <= st'.time)
      <4>1. CASE ~g
        <5>1. PICK b \in Block : b = Own /\ b.version = Version[b.witness]
          BY OwnIsBlock
        <5>2. st'.time = b.time /\ b.time \in Nat /\ st.time < b.time
          BY <3>1, <4>1, <5>1, PushedLater
        <5>3. e.time = b.time
          BY <3>2, <3>3, <5>1
        <5>4. QED  BY <1>2, <5>2, <5>3
      <4>2. CASE g
        BY <1>2, <3>1, <3>2, <4>2 DEF chainVars
      <4>3. QED  BY <4>1, <4>2
    <3>6. PICK q \in Seq(Signature) : q = signed
      BY DEF Signatures
    <3>7. /\ Append(q, e) \in Seq(Signature) /\ DOMAIN Append(q, e) = 1..(Len(q) + 1)
          /\ Append(q, e)[Len(q) + 1] = e /\ \A k \in 1..Len(q) : Append(q, e)[k] = q[k]
          /\ DOMAIN q = 1..Len(q) /\ Len(q) \in Nat
      OBVIOUS
    <3>8. \A k \in DOMAIN Append(q, e) : k \in 1..Len(q) \/ k = Len(q) + 1
      BY <3>7
    <3>9. SignedInTurn(Append(q, e))
      <4>1. \A j \in 1..Len(q) : q[j].at < e.at /\ (q[j].time = e.time => q[j].gone)
        BY <1>1, <1>2, <2>3, <3>2, <3>4, <3>6, <3>7 DEF Signatures
      <4>2. QED  BY <3>6, <3>7, <3>8, <4>1 DEF Signatures, SignedInTurn
    <3>10. \A k \in 1..Len(q) : /\ q[k].time = Rounded(q[k].at) /\ q[k].at < node'.fine
                                /\ q[k].gone \/ q[k].time <= st'.time
      BY <1>1, <1>2, <2>2, <2>3, <3>5, <3>6 DEF Signatures
    <3>11. signed' = Append(q, e)
      BY <3>1, <3>6
    <3>12. QED  BY <2>2, <3>2, <3>5, <3>7, <3>8, <3>9, <3>10, <3>11 DEF Signatures
  <2>6. QED
    <3>1. Allowed(st, Own.op)
      BY OwnIsBlock
    <3>2. QED  BY <1>8, <2>4, <2>5, <3>1 DEF _generate_block, Own, Valid
<1>9. QED  BY <1>4, <1>5, <1>6, <1>7, <1>8 DEF Next, Reads

(* A block that follows the early confirm message of it, or none. *)
LEMMA PushKeepsIdlers ==
  ASSUME Orderly, Chain, Idlers, NEW b \in Block, b.version = Version[b.witness], Valid(st, b),
         push_block(b)
  PROVE  IdleOnly(st') /\ IdleOnly(base') /\ Confirmed(st', NoBlock) /\ announced' = NoBlock
<1>1. /\ Sound(st) /\ Sound(st') /\ Applied(st, b, st') /\ st.wit[b.witness].key
      /\ base' = st /\ announced' = NoBlock
      /\ announced # NoBlock => b = announced
  BY PushKeeps DEF Chain, push_block
<1>2. st.num \in Nat /\ (\A w \in Witness : st.wit[w].confirmed \in Nat) /\ b.witness \in Witness
  BY <1>1 DEF Sound, ChainState, WitnessState, Block
<1>3. /\ \A w \in Witness : st.wit[w].confirmed <= st.num + 1
      /\ \A w \in Witness : w # b.witness => st.wit[w].confirmed <= st.num
  BY <1>1, <1>2 DEF Idlers, Confirmed
<1>4. PICK x : x = st'
  OBVIOUS
<1>5. IdleOnly(x) /\ \A w \in Witness : x.wit[w].confirmed <= x.num
  BY <1>1, <1>2, <1>3, <1>4, BlockKeepsIdlers DEF Idlers
<1>6. QED  BY <1>1, <1>4, <1>5 DEF Idlers, Confirmed

(* Witnesses only lose their key when they are idle. *)
LEMMA IdlersKeep ==
  ASSUME Orderly, Chain, Producing, Idlers, Next
  PROVE  Idlers'
<1>1. CASE Receive
  <2>1. PICK b \in Blocks(st) : push_block(b)
    BY <1>1 DEF Receive
  <2>2. b \in Block /\ b.version = Version[b.witness] /\ Valid(st, b)
    BY BlocksValid DEF Chain
  <2>3. QED  BY <2>1, <2>2, PushKeepsIdlers DEF Idlers
<1>2. CASE SwitchFork
  <2>1. PICK x, m : x = st' /\ m = base'
    OBVIOUS
  <2>2. /\ Sound(base) /\ IdleOnly(base) /\ Sound(m) /\ Sound(x)
        /\ announced = NoBlock /\ announced' = announced
        /\ \A w \in Witness : base.wit[w].confirmed <= base.num
    BY <1>2, <2>1, ForkKeeps DEF SwitchFork, Chain, Idlers
  <2>3. PICK b \in Block, c \in Block : /\ Applied(base, b, m) /\ base.wit[b.witness].key
                                        /\ Applied(m, c, x) /\ m.wit[c.witness].key
    BY <1>2, <2>1, <2>2, ForkKeeps
  <2>4. b.witness \in Witness /\ c.witness \in Witness
    BY DEF Block
  <2>5. /\ base.num \in Nat /\ m.num \in Nat
        /\ \A w \in Witness : base.wit[w].confirmed \in Nat /\ m.wit[w].confirmed \in Nat
    BY <2>2 DEF Sound, ChainState, WitnessState
  <2>6. \A w \in Witness : base.wit[w].confirmed <= base.num + 1
    BY <2>2, <2>5
  <2>7. IdleOnly(m) /\ \A w \in Witness : m.wit[w].confirmed <= m.num
    BY <2>2, <2>3, <2>4, <2>6, BlockKeepsIdlers
  <2>8. \A w \in Witness : m.wit[w].confirmed <= m.num + 1
    BY <2>5, <2>7
  <2>9. IdleOnly(x) /\ \A w \in Witness : x.wit[w].confirmed <= x.num
    BY <2>2, <2>3, <2>4, <2>7, <2>8, BlockKeepsIdlers
  <2>10. QED  BY <2>1, <2>2, <2>7, <2>9 DEF Idlers, Confirmed
<1>3. CASE confirm_block
  <2>1. PICK b \in Block : announced' = b /\ Confirming(st, b, st') /\ Valid(st, b)
    BY <1>3, ConfirmKeeps
  <2>2. announced = NoBlock /\ base' = base /\ IdleOnly(st) /\ IdleOnly(base)
        /\ \A w \in Witness : st.wit[w].confirmed <= st.num
    BY <1>3 DEF confirm_block, Idlers, Confirmed
  <2>3. validate_block_header(st, b)
    BY <2>1 DEF Valid, Failing
  <2>4. st.wit[b.witness].key /\ b # NoBlock /\ b.witness \in Witness
    <3>1. st.time \in Nat /\ st.time < b.time /\ b.witness \in Witness
      BY <2>3 DEF validate_block_header, Chain, Sound, ChainState, Block
    <3>2. NoBlock.time = 0
      BY DEF NoBlock
    <3>3. b.time # 0
      BY <3>1
    <3>4. QED  BY <2>3, <3>1, <3>2, <3>3 DEF validate_block_header
  <2>5. st.num \in Nat /\ \A w \in Witness : st.wit[w].confirmed \in Nat
    BY DEF Chain, Sound, ChainState, WitnessState
  <2>6. PICK x : x = st'
    OBVIOUS
  <2>7. Confirming(st, b, x)
    BY <2>1, <2>6
  <2>8. IdleOnly(x)
    BY <2>2, <2>4, <2>7 DEF IdleOnly, Confirming
  <2>9. Confirmed(x, b)
    <3> SUFFICES ASSUME NEW w \in Witness
                 PROVE  \/ x.wit[w].confirmed <= x.num
                        \/ b # NoBlock /\ w = b.witness /\ x.wit[w].confirmed <= x.num + 1
      BY DEF Confirmed
    <3>1. CASE w = b.witness
      BY <2>2, <2>4, <2>5, <2>7, <3>1 DEF Confirming
    <3>2. CASE w # b.witness
      BY <2>2, <2>7, <3>2 DEF Confirming
    <3>3. QED  BY <3>1, <3>2
  <2>10. QED  BY <2>1, <2>2, <2>4, <2>6, <2>8, <2>9 DEF Idlers
<1>4. CASE Reads
  <2>1. UNCHANGED chainVars
    BY <1>4, ReadsOnly
  <2>2. QED  BY <2>1 DEF Idlers, chainVars
<1>5. CASE _generate_block
  <2>1. CASE UNCHANGED chainVars
    BY <2>1 DEF Idlers, chainVars
  <2>2. CASE Valid(st, Own) /\ push_block(Own)
    <3>1. PICK b \in Block : b = Own /\ b.version = Version[b.witness]
      BY OwnIsBlock
    <3>2. QED  BY <2>2, <3>1, PushKeepsIdlers DEF Idlers
  <2>3. QED  BY <1>5, <2>1, <2>2, GenerateCases
<1>6. QED  BY <1>1, <1>2, <1>3, <1>4, <1>5 DEF Next, Reads

(* The assertions of _generate_block() leave one that can fail: the blocks   *)
(* of a node whose binary knows the hardfork are on time and in its turn.    *)
LEMMA OwnFailures ==
  ASSUME Chain, Producing, \A w \in Mine : Version[w] = 1, _generate_block,
         OwnBlocksApply
  PROVE  OwnBlocksApply'
<1>1. CASE UNCHANGED refused
  BY <1>1 DEF OwnBlocksApply
<1>2. CASE StillMyTurn(Own) /\ refused' = refused \cup Failing(st, Own)
  <2>1. Sound(st) /\ st \in ChainState /\ st.applied \in {0, 1} /\ Own.time \in Nat
    BY OwnIsBlock DEF Chain, Sound, ChainState, Block
  <2>2. get_slot_at_time(st, Own.time) > 0
    BY <1>2 DEF StillMyTurn
  <2>3. st.time < Own.time
    BY <2>1, <2>2, SlotCount
  <2>4. validate_block_header(st, Own)
    BY <1>2, <2>2, <2>3 DEF StillMyTurn, validate_block_header
  <2>5. node.pc = "queued" /\ node.witness \in Mine
    BY DEF _generate_block, Producing
  <2>6. PICK b \in Block : b = Own /\ b.version = Version[b.witness] /\ b.version = 1
    BY <2>5, OwnIsBlock
  <2>7. process_header_extensions(st, b).wit[b.witness].version = b.version
    BY <2>1, <2>6, ExtensionsKeep
  <2>8. ~(process_header_extensions(st, b).wit[b.witness].version < st.applied)
    BY <2>1, <2>6, <2>7
  <2>9. Failing(st, b) \subseteq {"schedule"}
    BY <2>4, <2>6, <2>8 DEF Failing
  <2>10. QED  BY <1>2, <2>6, <2>9 DEF OwnBlocksApply
<1>3. QED  BY <1>1, <1>2 DEF _generate_block, Own

-----------------------------------------------------------------------------
(* The chain and the producer together. *)
Inv == Chain /\ Producing /\ Signatures /\ refused \subseteq {"header", "version", "schedule"}

(* Genesis satisfies the invariant. *)
LEMMA InitInv == Init => Inv
<1> SUFFICES ASSUME Init PROVE Inv
  OBVIOUS
<1>1. Chain
  BY GenesisSound DEF Init, Chain
<1>2. Producing
  <2>1. node \in Locals /\ node.pc = "sleep"
    BY WitnessAssumption DEF Init, Locals
  <2>2. QED  BY <2>1 DEF Producing
<1>3. Signatures
  <2>1. DOMAIN signed = {} /\ signed \in Seq(Signature)
    BY DEF Init
  <2>2. QED  BY <2>1 DEF Signatures, SignedInTurn
<1>4. QED  BY <1>1, <1>2, <1>3 DEF Inv, Init

(* Every step of the chain, the network and the producer keeps the invariant. *)
LEMMA NextInv == Inv /\ [Next]_vars => Inv'
<1> SUFFICES ASSUME Inv, [Next]_vars PROVE Inv'
  OBVIOUS
<1>1. CASE Next
  <2>1. Chain' /\ Producing' /\ Signatures'
    BY <1>1, ChainKeeps, ProducingKeeps, SignaturesKeep DEF Inv
  <2>2. refused' \subseteq {"header", "version", "schedule"}
    <3>1. CASE UNCHANGED refused
      BY <3>1 DEF Inv
    <3>2. CASE refused' = refused \cup Failing(st, Own)
      BY <3>2 DEF Inv, Failing
    <3>3. CASE Reads
      BY <3>1, <3>3, ReadsOnly
    <3>4. QED  BY <1>1, <3>1, <3>2, <3>3 DEF Next, Reads, Receive, SwitchFork, confirm_block,
                  _generate_block, nodeVars, Own
  <2>3. QED  BY <2>1, <2>2 DEF Inv
<1>2. CASE UNCHANGED vars
  BY <1>2 DEF vars, chainVars, nodeVars, Inv, Chain, Producing, Signatures, Now
<1>3. QED  BY <1>1, <1>2

(* Nobody in the virtual schedule is passed over: for any votes that move at *)
(* any time, the virtual time never passes a witness that is due, and no     *)
(* witness runs further than its lap.                                        *)
THEOREM LapsAlwaysKept == Spec => []LapsKept
<1>1. Inv => LapsKept
  <2> SUFFICES ASSUME Sound(st), NEW w \in Witness
               PROVE  LET x == st.wit[w] IN
                        /\ st.vtime <= x.vsched /\ x.vsched <= LapLength
                        /\ x.pos + x.votes * (st.vtime - x.last) <= LapLength
    BY DEF Inv, Chain, LapsKept
  <2>1. PICK x \in WitnessState, now \in Nat : x = st.wit[w] /\ now = st.vtime /\ Lap(x, now)
    BY DEF Sound, ChainState, Laps
  <2>2. LapLength \in Nat
    BY WitnessAssumption
  <2>3. PICK p, d, r : /\ p = x.pos + x.votes * (now - x.last)
                       /\ d = now + (LapLength - p) \div (0 + 1)
                       /\ r = IF d > LapLength THEN LapLength ELSE d
    OBVIOUS
  <2>4. p \in Nat /\ r \in Nat /\ now <= r /\ p + 0 * (r - now) <= LapLength
    BY <2>1, <2>3, LapAdjusted, SMTT(40)
  <2>5. p <= LapLength
    BY <2>2, <2>4
  <2>6. now <= x.vsched /\ x.vsched <= LapLength
    BY <2>1 DEF Lap
  <2>7. QED  BY <2>1, <2>3, <2>5, <2>6
<1>2. QED  BY InitInv, NextInv, <1>1, PTL DEF Spec

(* Whatever blocks and fork switches come between the calls and between the  *)
(* reads of one, this node signs a second block for the same time only when  *)
(* the first is gone, and by a call half a second after the one that signed  *)
(* it.                                                                       *)
THEOREM AlwaysSignsAgainOnlyAtOnce == Spec => []SignsAgainOnlyAtOnce
<1>1. Inv => SignsAgainOnlyAtOnce
  <2> SUFFICES ASSUME Signatures, NEW j \in DOMAIN signed, NEW k \in DOMAIN signed,
                      j < k, signed[j].time = signed[k].time
               PROVE  /\ signed[j].gone
                      /\ signed[j].at % 2 = 1 /\ signed[k].at = signed[j].at + 1
    BY DEF Inv, SignsAgainOnlyAtOnce
  <2>1. signed[j].at < signed[k].at /\ signed[j].gone
    BY DEF Signatures, SignedInTurn
  <2>2. PICK a \in Nat, c \in Nat : a = signed[j].at /\ c = signed[k].at
    <3>1. signed[j] \in Signature /\ signed[k] \in Signature
      BY DEF Signatures
    <3>2. signed[j].at \in Nat /\ signed[k].at \in Nat
      BY <3>1 DEF Signature
    <3>3. QED  BY <3>2
  <2>3. Rounded(a) = Rounded(c) /\ a < c
    BY <2>1, <2>2 DEF Signatures
  <2>4. a % 2 = 1 /\ c = a + 1
    BY <2>3, RoundedTwice
  <2>5. QED  BY <2>1, <2>2, <2>4
<1>2. QED  BY InitInv, NextInv, <1>1, PTL DEF Spec

(* What _generate_block() lets through applies, but for a round that has too *)
(* few witnesses with a key, when the node's own binary knows the hardfork.  *)
THEOREM OwnBlocksAlwaysApply ==
  ASSUME \A w \in Mine : Version[w] = 1
  PROVE  Spec => []OwnBlocksApply
<1>1. Init => Inv /\ OwnBlocksApply
  BY InitInv DEF Init, OwnBlocksApply
<1>2. Inv /\ OwnBlocksApply /\ [Next]_vars => Inv' /\ OwnBlocksApply'
  <2> SUFFICES ASSUME Inv, OwnBlocksApply, [Next]_vars PROVE OwnBlocksApply'
    BY NextInv
  <2>1. CASE _generate_block
    BY <2>1, OwnFailures DEF Inv
  <2>2. CASE ~_generate_block
    <3>1. UNCHANGED refused
      BY <2>2, ReadsOnly DEF Next, Reads, Receive, SwitchFork, confirm_block, vars, nodeVars
    <3>2. QED  BY <3>1 DEF OwnBlocksApply
  <2>3. QED  BY <2>1, <2>2
<1>3. QED  BY <1>1, <1>2, PTL DEF Spec

(* For any witnesses, votes, resignations, blocks between two slot times and *)
(* forks: every witness of a round has one slot of it, slots, clock and      *)
(* participation agree, no hardfork is applied without its votes and, when   *)
(* early confirm messages are followed by their block, only idle witnesses   *)
(* lose their key.                                                           *)
THEOREM ScheduleAlwaysSound == ASSUME Orderly PROVE Spec => []ScheduleSound
<1>1. Init => Inv /\ Idlers
  BY InitInv, GenesisSound DEF Init, Idlers
<1>2. Inv /\ Idlers /\ [Next]_vars => Inv' /\ Idlers'
  <2> SUFFICES ASSUME Inv, Idlers, [Next]_vars PROVE Idlers'
    BY NextInv
  <2>1. CASE Next
    BY <2>1, IdlersKeep DEF Inv
  <2>2. CASE UNCHANGED vars
    BY <2>2 DEF vars, chainVars, Idlers
  <2>3. QED  BY <2>1, <2>2
<1>3. Inv /\ Idlers => ScheduleSound
  <2> SUFFICES ASSUME Inv, Idlers PROVE ScheduleSound
    OBVIOUS
  <2>1. Sound(st) /\ st \in ChainState
    BY DEF Inv, Chain, Sound
  <2>2. TypeOK
    <3>1. /\ st.wit \in [Witness -> WitnessState] /\ st.sched \in Seq(Witness)
          /\ {st.num, st.time, st.aslot, st.vtime, st.participation, st.size} \subseteq Nat
          /\ {st.applied, st.next, st.majority} \subseteq {0, 1}
      BY <2>1 DEF ChainState
    <3>2. Len(st.filled) = Window
      BY <2>1 DEF Sound, Slots
    <3>3. /\ node.pc \in {"sleep", "slot", "assert", "witness", "time", "key", "rate", "queued",
                           "aborted"}
          /\ signed \in Seq([time : Nat, at : Nat, gone : BOOLEAN])
      BY DEF Inv, Producing, Locals, Signatures, Signature
    <3>4. QED  BY <3>1, <3>2, <3>3 DEF TypeOK, Inv
  <2>3. OneSlotEach /\ SlotsCounted
    BY <2>1 DEF Sound, Round, Slots, Ones, OneSlotEach, SlotsCounted
  <2>4. HardforkBacked
    BY <2>1 DEF Sound, Backed, Voters, HardforkBacked
  <2>5. ShutdownOnlyIdle
    BY DEF Idlers, IdleOnly, ShutdownOnlyIdle
  <2>6. QED  BY <2>2, <2>3, <2>4, <2>5 DEF ScheduleSound
<1>4. QED  BY <1>1, <1>2, <1>3, PTL DEF Spec
=============================================================================
