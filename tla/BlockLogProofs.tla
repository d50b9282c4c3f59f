--------------------------- MODULE BlockLogProofs ---------------------------
(***************************************************************************)
(* The block log and its index agree for every number of blocks, every     *)
(* number a contract log may start at and any sequence of crashes.         *)
(*                                                                         *)
(* None of the invariants is inductive: open() looks at one position of    *)
(* each file, so what it may conclude rests on what a crash can leave in   *)
(* the index, and a lookup counts from the first entry, so it rests on all *)
(* entries between.  IInv adds both.                                       *)
(***************************************************************************)
EXTENDS BlockLog, Integers, TLAPS

(* Entries are found by counting from the first one. *)
NumbersCount == \A k \in 1..Len(log) : log[k] = log[1] + k - 1

(* Whatever was lost of it, the index is a list of the first positions; it   *)
(* may be longer or shorter than the log.                                    *)
IndexIsPositions == index = Positions(Len(index))

(* What open() has read of the first and the last entry. *)
HeadRight == status = "open" => head = IF log = <<>> THEN 0 ELSE Last(log)
StartRight == status = "open" /\ log # <<>> => start_num = log[1] - 1

IInv ==
  TypeOK /\ NumbersCount /\ IndexIsPositions /\ HeadRight /\ StartRight /\ IndexComplete

-----------------------------------------------------------------------------
(* Facts about lists of positions. *)

(* The first n positions are n numbers, the k-th of them k - 1. *)
LEMMA PositionsType ==
  ASSUME NEW n \in Nat
  PROVE  /\ Positions(n) \in Seq(Nat)
         /\ Len(Positions(n)) = n
         /\ \A k \in 1..n : Positions(n)[k] = k - 1
BY DEF Positions

(* A prefix of the first positions is a list of the first positions. *)
LEMMA PositionsPrefix ==
  ASSUME NEW n \in Nat, NEW j \in 0..n
  PROVE  SubSeq(Positions(n), 1, j) = Positions(j)
BY DEF Positions

(* An append of the next position to the index gives the positions of one block more. *)
LEMMA PositionsAppend ==
  ASSUME NEW n \in Nat
  PROVE  Append(Positions(n), n) = Positions(n + 1)
BY DEF Positions

(* The index of an empty block log is empty. *)
LEMMA PositionsEmpty == Positions(0) = <<>>
BY DEF Positions

(* What TypeOK says of a file: a list of natural numbers. *)
LEMMA ListOfNumbers ==
  ASSUME NEW S \in SUBSET Nat, NEW s \in Seq(S)
  PROVE  /\ Len(s) \in Nat /\ DOMAIN s = 1..Len(s)
         /\ \A k \in 1..Len(s) : s[k] \in S /\ s[k] \in Nat
         /\ s = <<>> <=> Len(s) = 0
<1>1. Len(s) \in Nat /\ DOMAIN s = 1..Len(s)
  OBVIOUS
<1>2. \A k \in 1..Len(s) : s[k] \in S
  OBVIOUS
<1>3. s = <<>> <=> Len(s) = 0
  OBVIOUS
<1>4. QED  BY <1>1, <1>2, <1>3

(* Lengths and entries are natural numbers. *)
LEMMA Numbers ==
  ASSUME TypeOK
  PROVE  /\ Len(log) \in Nat /\ DOMAIN log = 1..Len(log)
         /\ \A k \in 1..Len(log) : log[k] \in 1..MaxNum /\ log[k] \in Nat
         /\ log = <<>> <=> Len(log) = 0
         /\ Len(index) \in Nat /\ DOMAIN index = 1..Len(index)
         /\ \A k \in 1..Len(index) : index[k] \in Nat
         /\ index = <<>> <=> Len(index) = 0
         /\ flushed \in Nat /\ idx_flushed \in Nat /\ head \in Nat /\ start_num \in Nat
<1>1. 1..MaxNum \in SUBSET Nat /\ log \in Seq(1..MaxNum) /\ index \in Seq(Nat)
  BY MaxNumAssumption DEF TypeOK
<1>2. flushed \in Nat /\ idx_flushed \in Nat /\ head \in Nat /\ start_num \in Nat
  BY StartNumsAssumption, MaxNumAssumption, <1>1 DEF TypeOK
<1>3. QED  BY <1>1, <1>2, ListOfNumbers

-----------------------------------------------------------------------------
(* The files and the object of a node that has never run satisfy the invariant. *)
LEMMA InitHolds == Init => IInv
<1> SUFFICES ASSUME Init PROVE IInv
  OBVIOUS
<1>1. /\ log = <<>> /\ index = <<>> /\ Len(log) = 0 /\ Len(index) = 0
      /\ log \in Seq(1..MaxNum) /\ index \in Seq(Nat)
  BY DEF Init
<1>2. TypeOK
  <2>1. flushed = 0 /\ idx_flushed = 0 /\ head = 0 /\ start_num = 0
    BY DEF Init
  <2>2. flushed \in 0..Len(log) /\ idx_flushed \in 0..Len(index) /\ 0 \in 0..MaxNum
    BY <1>1, <2>1, MaxNumAssumption
  <2>3. QED  BY <1>1, <2>1, <2>2 DEF Init, TypeOK
<1>3. QED
  BY <1>1, <1>2, PositionsEmpty
     DEF Init, IInv, NumbersCount, IndexIsPositions, HeadRight, StartRight, IndexComplete

(* open() takes an index for complete exactly when it is: its last position  *)
(* tells its length.                                                         *)
LEMMA OpenKeeps == ASSUME IInv, open PROVE IInv'
<1> USE StartNumsAssumption, MaxNumAssumption
<1>1. TypeOK /\ status = "closed" /\ UNCHANGED <<log, flushed, torn>> /\ status' = "open"
  BY DEF IInv, open
<1> USE Numbers, PositionsEmpty
<1>2. CASE log = <<>>
  <2>1. head' = 0 /\ index' = <<>> /\ idx_flushed' = 0 /\ start_num' = 0
    BY <1>2 DEF open
  <2>2. QED
    BY <1>1, <1>2, <2>1 DEF IInv, TypeOK, NumbersCount, IndexIsPositions, HeadRight,
       StartRight, IndexComplete, Positions
<1>3. CASE log # <<>>
  <2>1. /\ head' = Last(log) /\ start_num' = log[1] - 1
        /\ Len(log) \in Nat \ {0} /\ log[1] \in 1..MaxNum /\ Last(log) \in 1..MaxNum
    BY <1>1, <1>3 DEF open, TypeOK, Last
  <2>2. CASE index # <<>> /\ Last(index) = Len(log) - 1
    <3>1. index' = index /\ idx_flushed' = idx_flushed
      BY <1>3, <2>2 DEF open
    <3>2. Len(index) = Len(log)
      <4>1. Len(index) \in Nat \ {0} /\ index = Positions(Len(index))
        BY <1>1, <2>2 DEF IInv, IndexIsPositions
      <4>2. index[Len(index)] = Len(index) - 1
        BY <4>1, PositionsType, SMTT(40)
      <4>3. QED  BY <2>1, <2>2, <4>1, <4>2 DEF Last
    <3>3. index = Positions(Len(log))
      BY <3>2 DEF IInv, IndexIsPositions
    <3>4. QED
      BY <1>1, <1>3, <2>1, <3>1, <3>3, SMTT(40) DEF IInv, TypeOK, NumbersCount, IndexIsPositions,
         HeadRight, StartRight, IndexComplete
  <2>3. CASE ~(index # <<>> /\ Last(index) = Len(log) - 1)
    <3>1. index' = construct_index /\ idx_flushed' = 0
      BY <1>3, <2>3 DEF open
    <3>2. \/ index' = Positions(Len(log)) /\ Len(index') = Len(log)
          \/ Len(log) = 1 /\ index' = <<>> /\ Len(index') = 0
      <4>1. CASE 0 < Len(log) - 1  BY <2>1, <3>1, <4>1, PositionsType DEF construct_index
      <4>2. CASE ~(0 < Len(log) - 1)
        <5>1. Len(log) = 1
          <6> HIDE Numbers, PositionsEmpty
          <6> DEFINE n == Len(log)
          <6>1. n \in Nat /\ n # 0 /\ ~(0 < n - 1)
            BY <2>1, <4>2
          <6> HIDE DEF n
          <6>2. n = 1  BY <6>1
          <6>3. QED  BY <6>2 DEF n
        <5>2. index' = <<>>  BY <3>1, <4>2 DEF construct_index
        <5>3. QED  BY <5>1, <5>2
      <4>3. QED  BY <4>1, <4>2
    <3>3. index' \in Seq(Nat) /\ index' = Positions(Len(index'))
      BY <2>1, <3>2, PositionsType, ZenonT(40)
    <3>4. Len(index') \in Nat /\ idx_flushed' \in 0..Len(index')
      BY <2>1, <3>1, <3>2
    <3>5. TypeOK'
      BY <1>1, <2>1, <3>3, <3>4, SMTT(40) DEF TypeOK
    <3>6. QED
      BY <1>1, <1>3, <2>1, <3>2, <3>3, <3>5 DEF IInv, NumbersCount, IndexIsPositions,
         HeadRight, StartRight, IndexComplete, Last
  <2>4. QED  BY <2>2, <2>3
<1>4. QED  BY <1>2, <1>3

(* append() refuses the one block that does not fit: the second one after    *)
(* construct_index() has skipped the first.                                  *)
LEMMA AppendKeeps == ASSUME IInv, append_next PROVE IInv'
<1> USE StartNumsAssumption, MaxNumAssumption
<1>1. PICK num \in 1..MaxNum :
        (IF head = 0 THEN num - 1 \in StartNums ELSE num = head + 1) /\ append(num)
  BY DEF append_next
<1>2. /\ TypeOK /\ status = "open" /\ status' = "open"
      /\ log' = Append(log, num) /\ index' = Append(index, Len(log)) /\ head' = num
      /\ UNCHANGED <<flushed, torn, idx_flushed>>
      /\ start_num' = IF log = <<>> THEN num - 1 ELSE start_num
      /\ Len(index) = num - start_num' - 1
  BY <1>1 DEF IInv, append
<1> USE Numbers, PositionsEmpty
<1>3. Len(log) \in Nat /\ Len(index) \in Nat
  BY <1>2
<1>4. index = Positions(Len(log))
  <2>1. CASE log = <<>>
    BY <1>2, <1>3, <2>1 DEF IInv, IndexComplete, Positions
  <2>2. CASE log # <<>>
    <3>1. /\ head = Last(log) /\ start_num = log[1] - 1 /\ Last(log) = log[1] + Len(log) - 1
          /\ log[1] \in 1..MaxNum
      BY <1>2, <1>3, <2>2, SMTT(40) DEF IInv, TypeOK, HeadRight, StartRight, NumbersCount, Last
    <3>2. log[1] \in Nat /\ log[1] > 0 /\ Len(log) > 0 /\ num \in Nat
      <4>1. Len(log) > 0  BY <1>2, <1>3, <2>2
      <4>2. QED  BY <3>1, <4>1
    <3>3. head # 0
      BY <1>3, <3>1, <3>2
    <3>4. num = log[1] + Len(log)
      BY <1>1, <1>3, <3>1, <3>2, <3>3
    <3>5. Len(index) = num - start_num - 1
      BY <1>2, <2>2
    <3>6. Len(index) = Len(log)
      BY <1>3, <3>1, <3>2, <3>4, <3>5, SMTT(40)
    <3>7. QED  BY <1>2, <3>6 DEF IInv, IndexIsPositions
  <2>3. QED  BY <2>1, <2>2
<1>5. index' = Positions(Len(log) + 1) /\ Len(log') = Len(log) + 1 /\ Len(index') = Len(log) + 1
  <2>1. index' = Positions(Len(log) + 1)
    BY <1>2, <1>3, <1>4, PositionsAppend
  <2>2. Len(log') = Len(log) + 1
    BY <1>2 DEF TypeOK
  <2>3. QED  BY <1>3, <2>1, <2>2, PositionsType
<1>6. log' \in Seq(1..MaxNum) /\ log' # <<>> /\ Last(log') = num
  <2>1. log \in Seq(1..MaxNum)
    BY <1>2 DEF TypeOK
  <2>2. log' \in Seq(1..MaxNum) /\ log'[Len(log) + 1] = num
    BY <1>2, <1>3, <2>1
  <2>3. log' # <<>>
    BY <1>3, <1>5, <2>2
  <2>4. QED  BY <1>5, <2>2, <2>3 DEF Last
<1>7. NumbersCount' /\ start_num' = log'[1] - 1
  <2>1. CASE log = <<>>
    BY <1>2, <1>3, <2>1 DEF NumbersCount
  <2>2. CASE log # <<>>
    <3>1. log'[1] = log[1] /\ Len(log) >= 1 /\ log[1] \in Nat
      BY <1>2, <1>3, <2>2 DEF TypeOK
    <3>2. head = log[1] + Len(log) - 1 /\ start_num = log[1] - 1
      BY <1>2, <1>3, <2>2, <3>1 DEF IInv, HeadRight, StartRight, NumbersCount, Last
    <3>3. num = log[1] + Len(log)
      <4>1. log[1] # 0 /\ head # 0
        <5>1. log[1] \in 1..MaxNum
          BY <1>2, <1>3, <2>2, <3>1
        <5>2. QED  BY <1>3, <3>1, <3>2, <5>1
      <4>2. num = head + 1
        BY <1>1, <4>1
      <4>3. QED  BY <1>3, <3>1, <3>2, <4>2
    <3>4. ASSUME NEW k \in 1..Len(log') PROVE log'[k] = log'[1] + k - 1
      <4>1. CASE k \in 1..Len(log)
        BY <1>2, <1>3, <3>1, <4>1 DEF IInv, NumbersCount, TypeOK
      <4>2. CASE k = Len(log) + 1
        BY <1>2, <1>3, <3>1, <3>3, <4>2 DEF TypeOK
      <4>3. QED  BY <1>3, <1>5, <4>1, <4>2
    <3>5. QED  BY <1>2, <2>2, <3>1, <3>2, <3>4 DEF NumbersCount
  <2>3. QED  BY <2>1, <2>2
<1>8. index' \in Seq(Nat)
  BY <1>3, <1>5, PositionsType
<1>9. start_num' \in StartNums \cup (0..MaxNum)
  BY <1>2, <1>6, <1>7 DEF TypeOK
<1>10. flushed' \in 0..Len(log') /\ idx_flushed' \in 0..Len(index')
  <2>1. flushed \in 0..Len(log) /\ idx_flushed \in 0..Len(index) /\ Len(index) = Len(log)
    BY <1>2, <1>3, <1>4, PositionsType DEF TypeOK
  <2>2. QED  BY <1>2, <1>3, <1>5, <2>1
<1>11. TypeOK'
  BY <1>2, <1>6, <1>8, <1>9, <1>10 DEF TypeOK
<1>12. QED
  BY <1>2, <1>5, <1>6, <1>7, <1>11 DEF IInv, IndexIsPositions, HeadRight, StartRight,
     IndexComplete

(* A crash leaves prefixes of both files. *)
LEMMA CrashKeeps == ASSUME IInv, crash PROVE IInv'
<1> USE StartNumsAssumption, MaxNumAssumption
<1>1. PICK k \in flushed..Len(log), j \in idx_flushed..Len(index), t \in BOOLEAN :
        /\ log' = SubSeq(log, 1, k) /\ flushed' = k /\ torn' = t
        /\ index' = SubSeq(index, 1, j) /\ idx_flushed' = j
  BY DEF crash
<1>2. TypeOK /\ head' = 0 /\ start_num' = 0 /\ status' = "closed"
  BY DEF IInv, crash
<1> USE Numbers
<1>3. k \in 0..Len(log) /\ j \in 0..Len(index) /\ Len(log) \in Nat /\ Len(index) \in Nat
  BY <1>1, <1>2 DEF TypeOK
<1>4. log' \in Seq(1..MaxNum) /\ Len(log') = k /\ \A n \in 1..k : log'[n] = log[n]
  BY <1>1, <1>2, <1>3 DEF TypeOK
<1>5. index' = Positions(j) /\ index' \in Seq(Nat) /\ Len(index') = j
  <2>1. index = Positions(Len(index))
    BY DEF IInv, IndexIsPositions
  <2>2. index' = Positions(j)
    BY <1>1, <1>3, <2>1, PositionsPrefix
  <2>3. QED  BY <1>3, <2>2, PositionsType
<1>6. NumbersCount'
  BY <1>3, <1>4 DEF IInv, NumbersCount
<1>7. QED
  BY <1>1, <1>2, <1>3, <1>4, <1>5, <1>6, SMTT(40) DEF IInv, TypeOK, IndexIsPositions, HeadRight,
     StartRight, IndexComplete

(* Every operation of block_log, and a crash at any point of them, keeps the invariant. *)
LEMMA StepKeeps == IInv /\ [Next]_vars => IInv'
<1> SUFFICES ASSUME IInv, [Next]_vars PROVE IInv'
  OBVIOUS
<1> USE StartNumsAssumption, MaxNumAssumption
    DEF IInv, TypeOK, NumbersCount, IndexIsPositions, HeadRight, StartRight, IndexComplete
<1>1. CASE open  BY <1>1, OpenKeeps
<1>2. CASE open_torn  BY <1>2 DEF open_torn, files
<1>3. CASE append_next  BY <1>3, AppendKeeps
<1>4. CASE check_block_read  BY <1>4 DEF check_block_read
<1>5. CASE check_index_read  BY <1>5 DEF check_index_read
<1>6. CASE flush  BY <1>6 DEF flush
<1>7. CASE close  BY <1>7 DEF close
<1>8. CASE crash  BY <1>8, CrashKeeps
<1>9. CASE remove_index  BY <1>9 DEF remove_index, Positions
<1>10. CASE UNCHANGED vars  BY <1>10 DEF vars, Last
<1>11. QED
  BY <1>1, <1>2, <1>3, <1>4, <1>5, <1>6, <1>7, <1>8, <1>9, <1>10 DEF Next

-----------------------------------------------------------------------------
(* For every MaxNum and every set of first blocks: the log has no gaps, its  *)
(* head is its last entry, and an open log has a complete index or is the    *)
(* one-block log that construct_index() skips.                               *)
THEOREM LogAlwaysSound == Spec => []LogSound
<1>1. IInv => LogSound
  <2> SUFFICES ASSUME IInv PROVE LogConsecutive
    BY DEF IInv, LogSound
  <2>1. ASSUME NEW k \in 1..(Len(log) - 1) PROVE log[k + 1] = log[k] + 1
    <3>1. TypeOK /\ k \in 1..Len(log) /\ k + 1 \in 1..Len(log) /\ 1 \in 1..Len(log)
      BY Numbers DEF IInv
    <3>2. log[1] \in Nat /\ log[k] = log[1] + k - 1 /\ log[k + 1] = log[1] + (k + 1) - 1
      BY <3>1, Numbers DEF IInv, NumbersCount
    <3>3. QED  BY <3>1, <3>2
  <2>2. QED  BY <2>1 DEF IInv, LogConsecutive, HeadRight
<1>2. QED  BY InitHolds, StepKeeps, <1>1, PTL DEF Spec

(* read_block_by_num() returns the block asked for or none: the assertion    *)
(* "Wrong block was read from block log." cannot fail.                       *)
THEOREM LookupsAlwaysRight == Spec => []LookupsRight
<1>1. IInv => LookupsRight
  <2> SUFFICES ASSUME IInv, status = "open", NEW num \in 1..MaxNum,
                      read_block_by_num(num) # 0
               PROVE  read_block_by_num(num) = num
    BY DEF LookupsRight
  <2> DEFINE slot == num - start_num
  <2>1. /\ head # 0 /\ num <= head /\ num > start_num /\ slot \in DOMAIN index
        /\ index[slot] + 1 \in DOMAIN log
        /\ read_block_by_num(num) = log[index[slot] + 1]
    BY DEF read_block_by_num
  <2>2. log # <<>> /\ start_num = log[1] - 1
    BY <2>1 DEF IInv, HeadRight, StartRight
  <2>3. /\ Len(index) \in Nat /\ DOMAIN index = 1..Len(index) /\ DOMAIN log = 1..Len(log)
        /\ Len(log) \in Nat /\ log[1] \in Nat /\ slot \in Int
    BY <2>2, MaxNumAssumption DEF IInv, TypeOK
  <2>4. index[slot] = slot - 1
    BY <2>1, <2>3, PositionsType DEF IInv, IndexIsPositions
  <2>5. log[slot] = log[1] + slot - 1
    BY <2>1, <2>3, <2>4 DEF IInv, NumbersCount
  <2>6. QED  BY <2>1, <2>2, <2>3, <2>4, <2>5
<1>2. QED  BY InitHolds, StepKeeps, <1>1, PTL DEF Spec

(* Nothing that was flushed is lost or changed by any step, crashes          *)
(* included.                                                                 *)
THEOREM FlushedAlwaysSurvives == Spec => FlushedSurvives
<1> DEFINE Kept == Len(log') >= flushed /\ SubSeq(log', 1, flushed) = SubSeq(log, 1, flushed)
<1>1. IInv /\ [Next]_vars => [Kept]_vars
  <2> SUFFICES ASSUME IInv, Next PROVE Kept
    OBVIOUS
  <2>1. log \in Seq(1..MaxNum) /\ flushed \in 0..Len(log) /\ Len(log) \in Nat
    BY DEF IInv, TypeOK
  <2>2. CASE log' = log
    BY <2>1, <2>2
  <2>3. CASE append_next
    <3>1. PICK num \in 1..MaxNum : log' = Append(log, num)
      BY <2>3 DEF append_next, append
    <3>2. QED  BY <2>1, <3>1
  <2>4. CASE crash
    <3>1. PICK k \in flushed..Len(log) : log' = SubSeq(log, 1, k)
      BY <2>4 DEF crash
    <3>2. QED  BY <2>1, <3>1
  <2>5. QED
    BY <2>2, <2>3, <2>4 DEF Next, open, open_torn, files, check_block_read, check_index_read,
       flush, close, remove_index
<1>2. QED  BY InitHolds, StepKeeps, <1>1, PTL DEF Spec, FlushedSurvives
=============================================================================
