------------------------- MODULE TrapTerminalProofs --------------------------
(***************************************************************************)
(* Theorems about TrapTerminal for every size of the ring and of the page. *)
(* The ring and what is on its way are runs of numbers that end with the   *)
(* newest (Ring, WireInStep), so that Last-Event-ID cuts the log where the *)
(* page left off, unless it is of an earlier start of the API; shadow says *)
(* what may then be missing (IdInStep), shown what may not come again      *)
(* (ShownInStep).                                                          *)
(*                                                                         *)
(* Sums and sequences of any length are reasoned about by the least number *)
(* that breaks a rule (LeastElement, Induction).                           *)
(***************************************************************************)
EXTENDS TrapTerminal, Integers, SequenceTheorems, WellFoundedInduction, TLAPS

\* s lists the numbers up to top, from some number on.
Run(s, top) ==
    /\ Len(s) <= top
    /\ \A i \in 1..Len(s) : s[i] = top - Len(s) + i

\* The log is a run up to the newest number.
Ring == Run(buffer, seqCounter)

\* So is what is on its way, and nothing is while no stream is open.
WireInStep ==
    /\ stream # "open" => wire = <<>>
    /\ Run(wire, seqCounter)

\* The id the browser keeps is behind what is on its way, or of an earlier
\* start; the numbers it then hides are in the shadow.
IdInStep ==
    lastEventId # None =>
      /\ lastEventId <= seqCounter \/ lastEventId <= shadow
      /\ \A seq \in Elements(wire) : seq > lastEventId \/ seq <= shadow

\* Once an entry of this start is shown, the id is of this start.
ShownInStep ==
    shown # {} =>
      /\ lastEventId # None /\ lastEventId <= seqCounter
      /\ \A seq \in shown : seq <= lastEventId
      /\ \A seq \in Elements(wire) : seq > lastEventId

\* An entry of the page was shown since this start or is of an earlier one.
EntriesReceived ==
    \A i \in 1..Len(entries) :
      \/ entries[i].epoch = epoch /\ entries[i].seq \in shown
      \/ entries[i].epoch < epoch /\ entries[i].seq <= shadow

Inv ==
    /\ TypeOK
    /\ Ring
    /\ WireInStep
    /\ IdInStep
    /\ ShownInStep
    /\ EntriesReceived
    /\ PageInOrder
    /\ NothingLost

----------------------------------------------------------------------------
(* Induction over numbers, and the recursion of getLogSince                *)

\* The order of the numbers, as the set of pairs the library reasons about.
LessThan == {ss \in Nat \X Nat : ss[1] < ss[2]}

\* The order is well-founded: the library says it of its own form of the order.
LEMMA LessThanWellFounded == IsWellFoundedOn(LessThan, Nat)
<1>1. OpToRel(<, Nat) = LessThan
  BY DEF OpToRel, LessThan
<1> QED
  BY <1>1, NatLessThanWellFounded

\* A set of numbers has a least.
LEMMA LeastElement ==
    ASSUME NEW T \in SUBSET Nat, T # {}
    PROVE  \E x \in T : \A y \in T : x <= y
<1>1. IsWellFoundedOn(LessThan, Nat)
  BY LessThanWellFounded
<1>2. PICK x \in T : \A y \in T : ~(<<y, x>> \in LessThan)
  BY <1>1, WFMin
<1>3. ASSUME NEW y \in T PROVE x <= y
  <2>1. x \in Nat /\ y \in Nat
    OBVIOUS
  <2>2. <<y, x>> \in Nat \X Nat /\ <<y, x>>[1] = y /\ <<y, x>>[2] = x
    BY <2>1
  <2>3. ~(y < x)
    BY <1>2, <2>2 DEF LessThan
  <2> QED
    BY <2>1, <2>3
<1> QED
  BY <1>3

\* Induction up to L, on the set of the numbers that are good.
LEMMA Induction ==
    ASSUME NEW L \in Nat, NEW S, 0 \in S, \A n \in 1..L : n - 1 \in S => n \in S
    PROVE  \A n \in 0..L : n \in S
<1> DEFINE Bad == {n \in 0..L : n \notin S}
<1> SUFFICES ASSUME Bad # {} PROVE FALSE
  OBVIOUS
<1>1. Bad \in SUBSET Nat
  OBVIOUS
<1>2. PICK m \in Bad : \A n \in Bad : m <= n
  <2> HIDE DEF Bad
  <2> QED
    BY <1>1, LeastElement
<1>3. m \in 1..L /\ m - 1 \notin Bad /\ m - 1 \in 0..L
  BY <1>2
<1> QED
  BY <1>3

\* The numbers from base + 1 to base + n that are greater than last.
Kept(base, n, last) ==
    IF base + n <= last THEN <<>>
    ELSE IF last <= base THEN [k \in 1..n |-> base + k]
    ELSE [k \in 1..(base + n - last) |-> last + k]

\* Kept, one number at a time: what the recursion of getLogSince computes.
LEMMA KeptGrows ==
    ASSUME NEW base \in Nat, NEW n \in Nat \ {0}, NEW last \in Nat
    PROVE  Kept(base, n, last) = IF base + n > last THEN Append(Kept(base, n - 1, last), base + n)
                                 ELSE Kept(base, n - 1, last)
<1>1. CASE base + n <= last
  BY <1>1 DEF Kept
<1>2. CASE base + n > last /\ base + n - 1 <= last
  <2>1. last = base + n - 1
    BY <1>2
  <2>2. Kept(base, n - 1, last) = <<>>
    BY <2>1 DEF Kept
  <2>3. Append(<<>>, base + n) = <<base + n>>
    OBVIOUS
  <2>5. Kept(base, n, last) = [k \in 1..1 |-> last + k]
    BY <2>1 DEF Kept
  <2>6. Kept(base, n, last) = <<base + n>>
    BY <2>1, <2>5
  <2> QED
    BY <1>2, <2>2, <2>3, <2>6
<1>3. CASE base + n > last /\ base + n - 1 > last
  <2> DEFINE m == IF last <= base THEN n ELSE base + n - last
             b == IF last <= base THEN base ELSE last
  <2>1. m \in Nat \ {0} /\ b \in Nat /\ b + m = base + n
    BY <1>3
  <2>2. Kept(base, n, last) = [k \in 1..m |-> b + k]
    BY <1>3 DEF Kept
  <2>3. Kept(base, n - 1, last) = [k \in 1..(m - 1) |-> b + k]
    BY <1>3 DEF Kept
  <2> HIDE DEF m, b
  <2>4. [k \in 1..m |-> b + k] = Append([k \in 1..(m - 1) |-> b + k], b + m)
    BY <2>1
  <2> QED
    BY <1>3, <2>1, <2>2, <2>3, <2>4
<1> QED
  BY <1>1, <1>2, <1>3

----------------------------------------------------------------------------
(* Runs of numbers                                                         *)

\* emit pushes the next number: the run goes on.
LEMMA RunAppend ==
    ASSUME NEW s \in Seq(SeqNo), NEW top \in 0..MaxSeq, top < MaxSeq, Run(s, top)
    PROVE  /\ Append(s, top + 1) \in Seq(SeqNo)
           /\ Len(Append(s, top + 1)) = Len(s) + 1
           /\ Run(Append(s, top + 1), top + 1)
           /\ Elements(Append(s, top + 1)) = Elements(s) \cup {top + 1}
<1> DEFINE new == Append(s, top + 1)
<1>1. top + 1 \in SeqNo /\ top \in Nat
  BY TerminalAssumption DEF SeqNo
<1>2. Len(s) \in Nat
  BY LenProperties
<1>3. /\ new \in Seq(SeqNo) /\ Len(new) = Len(s) + 1
      /\ \A i \in 1..Len(s) : new[i] = s[i]
      /\ new[Len(s) + 1] = top + 1
  BY <1>1, AppendProperties
<1> HIDE DEF new
<1>4. Run(new, top + 1)
  BY <1>1, <1>2, <1>3 DEF Run
<1>5. Elements(new) = Elements(s) \cup {top + 1}
  BY <1>2, <1>3 DEF Elements
<1> QED
  BY <1>3, <1>4, <1>5 DEF new

\* KeepLast is the end of the sequence, at most n entries of it.
LEMMA KeepLastProperties ==
    ASSUME NEW S, NEW s \in Seq(S), NEW n \in Nat
    PROVE  /\ KeepLast(s, n) \in Seq(S)
           /\ Len(KeepLast(s, n)) = IF Len(s) <= n THEN Len(s) ELSE n
           /\ Len(KeepLast(s, n)) <= n /\ Len(KeepLast(s, n)) <= Len(s)
           /\ \A i \in 1..Len(KeepLast(s, n)) :
                KeepLast(s, n)[i] = s[Len(s) - Len(KeepLast(s, n)) + i]
<1>1. Len(s) \in Nat
  BY LenProperties
<1>2. CASE Len(s) <= n
  BY <1>1, <1>2 DEF KeepLast
<1>3. CASE ~(Len(s) <= n)
  <2> DEFINE m == Len(s) - n + 1
             t == SubSeq(s, m, Len(s))
  <2>1. m \in Int /\ m <= Len(s) + 1 /\ \A i \in m..Len(s) : s[i] \in S
    BY <1>1, <1>3, ElementOfSeq
  <2>2. /\ t \in Seq(S) /\ Len(t) = (IF m <= Len(s) THEN Len(s) - m + 1 ELSE 0)
        /\ \A i \in 1..(Len(s) - m + 1) : t[i] = s[m + i - 1]
    BY <1>1, <2>1, SubSeqProperties
  <2>3. Len(t) = n
    BY <1>1, <1>3, <2>2
  <2>4. \A i \in 1..n : t[i] = s[Len(s) - n + i]
    BY <1>1, <1>3, <2>2
  <2>5. KeepLast(s, n) = t
    BY <1>3 DEF KeepLast
  <2>6. n <= n /\ n <= Len(s)
    BY <1>1, <1>3
  <2> HIDE DEF t, m
  <2>7. /\ t \in Seq(S) /\ Len(t) <= n /\ Len(t) <= Len(s)
        /\ Len(t) = IF Len(s) <= n THEN Len(s) ELSE n
    BY <1>3, <2>2, <2>3, <2>6
  <2>8. \A i \in 1..Len(t) : t[i] = s[Len(s) - Len(t) + i]
    BY <2>3, <2>4
  <2> QED
    BY <2>5, <2>7, <2>8
<1> QED
  BY <1>2, <1>3

\* emit shifts from the front: what stays is a run to the same number.
LEMMA RunKeepLast ==
    ASSUME NEW s \in Seq(SeqNo), NEW top \in Nat, NEW n \in Nat, Run(s, top)
    PROVE  /\ Run(KeepLast(s, n), top)
           /\ Elements(KeepLast(s, n)) \subseteq Elements(s)
<1> DEFINE t == KeepLast(s, n)
<1>1. /\ t \in Seq(SeqNo) /\ Len(t) <= Len(s)
      /\ \A i \in 1..Len(t) : t[i] = s[Len(s) - Len(t) + i]
  BY KeepLastProperties
<1>2. Len(s) \in Nat /\ Len(t) \in Nat
  BY <1>1, LenProperties
<1> HIDE DEF t
<1>3. \A i \in 1..Len(t) : Len(s) - Len(t) + i \in 1..Len(s)
  BY <1>1, <1>2
<1>4. Run(t, top)
  <2>1. Len(t) <= top
    BY <1>1, <1>2 DEF Run
  <2>2. ASSUME NEW i \in 1..Len(t) PROVE t[i] = top - Len(t) + i
    <3> DEFINE j == Len(s) - Len(t) + i
    <3>1. j \in 1..Len(s) /\ t[i] = s[j]
      BY <1>1, <1>3
    <3>2. s[j] = top - Len(s) + j
      BY <3>1 DEF Run
    <3> QED
      BY <1>2, <3>1, <3>2
  <2> QED
    BY <2>1, <2>2 DEF Run
<1>5. Elements(t) \subseteq Elements(s)
  <2> SUFFICES ASSUME NEW i \in 1..Len(t) PROVE t[i] \in Elements(s)
    BY DEF Elements
  <2>1. t[i] = s[Len(s) - Len(t) + i] /\ Len(s) - Len(t) + i \in 1..Len(s)
    BY <1>1, <1>3
  <2> QED
    BY <2>1 DEF Elements
<1> QED
  BY <1>4, <1>5 DEF t

\* A run without its first is a run, of greater numbers.
LEMMA RunTail ==
    ASSUME NEW s \in Seq(SeqNo), NEW top \in Nat, Run(s, top), s # <<>>
    PROVE  /\ Head(s) \in SeqNo /\ Head(s) <= top
           /\ Tail(s) \in Seq(SeqNo) /\ Run(Tail(s), top)
           /\ Elements(s) = {Head(s)} \cup Elements(Tail(s))
           /\ \A x \in Elements(Tail(s)) : x > Head(s)
<1> DEFINE t == Tail(s)
<1>1. /\ Head(s) \in SeqNo /\ t \in Seq(SeqNo) /\ Len(t) = Len(s) - 1
      /\ \A i \in 1..Len(t) : t[i] = s[i + 1]
  BY HeadTailProperties
<1>2. Len(s) \in Nat /\ Len(s) >= 1 /\ Head(s) = s[1]
  BY EmptySeq, LenProperties
<1> HIDE DEF t
<1>3. s[1] = top - Len(s) + 1 /\ s[1] <= top
  BY <1>2 DEF Run
<1>4. Run(t, top)
  BY <1>1, <1>2 DEF Run
<1>5. \A i \in 1..Len(s) : i = 1 \/ (i - 1 \in 1..Len(t) /\ s[i] = t[i - 1])
  BY <1>1, <1>2
<1>6. \A i \in 1..Len(t) : i + 1 \in 1..Len(s) /\ t[i] = s[i + 1]
  BY <1>1, <1>2
<1>7. Elements(s) = {Head(s)} \cup Elements(t)
  <2>1. ASSUME NEW i \in 1..Len(s) PROVE s[i] \in {Head(s)} \cup Elements(t)
    BY <1>2, <1>5 DEF Elements
  <2>2. ASSUME NEW i \in 1..Len(t) PROVE t[i] \in Elements(s)
    BY <1>6 DEF Elements
  <2>3. Head(s) \in Elements(s)
    BY <1>2 DEF Elements
  <2> QED
    BY <2>1, <2>2, <2>3 DEF Elements
<1>8. \A x \in Elements(t) : x > Head(s)
  <2> SUFFICES ASSUME NEW i \in 1..Len(t) PROVE t[i] > Head(s)
    BY DEF Elements
  <2>1. i + 1 \in 1..Len(s) /\ t[i] = s[i + 1]
    BY <1>6
  <2>2. s[i + 1] = top - Len(s) + (i + 1)
    BY <2>1 DEF Run
  <2> QED
    BY <1>2, <1>3, <2>1, <2>2
<1> QED
  BY <1>1, <1>2, <1>3, <1>4, <1>7, <1>8 DEF t

\* getLogSince keeps of a run what is above last.
LEMMA Filtered ==
    ASSUME Run(buffer, seqCounter), buffer \in Seq(SeqNo), seqCounter \in Nat,
           NEW last \in Nat
    PROVE  GetLogSince(last) = Kept(seqCounter - Len(buffer), Len(buffer), last)
<1> DEFINE base == seqCounter - Len(buffer)
           L == Len(buffer)
           Def(f) == f = [n \in 0..Len(buffer) |->
                        IF n = 0 THEN <<>>
                        ELSE IF buffer[n] > last THEN Append(f[n - 1], buffer[n]) ELSE f[n - 1]]
           F == CHOOSE f : Def(f)
           G == [n \in 0..L |-> Kept(base, n, last)]
           S == {n \in 0..L : F[n] = Kept(base, n, last)}
<1>a. L \in Nat /\ base \in Nat
  BY LenProperties DEF Run
<1>b. \A n \in 1..L : buffer[n] = base + n
  BY DEF Run
<1>c. last # None
  BY TerminalAssumption
<1>d. GetLogSince(last) = F[L]
  BY <1>c DEF GetLogSince
<1> HIDE DEF base, L, F
<1> USE <1>a, <1>b
<1>0. Kept(base, 0, last) = <<>>
  BY DEF Kept
<1>1. Def(G)
  <2> DEFINE e(n) == IF n = 0 THEN <<>>
                     ELSE IF buffer[n] > last THEN Append(G[n - 1], buffer[n]) ELSE G[n - 1]
  <2>1. ASSUME NEW n \in 0..L PROVE Kept(base, n, last) = e(n)
    <3>1. CASE n = 0
      BY <1>0, <3>1
    <3>2. CASE n # 0
      <4>1. n - 1 \in 0..L /\ n \in Nat \ {0} /\ buffer[n] = base + n
        BY <3>2
      <4>2. G[n - 1] = Kept(base, n - 1, last)
        BY <4>1
      <4>3. Kept(base, n, last) = IF base + n > last
                                  THEN Append(Kept(base, n - 1, last), base + n)
                                  ELSE Kept(base, n - 1, last)
        BY ONLY <1>a, <4>1, last \in Nat, KeptGrows
      <4>4. e(n) = IF buffer[n] > last THEN Append(G[n - 1], buffer[n]) ELSE G[n - 1]
        BY ONLY <3>2 DEF e
      <4> HIDE DEF G, e
      <4> QED
        BY ONLY <4>1, <4>2, <4>3, <4>4
    <3> QED
      BY <3>1, <3>2
  <2> HIDE DEF e
  <2>2. G = [n \in 0..L |-> e(n)]
    BY <2>1
  <2> QED
    BY <2>2 DEF e, L
<1>2. Def(F)
  <2> HIDE DEF Def, G
  <2> QED
    BY <1>1 DEF F
<1>3. /\ F[0] = <<>>
      /\ \A n \in 1..L : F[n] = IF buffer[n] > last THEN Append(F[n - 1], buffer[n]) ELSE F[n - 1]
  <2> DEFINE e(n) == IF n = 0 THEN <<>>
                     ELSE IF buffer[n] > last THEN Append(F[n - 1], buffer[n]) ELSE F[n - 1]
  <2>1. F = [n \in 0..L |-> e(n)]
    BY <1>2 DEF L
  <2>2. ASSUME NEW n \in 0..L PROVE F[n] = e(n)
    <3> HIDE DEF e
    <3> QED
      BY ONLY <2>1, n \in 0..L
  <2> QED
    BY ONLY <2>2, <1>a
<1>4. 0 \in S
  BY <1>0, <1>3
<1>5. ASSUME NEW n \in 1..L, n - 1 \in S PROVE n \in S
  <2>1. n \in Nat \ {0} /\ buffer[n] = base + n /\ F[n - 1] = Kept(base, n - 1, last)
    BY <1>5
  <2>2. F[n] = IF buffer[n] > last THEN Append(F[n - 1], buffer[n]) ELSE F[n - 1]
    BY ONLY <1>3, n \in 1..L
  <2>3. Kept(base, n, last) = IF base + n > last THEN Append(Kept(base, n - 1, last), base + n)
                              ELSE Kept(base, n - 1, last)
    BY <2>1, KeptGrows
  <2>4. F[n] = Kept(base, n, last)
    BY ONLY <2>1, <2>2, <2>3
  <2> QED
    BY <2>4
<1>6. \A n \in 0..L : n \in S
  <2> HIDE DEF S
  <2> QED
    BY <1>4, <1>5, Induction
<1> QED
  BY <1>a, <1>d, <1>6 DEF L, base

\* The replay is a run up to the newest number, and has everything of the log
\* that is newer than the id and nothing else.
LEMMA Replayed ==
    ASSUME TypeOK, Ring, NEW last \in SeqNo \cup {None}
    PROVE  /\ GetLogSince(last) \in Seq(SeqNo)
           /\ Run(GetLogSince(last), seqCounter)
           /\ last # None => \A seq \in Elements(GetLogSince(last)) : seq > last
           /\ \A seq \in Elements(buffer) :
                seq \in Elements(GetLogSince(last)) \/ (last # None /\ seq <= last)
<1> DEFINE L == Len(buffer)
           base == seqCounter - L
           log == GetLogSince(last)
<1>1. /\ buffer \in Seq(SeqNo) /\ seqCounter \in Nat /\ seqCounter <= MaxSeq
      /\ L \in Nat /\ base \in Nat /\ MaxSeq \in Nat
  <2>1. buffer \in Seq(SeqNo) /\ seqCounter \in 0..MaxSeq
    BY DEF TypeOK
  <2>2. Len(buffer) \in Nat
    BY <2>1, LenProperties
  <2>3. Len(buffer) <= seqCounter
    BY DEF Ring, Run
  <2> QED
    BY <2>1, <2>2, <2>3, TerminalAssumption
<1>2. CASE last = None
  <2>1. log = buffer
    BY <1>2 DEF GetLogSince
  <2> QED
    BY <1>1, <1>2, <2>1 DEF Ring
<1>3. CASE last # None
  <2>1. last \in Nat
    BY <1>3 DEF SeqNo
  <2>2. \A n \in 1..L : buffer[n] = base + n
    BY <1>1 DEF Ring, Run
  <2>3. log = Kept(base, L, last)
    BY <1>1, <2>1, Filtered DEF Ring
  <2> HIDE DEF L, base, log
  <2> DEFINE m == IF base + L <= last THEN 0 ELSE IF last <= base THEN L ELSE base + L - last
             b == IF last <= base THEN base ELSE last
  <2>4. /\ b \in Nat /\ m \in Nat /\ b >= last
        /\ m > 0 => b + m = base + L
        /\ \A n \in 1..L : base + n > last => base + n - b \in 1..m
        /\ Kept(base, L, last) = [k \in 1..m |-> b + k]
    <3>1. CASE base + L <= last
      BY <1>1, <2>1, <3>1 DEF Kept
    <3>2. CASE ~(base + L <= last) /\ last <= base
      BY <1>1, <2>1, <3>2 DEF Kept
    <3>3. CASE ~(base + L <= last) /\ ~(last <= base)
      BY <1>1, <2>1, <3>3 DEF Kept
    <3> QED
      BY <3>1, <3>2, <3>3
  <2> HIDE DEF m, b
  <2>5. log = [k \in 1..m |-> b + k] /\ base + L = seqCounter
    BY <1>1, <2>3, <2>4 DEF base
  <2>6. /\ Len(log) = m /\ \A k \in 1..m : log[k] = b + k
        /\ \A k \in 1..m : b + k \in SeqNo
        /\ log \in Seq(SeqNo)
    <3>1. \A k \in 1..m : b + k \in SeqNo
      BY <1>1, <2>4, <2>5 DEF SeqNo
    <3> QED
      BY <2>4, <2>5, <3>1
  <2>7. Run(log, seqCounter)
    BY <1>1, <2>4, <2>5, <2>6 DEF Run
  <2>8. \A seq \in Elements(log) : seq > last
    BY <2>1, <2>4, <2>6 DEF Elements
  <2>9. ASSUME NEW seq \in Elements(buffer), ~(seq <= last)
        PROVE  seq \in Elements(log)
    <3>1. PICK n \in 1..L : seq = base + n
      BY <2>2 DEF Elements, L
    <3>2. base + n > last
      BY <1>1, <2>1, <2>9, <3>1
    <3>3. base + n - b \in 1..m /\ b + (base + n - b) = base + n
      <4>1. base + n - b \in 1..m
        BY <2>4, <3>2
      <4>2. base \in Int /\ n \in Int /\ b \in Int
        BY <1>1, <2>4
      <4> QED
        BY <4>1, <4>2
    <3> QED
      BY <2>6, <3>1, <3>3 DEF Elements
  <2> QED
    BY <1>3, <2>6, <2>7, <2>8, <2>9 DEF log
<1> QED
  BY <1>2, <1>3

\* The newest of a run that is not empty is its last.
LEMMA RunHasTop ==
    ASSUME NEW s \in Seq(SeqNo), NEW top \in Nat, Run(s, top), Len(s) > 0
    PROVE  top \in Elements(s)
<1>1. Len(s) \in 1..Len(s)
  BY LenProperties
<1>2. s[Len(s)] = top
  BY <1>1 DEF Run
<1> QED
  BY <1>1, <1>2 DEF Elements

\* The empty log is a run up to any number.
LEMMA EmptyRun ==
    ASSUME NEW top \in Nat
    PROVE  <<>> \in Seq(SeqNo) /\ Run(<<>>, top) /\ Elements(<<>>) = {}
BY DEF Run, Elements

\* The numbers of a sequence are numbers.
LEMMA ElementsTyped ==
    ASSUME NEW s \in Seq(SeqNo)
    PROVE  Elements(s) \subseteq SeqNo
BY ElementOfSeq DEF Elements

----------------------------------------------------------------------------
(* The invariant                                                           *)

\* The page has just made its EventSource.
LEMMA InitInv == Init => Inv
<1> SUFFICES ASSUME Init PROVE Inv
  OBVIOUS
<1>1. /\ epoch = 1 /\ buffer = <<>> /\ seqCounter = 0 /\ stream = "opening" /\ wire = <<>>
      /\ lastEventId = None /\ entries = <<>> /\ paused = FALSE /\ clearing = "no"
      /\ shown = {} /\ excused = {} /\ shadow = 0
  BY DEF Init
<1>2. TypeOK
  <2>1. /\ <<>> \in Seq(SeqNo) /\ <<>> \in Seq(Entry) /\ Len(<<>>) = 0
    BY EmptySeq
  <2>2. 1 \in 1..MaxEpoch /\ 0 \in 0..MaxSeq /\ 0 <= BufferSize /\ 0 <= PageSize
    BY TerminalAssumption
  <2> QED
    BY <1>1, <2>1, <2>2 DEF TypeOK
<1>3. Ring /\ WireInStep
  BY <1>1, EmptyRun DEF Ring, WireInStep
<1>4. EntriesReceived /\ PageInOrder
  BY <1>1 DEF EntriesReceived, PageInOrder
<1>5. NothingLost
  BY <1>1 DEF NothingLost
<1> QED
  BY <1>1, <1>2, <1>3, <1>4, <1>5 DEF Inv, IdInStep, ShownInStep

\* The numbers of a state that is typed.
LEMMA Numbers ==
    ASSUME TypeOK
    PROVE  /\ epoch \in Nat /\ seqCounter \in Nat /\ seqCounter <= MaxSeq /\ shadow \in Nat
           /\ lastEventId # None => lastEventId \in Nat
           /\ shown \subseteq Nat /\ SeqNo \subseteq Nat
           /\ Elements(wire) \subseteq SeqNo /\ Elements(buffer) \subseteq SeqNo
           /\ \A i \in 1..Len(entries) : entries[i].epoch \in Nat /\ entries[i].seq \in Nat
<1>1. SeqNo \subseteq Nat
  BY DEF SeqNo
<1>2. Elements(wire) \subseteq SeqNo /\ Elements(buffer) \subseteq SeqNo
  BY ElementsTyped DEF TypeOK
<1>3. ASSUME NEW i \in 1..Len(entries)
      PROVE  entries[i].epoch \in Nat /\ entries[i].seq \in Nat
  <2>1. entries[i] \in Entry
    BY ElementOfSeq DEF TypeOK
  <2> QED
    BY <1>1, <2>1 DEF Entry
<1>4. /\ epoch \in Nat /\ seqCounter \in Nat /\ seqCounter <= MaxSeq /\ shadow \in Nat
  <2>1. epoch \in 1..MaxEpoch /\ seqCounter \in 0..MaxSeq /\ shadow \in 0..MaxSeq
    BY DEF TypeOK
  <2> QED
    BY <2>1, TerminalAssumption
<1>5. lastEventId # None => lastEventId \in SeqNo
  BY DEF TypeOK
<1>6. shown \subseteq SeqNo
  BY DEF TypeOK
<1> QED
  BY <1>1, <1>2, <1>3, <1>4, <1>5, <1>6

\* The new number ends the ring, and is on its way when the stream is open.
LEMMA EmitInv ==
    ASSUME Inv, Emit
    PROVE  Inv'
<1> DEFINE new == seqCounter + 1
           longer == Append(buffer, new)
<1>1. /\ seqCounter < MaxSeq /\ seqCounter' = new
      /\ buffer' = KeepLast(longer, BufferSize)
      /\ wire' = IF stream = "open" THEN Append(wire, new) ELSE wire
      /\ excused' = excused \cup
            (IF stream = "open" THEN {} ELSE Elements(buffer) \ Elements(buffer'))
      /\ UNCHANGED <<epoch, stream, lastEventId, page, shown, shadow>>
  BY DEF Emit, Excuse
<1>2. /\ seqCounter \in 0..MaxSeq /\ buffer \in Seq(SeqNo) /\ wire \in Seq(SeqNo)
      /\ Run(buffer, seqCounter) /\ Run(wire, seqCounter)
      /\ stream # "open" => wire = <<>>
  BY DEF Inv, TypeOK, Ring, WireInStep
<1>3. new \in SeqNo /\ new \in Nat /\ new \in 0..MaxSeq
  BY <1>1, <1>2, TerminalAssumption DEF SeqNo
<1>4. /\ longer \in Seq(SeqNo) /\ Run(longer, new) /\ Len(longer) = Len(buffer) + 1
      /\ Elements(longer) = Elements(buffer) \cup {new}
  BY <1>1, <1>2, RunAppend
<1>5. BufferSize \in Nat /\ BufferSize > 0 /\ Len(buffer) \in Nat
  BY <1>2, TerminalAssumption, LenProperties
<1> HIDE DEF longer, new
<1>6. /\ buffer' \in Seq(SeqNo) /\ Len(buffer') <= BufferSize /\ Len(buffer') > 0
      /\ Run(buffer', new) /\ Elements(buffer') \subseteq Elements(buffer) \cup {new}
  <2>1. /\ buffer' \in Seq(SeqNo) /\ Len(buffer') <= BufferSize
        /\ Len(buffer') = IF Len(longer) <= BufferSize THEN Len(longer) ELSE BufferSize
    BY <1>1, <1>4, <1>5, KeepLastProperties
  <2>2. Len(buffer') > 0
    BY <1>4, <1>5, <2>1
  <2>3. Run(buffer', new) /\ Elements(buffer') \subseteq Elements(longer)
    BY <1>1, <1>3, <1>4, <1>5, RunKeepLast
  <2> QED
    BY <1>4, <2>1, <2>2, <2>3
<1>7. new \in Elements(buffer')
  BY <1>3, <1>6, RunHasTop
<1>8. /\ wire' \in Seq(SeqNo) /\ Run(wire', new)
      /\ stream # "open" => wire' = <<>>
      /\ Elements(wire') = IF stream = "open" THEN Elements(wire) \cup {new} ELSE Elements(wire)
  <2>1. CASE stream = "open"
    BY <1>1, <1>2, <2>1, RunAppend DEF new
  <2>2. CASE stream # "open"
    BY <1>1, <1>2, <1>3, <2>2, EmptyRun
  <2> QED
    BY <2>1, <2>2
<1>9. TypeOK'
  <2>1. excused' \in SUBSET SeqNo
    BY <1>1, Numbers DEF Inv, TypeOK
  <2>2. seqCounter' \in 0..MaxSeq
    BY <1>1, <1>3
  <2>3. UNCHANGED <<epoch, stream, lastEventId, entries, paused, clearing, shown, shadow>>
    BY <1>1 DEF page
  <2>4. TypeOK
    BY DEF Inv
  <2>5. buffer' \in Seq(SeqNo) /\ Len(buffer') <= BufferSize /\ wire' \in Seq(SeqNo)
    BY <1>6, <1>8
  <2> QED
    BY <2>1, <2>2, <2>3, <2>4, <2>5 DEF TypeOK
<1>10. Ring' /\ WireInStep'
  <2>1. seqCounter' = new /\ stream' = stream
    BY <1>1
  <2>2. Run(buffer', new) /\ Run(wire', new) /\ (stream # "open" => wire' = <<>>)
    BY <1>6, <1>8
  <2>3. Ring'
    BY <2>1, <2>2 DEF Ring, Run
  <2> QED
    BY <2>1, <2>2, <2>3 DEF WireInStep, Run
<1>11. lastEventId # None => lastEventId <= seqCounter \/ lastEventId <= shadow
  BY DEF Inv, IdInStep
<1>12. /\ lastEventId # None => lastEventId \in Nat
       /\ shadow \in Nat /\ seqCounter \in Nat /\ new = seqCounter + 1
  BY Numbers DEF Inv, new
<1>13. lastEventId # None => new > lastEventId \/ new <= shadow
  BY <1>11, <1>12
<1>14. IdInStep'
  <2> SUFFICES ASSUME lastEventId # None
               PROVE  /\ lastEventId <= new \/ lastEventId <= shadow
                      /\ \A seq \in Elements(wire') : seq > lastEventId \/ seq <= shadow
    BY <1>1 DEF IdInStep
  <2>1. lastEventId <= new \/ lastEventId <= shadow
    BY <1>11, <1>12
  <2>2. \A seq \in Elements(wire) : seq > lastEventId \/ seq <= shadow
    BY DEF Inv, IdInStep
  <2> QED
    BY <1>8, <1>13, <2>1, <2>2
<1>15. ShownInStep'
  <2> SUFFICES ASSUME shown # {}
               PROVE  /\ lastEventId # None /\ lastEventId <= new
                      /\ \A seq \in shown : seq <= lastEventId
                      /\ \A seq \in Elements(wire') : seq > lastEventId
    BY <1>1 DEF ShownInStep
  <2>1. /\ lastEventId # None /\ lastEventId <= seqCounter
        /\ \A seq \in shown : seq <= lastEventId
        /\ \A seq \in Elements(wire) : seq > lastEventId
    BY DEF Inv, ShownInStep
  <2>2. lastEventId <= new /\ new > lastEventId
    BY <1>12, <2>1
  <2> QED
    BY <1>8, <2>1, <2>2
<1>16. EntriesReceived' /\ PageInOrder'
  BY <1>1 DEF Inv, EntriesReceived, PageInOrder, page
<1>17. NothingLost'
  <2> SUFFICES ASSUME NEW seq \in 1..new
               PROVE  seq \in excused' \/ seq <= shadow \/ Delivered(seq)'
    BY <1>1 DEF NothingLost
  <2>1. CASE seq = new
    BY <1>1, <1>7, <1>8, <1>13, <2>1 DEF Delivered
  <2>2. CASE seq # new
    <3>1. seq \in 1..seqCounter
      BY <1>12, <2>2
    <3>2. seq \in excused \/ seq <= shadow \/ Delivered(seq)
      BY <3>1 DEF Inv, NothingLost
    <3> QED
      BY <1>1, <1>8, <3>2 DEF Delivered
  <2> QED
    BY <2>1, <2>2
<1> QED
  BY <1>9, <1>10, <1>14, <1>15, <1>16, <1>17 DEF Inv

\* The replay starts where the page left off.
LEMMA AcceptInv ==
    ASSUME Inv, AcceptStream
    PROVE  Inv'
<1> DEFINE log == GetLogSince(lastEventId)
<1>1. /\ stream = "opening" /\ stream' = "open" /\ wire' = log
      /\ UNCHANGED <<epoch, buffer, seqCounter, lastEventId, entries, paused, clearing,
                     shown, excused, shadow>>
  BY DEF AcceptStream, server, page, history
<1>2. TypeOK /\ Ring /\ lastEventId \in SeqNo \cup {None} /\ wire = <<>>
  BY <1>1 DEF Inv, TypeOK, WireInStep
<1>3. /\ log \in Seq(SeqNo) /\ Run(log, seqCounter)
      /\ lastEventId # None => \A seq \in Elements(log) : seq > lastEventId
      /\ \A seq \in Elements(buffer) :
           seq \in Elements(log) \/ (lastEventId # None /\ seq <= lastEventId)
  BY <1>2, Replayed
<1> HIDE DEF log
<1>4. TypeOK'
  BY <1>1, <1>2, <1>3 DEF TypeOK
<1>5. Ring' /\ WireInStep'
  BY <1>1, <1>2, <1>3 DEF Ring, WireInStep, Run
<1>6. IdInStep' /\ ShownInStep'
  BY <1>1, <1>3 DEF Inv, IdInStep, ShownInStep
<1>7. EntriesReceived' /\ PageInOrder'
  BY <1>1 DEF Inv, EntriesReceived, PageInOrder
<1>8. NothingLost'
  <2> SUFFICES ASSUME NEW seq \in 1..seqCounter
               PROVE  seq \in excused \/ seq <= shadow \/ seq \in shown \/ seq \in Elements(log)
    BY <1>1 DEF NothingLost, Delivered
  <2>1. seq \in excused \/ seq <= shadow \/ Delivered(seq)
    BY DEF Inv, NothingLost
  <2>2. Elements(wire) = {}
    BY <1>2 DEF Elements
  <2>3. ASSUME seq \in Elements(buffer), lastEventId # None => seq > lastEventId
        PROVE  seq \in Elements(log)
    <3>1. lastEventId # None => ~(seq <= lastEventId)
      BY <1>2, <2>3, Numbers
    <3> QED
      BY <1>3, <2>3, <3>1
  <2> QED
    BY <2>1, <2>2, <2>3 DEF Delivered
<1> QED
  BY <1>4, <1>5, <1>6, <1>7, <1>8 DEF Inv

\* Nothing but the state of a connection that is not open.
LEMMA NotOpenInv ==
    ASSUME Inv, stream # "open", stream' \in {"opening", "lost", "given up"},
           UNCHANGED <<server, wire, lastEventId, page, history>>
    PROVE  Inv'
<1>1. UNCHANGED <<epoch, buffer, seqCounter, wire, lastEventId, entries, paused, clearing,
                  shown, excused, shadow>>
  BY DEF server, page, history
<1>2. stream' # "open"
  OBVIOUS
<1>3. TypeOK' /\ Ring' /\ WireInStep' /\ IdInStep' /\ ShownInStep'
  BY <1>1, <1>2 DEF Inv, TypeOK, Ring, WireInStep, IdInStep, ShownInStep, Run, Elements
<1>4. EntriesReceived' /\ PageInOrder' /\ NothingLost'
  BY <1>1, <1>2 DEF Inv, EntriesReceived, PageInOrder, NothingLost, Delivered, Elements
<1> QED
  BY <1>3, <1>4 DEF Inv

\* Nothing but the switches of the page.
LEMMA SwitchInv ==
    ASSUME Inv, paused' \in BOOLEAN, clearing' \in {"no", "called", "answered"},
           UNCHANGED <<server, stream, wire, lastEventId, entries, history>>
    PROVE  Inv'
<1>1. UNCHANGED <<epoch, buffer, seqCounter, stream, wire, lastEventId, entries,
                  shown, excused, shadow>>
  BY DEF server, history
<1>2. TypeOK' /\ Ring' /\ WireInStep' /\ IdInStep' /\ ShownInStep'
  BY <1>1 DEF Inv, TypeOK, Ring, WireInStep, IdInStep, ShownInStep, Run, Elements
<1>3. EntriesReceived' /\ PageInOrder' /\ NothingLost'
  BY <1>1 DEF Inv, EntriesReceived, PageInOrder, NothingLost, Delivered, Elements
<1> QED
  BY <1>2, <1>3 DEF Inv

\* What the ring had is excused, or on its way already.
LEMMA ClearLogInv ==
    ASSUME Inv, ClearLog
    PROVE  Inv'
<1>1. /\ buffer' = <<>>
      /\ excused' = excused \cup (IF stream = "open" THEN {} ELSE Elements(buffer))
      /\ clearing' \in {clearing, "answered"}
      /\ UNCHANGED <<epoch, seqCounter, stream, wire, lastEventId, entries, paused, shown, shadow>>
  BY DEF ClearLog, Excuse
<1>2. Elements(buffer) \subseteq SeqNo /\ seqCounter \in Nat
  BY Numbers DEF Inv
<1>3. <<>> \in Seq(SeqNo) /\ Len(<<>>) = 0 /\ 0 <= BufferSize /\ Run(<<>>, seqCounter)
  BY <1>2, EmptyRun, TerminalAssumption
<1>4. TypeOK'
  <2>1. excused' \in SUBSET SeqNo
    BY <1>1, <1>2 DEF Inv, TypeOK
  <2>2. clearing' \in {"no", "called", "answered"}
    BY <1>1 DEF Inv, TypeOK
  <2> QED
    BY <1>1, <1>3, <2>1, <2>2 DEF Inv, TypeOK
<1>5. Ring' /\ WireInStep' /\ IdInStep' /\ ShownInStep'
  BY <1>1, <1>3 DEF Inv, Ring, WireInStep, IdInStep, ShownInStep, Run, Elements
<1>6. EntriesReceived' /\ PageInOrder' /\ NothingLost'
  BY <1>1 DEF Inv, EntriesReceived, PageInOrder, NothingLost, Delivered, Elements
<1> QED
  BY <1>4, <1>5, <1>6 DEF Inv

\* What this start has shown the page, and the id it keeps, is now of an
\* earlier one.
LEMMA RestartInv ==
    ASSUME Inv, Restart
    PROVE  Inv'
<1>1. /\ epoch < MaxEpoch /\ epoch' = epoch + 1
      /\ buffer' = <<>> /\ seqCounter' = 0 /\ wire' = <<>>
      /\ stream' \in {"given up", "lost"} /\ shown' = {} /\ excused' = {}
      /\ shadow' = IF lastEventId = None \/ lastEventId < shadow THEN shadow ELSE lastEventId
      /\ UNCHANGED <<lastEventId, entries, paused, clearing>>
  BY DEF Restart, page
<1>2. /\ epoch \in Nat /\ shadow \in Nat /\ (lastEventId # None => lastEventId \in Nat)
      /\ \A i \in 1..Len(entries) : entries[i].epoch \in Nat /\ entries[i].seq \in Nat
  BY Numbers DEF Inv
<1>3. shadow' >= shadow /\ (lastEventId # None => lastEventId <= shadow') /\ shadow' \in Nat
  <2>1. CASE lastEventId = None
    <3>1. shadow' = shadow
      BY <1>1, <2>1
    <3> QED
      BY <1>2, <2>1, <3>1
  <2>2. CASE lastEventId # None
    <3>1. shadow' = IF lastEventId < shadow THEN shadow ELSE lastEventId
      BY <1>1, <2>2
    <3> QED
      BY <1>2, <2>2, <3>1
  <2> QED
    BY <2>1, <2>2
<1>4. TypeOK'
  <2>1. epoch' \in 1..MaxEpoch
    <3>1. epoch' = epoch + 1 /\ epoch < MaxEpoch
      BY <1>1
    <3> QED
      BY <1>2, <3>1, TerminalAssumption
  <2>2. shadow' \in 0..MaxSeq
    <3>1. shadow \in 0..MaxSeq /\ lastEventId \in SeqNo \cup {None}
      BY DEF Inv, TypeOK
    <3>2. shadow' \in {shadow} \cup SeqNo
      BY <1>1, <3>1
    <3> QED
      BY <3>1, <3>2, TerminalAssumption DEF SeqNo
  <2>3. <<>> \in Seq(SeqNo) /\ Len(<<>>) = 0 /\ 0 <= BufferSize /\ 0 \in 0..MaxSeq
    BY TerminalAssumption, EmptySeq
  <2> QED
    BY <1>1, <2>1, <2>2, <2>3 DEF Inv, TypeOK
<1>5. Ring' /\ WireInStep'
  BY <1>1, EmptyRun DEF Ring, WireInStep, Run
<1>6. IdInStep' /\ ShownInStep'
  <2>1. Elements(<<>>) = {}
    BY DEF Elements
  <2>2. wire' = <<>> /\ shown' = {} /\ lastEventId' = lastEventId
    BY <1>1
  <2> QED
    BY <1>3, <2>1, <2>2 DEF IdInStep, ShownInStep, Elements
<1>7. EntriesReceived'
  <2> SUFFICES ASSUME NEW i \in 1..Len(entries)
               PROVE  entries[i].epoch < epoch + 1 /\ entries[i].seq <= shadow'
    BY <1>1 DEF EntriesReceived
  <2>1. CASE entries[i].epoch = epoch /\ entries[i].seq \in shown
    <3>1. lastEventId # None /\ entries[i].seq <= lastEventId
      BY <2>1 DEF Inv, ShownInStep
    <3> QED
      BY <1>2, <1>3, <2>1, <3>1
  <2>2. CASE entries[i].epoch < epoch /\ entries[i].seq <= shadow
    BY <1>2, <1>3, <2>2
  <2> QED
    BY <2>1, <2>2 DEF Inv, EntriesReceived
<1>8. PageInOrder'
  <2>1. entries' = entries
    BY <1>1
  <2> QED
    BY <2>1 DEF Inv, PageInOrder
<1>9. NothingLost'
  <2>1. seqCounter' = 0
    BY <1>1
  <2> QED
    BY <2>1 DEF NothingLost
<1> QED
  BY <1>4, <1>5, <1>6, <1>7, <1>8, <1>9 DEF Inv

\* What was on its way is in the ring or excused, and the id does not hide it.
LEMMA LoseInv ==
    ASSUME Inv, LoseStream
    PROVE  Inv'
<1>1. /\ stream' = "lost" /\ wire' = <<>>
      /\ excused' = excused \cup (Elements(wire) \ Elements(buffer))
      /\ UNCHANGED <<epoch, buffer, seqCounter, lastEventId, entries, paused, clearing,
                     shown, shadow>>
  BY DEF LoseStream, Excuse, server, page
<1>2. Elements(wire) \subseteq SeqNo /\ seqCounter \in Nat
  BY Numbers DEF Inv
<1>3. <<>> \in Seq(SeqNo) /\ Run(<<>>, seqCounter) /\ Elements(<<>>) = {}
  BY <1>2, EmptyRun
<1>4. TypeOK'
  <2>1. excused' \in SUBSET SeqNo
    BY <1>1, <1>2 DEF Inv, TypeOK
  <2> QED
    BY <1>1, <1>3, <2>1 DEF Inv, TypeOK
<1>5. Ring' /\ WireInStep'
  BY <1>1, <1>3 DEF Inv, Ring, WireInStep, Run
<1>6. IdInStep' /\ ShownInStep'
  BY <1>1 DEF Inv, IdInStep, ShownInStep, Elements
<1>7. EntriesReceived' /\ PageInOrder'
  BY <1>1 DEF Inv, EntriesReceived, PageInOrder
<1>8. NothingLost'
  <2> SUFFICES ASSUME NEW seq \in 1..seqCounter
               PROVE  seq \in excused' \/ seq <= shadow \/ Delivered(seq)'
    BY <1>1 DEF NothingLost
  <2>1. seq \in excused \/ seq <= shadow \/ Delivered(seq)
    BY DEF Inv, NothingLost
  <2>2. CASE seq \in Elements(wire) /\ seq \in Elements(buffer)
    <3>1. lastEventId # None => seq > lastEventId \/ seq <= shadow
      BY <2>2 DEF Inv, IdInStep
    <3> QED
      BY <1>1, <2>2, <3>1 DEF Delivered, Elements
  <2> QED
    BY <1>1, <2>1, <2>2 DEF Delivered, Elements
<1> QED
  BY <1>4, <1>5, <1>6, <1>7, <1>8 DEF Inv

\* The page is emptied; what it has shown stays known.
LEMMA EmptyPageInv ==
    ASSUME Inv, EmptyPage
    PROVE  Inv'
<1>1. /\ entries' = <<>> /\ clearing' = "no"
      /\ UNCHANGED <<epoch, buffer, seqCounter, stream, wire, lastEventId, paused,
                     shown, excused, shadow>>
  BY DEF EmptyPage, server, history
<1>2. <<>> \in Seq(Entry) /\ Len(<<>>) = 0 /\ 0 <= PageSize
  BY TerminalAssumption, EmptySeq
<1>3. TypeOK' /\ Ring' /\ WireInStep' /\ IdInStep' /\ ShownInStep'
  BY <1>1, <1>2 DEF Inv, TypeOK, Ring, WireInStep, IdInStep, ShownInStep, Run, Elements
<1>4. EntriesReceived' /\ PageInOrder' /\ NothingLost'
  BY <1>1, <1>2 DEF Inv, EntriesReceived, PageInOrder, NothingLost, Delivered, Elements
<1> QED
  BY <1>3, <1>4 DEF Inv

\* A new page has the whole ring to come, and the rest excused.
LEMMA RemountInv ==
    ASSUME Inv, Remount
    PROVE  Inv'
<1>1. /\ stream' = "opening" /\ wire' = <<>> /\ lastEventId' = None
      /\ entries' = <<>> /\ paused' = FALSE /\ clearing' = "no"
      /\ shown' = {} /\ shadow' = 0 /\ excused' = (1..seqCounter) \ Elements(buffer)
      /\ UNCHANGED <<epoch, buffer, seqCounter>>
  BY DEF Remount, server
<1>2. seqCounter \in Nat /\ seqCounter <= MaxSeq /\ MaxSeq \in Nat
  BY Numbers, TerminalAssumption DEF Inv
<1>3. /\ <<>> \in Seq(SeqNo) /\ Run(<<>>, seqCounter)
      /\ <<>> \in Seq(Entry) /\ Len(<<>>) = 0 /\ 0 <= PageSize
  BY <1>2, EmptyRun, TerminalAssumption, EmptySeq
<1>4. TypeOK'
  <2>1. excused' \in SUBSET SeqNo /\ 0 \in 0..MaxSeq
    BY <1>1, <1>2 DEF SeqNo
  <2> QED
    BY <1>1, <1>3, <2>1 DEF Inv, TypeOK
<1>5. Ring' /\ WireInStep' /\ IdInStep' /\ ShownInStep'
  BY <1>1, <1>3 DEF Inv, Ring, WireInStep, IdInStep, ShownInStep, Run
<1>6. EntriesReceived' /\ PageInOrder'
  BY <1>1, <1>3 DEF EntriesReceived, PageInOrder
<1>7. NothingLost'
  BY <1>1 DEF NothingLost, Delivered, Elements
<1> QED
  BY <1>4, <1>5, <1>6, <1>7 DEF Inv

\* An entry dispatched is newer than all this start has shown, and goes last.
LEMMA OnMessageInv ==
    ASSUME Inv, OnMessage
    PROVE  Inv'
<1> DEFINE h == Head(wire)
           t == Tail(wire)
           known == \E i \in 1..Len(entries) : entries[i].seq = Head(wire)
           kept == KeepLast(entries, PageSize - 1)
           e == [epoch |-> epoch, seq |-> Head(wire)]
<1>1. /\ wire # <<>> /\ wire' = t /\ lastEventId' = h
      /\ entries' = IF paused \/ known THEN entries ELSE Append(kept, e)
      /\ shown' = IF paused \/ known THEN shown ELSE shown \cup {h}
      /\ excused' = excused \cup (IF paused THEN {h} ELSE {})
      /\ UNCHANGED <<epoch, buffer, seqCounter, stream, paused, clearing, shadow>>
  BY DEF OnMessage, Excuse, server
<1>2. TypeOK /\ Ring /\ WireInStep /\ ShownInStep
  BY DEF Inv
<1>3. /\ epoch \in Nat /\ seqCounter \in Nat /\ seqCounter <= MaxSeq /\ shadow \in Nat
      /\ lastEventId # None => lastEventId \in Nat
      /\ shown \subseteq Nat /\ SeqNo \subseteq Nat
      /\ \A i \in 1..Len(entries) : entries[i].epoch \in Nat /\ entries[i].seq \in Nat
  BY <1>2, Numbers
<1>4. wire \in Seq(SeqNo) /\ Run(wire, seqCounter) /\ stream = "open"
  BY <1>1, <1>2 DEF TypeOK, WireInStep
<1>5. /\ h \in SeqNo /\ h <= seqCounter /\ t \in Seq(SeqNo) /\ Run(t, seqCounter)
      /\ Elements(wire) = {h} \cup Elements(t)
      /\ \A x \in Elements(t) : x > h
  BY <1>1, <1>3, <1>4, RunTail
<1>6. h \in Nat /\ h # None
  BY <1>3, <1>5, TerminalAssumption
<1>7. \A x \in shown : x < h
  <2> SUFFICES ASSUME NEW x \in shown PROVE x < h
    OBVIOUS
  <2>1. lastEventId # None /\ x <= lastEventId /\ h > lastEventId
    BY <1>2, <1>5 DEF ShownInStep
  <2> QED
    BY <1>3, <1>6, <2>1
<1>8. /\ kept \in Seq(Entry) /\ Len(kept) <= PageSize - 1 /\ Len(kept) <= Len(entries)
      /\ \A i \in 1..Len(kept) : kept[i] = entries[Len(entries) - Len(kept) + i]
      /\ Len(kept) \in Nat /\ Len(entries) \in Nat
  <2>1. entries \in Seq(Entry) /\ PageSize - 1 \in Nat
    <3>1. entries \in Seq(Entry)
      BY <1>2 DEF TypeOK
    <3>2. PageSize - 1 \in Nat
      BY TerminalAssumption
    <3> QED
      BY <3>1, <3>2
  <2>2. /\ kept \in Seq(Entry) /\ Len(kept) <= PageSize - 1 /\ Len(kept) <= Len(entries)
        /\ \A i \in 1..Len(kept) : kept[i] = entries[Len(entries) - Len(kept) + i]
    BY <2>1, KeepLastProperties
  <2> QED
    BY <2>1, <2>2, LenProperties
<1>9. e \in Entry /\ e.epoch = epoch /\ e.seq = h
  <2>1. epoch \in 1..MaxEpoch
    BY <1>2 DEF TypeOK
  <2> QED
    BY <1>5, <2>1 DEF Entry
<1> HIDE DEF h, t, kept, e
<1>10. /\ Append(kept, e) \in Seq(Entry) /\ Len(Append(kept, e)) = Len(kept) + 1
       /\ \A i \in 1..Len(kept) : Append(kept, e)[i] = kept[i]
       /\ Append(kept, e)[Len(kept) + 1] = e
  BY <1>8, <1>9, AppendProperties
<1>11. \A i \in 1..Len(kept) : Len(entries) - Len(kept) + i \in 1..Len(entries)
  BY <1>8
<1>12. \A i \in 1..Len(Append(kept, e)) : i \in 1..Len(kept) \/ i = Len(kept) + 1
  BY <1>8, <1>10
<1>13. TypeOK'
  <2>1. entries' \in Seq(Entry) /\ Len(entries') <= PageSize
    <3>1. Len(Append(kept, e)) <= PageSize
      BY <1>8, <1>10, TerminalAssumption
    <3> QED
      BY <1>1, <1>2, <1>10, <3>1 DEF TypeOK
  <2>2. shown' \in SUBSET SeqNo /\ excused' \in SUBSET SeqNo
    BY <1>1, <1>2, <1>5 DEF TypeOK
  <2> QED
    BY <1>1, <1>2, <1>5, <2>1, <2>2 DEF TypeOK
<1>14. Ring' /\ WireInStep'
  BY <1>1, <1>2, <1>4, <1>5 DEF Ring, WireInStep, Run
<1>15. IdInStep'
  BY <1>1, <1>5 DEF IdInStep
<1>16. ShownInStep'
  <2>1. \A x \in shown' : x <= h
    <3>1. \A x \in shown : x <= h
      BY <1>3, <1>6, <1>7
    <3> QED
      BY <1>1, <1>6, <3>1
  <2> QED
    BY <1>1, <1>5, <1>6, <2>1 DEF ShownInStep
<1>17. CASE paused \/ known
  <2>1. entries' = entries /\ shown' = shown /\ epoch' = epoch /\ shadow' = shadow
    BY <1>1, <1>17
  <2>2. EntriesReceived' /\ PageInOrder'
    BY <2>1 DEF Inv, EntriesReceived, PageInOrder
  <2>3. h \in excused' \/ h <= shadow \/ h \in shown'
    <3>1. CASE paused
      BY <1>1, <3>1
    <3>2. CASE known
      BY <2>1, <3>2 DEF Inv, EntriesReceived, h
    <3> QED
      BY <1>17, <3>1, <3>2
  <2>4. NothingLost'
    <3> SUFFICES ASSUME NEW seq \in 1..seqCounter
                 PROVE  seq \in excused' \/ seq <= shadow \/ seq \in shown'
                          \/ seq \in Elements(wire')
      BY <1>1 DEF NothingLost, Delivered, Elements
    <3>1. seq \in excused \/ seq <= shadow \/ seq \in shown \/ seq \in Elements(wire)
      BY <1>4 DEF Inv, NothingLost, Delivered
    <3> QED
      BY <1>1, <1>5, <2>1, <2>3, <3>1
  <2> QED
    BY <1>13, <1>14, <1>15, <1>16, <2>2, <2>4 DEF Inv
<1>18. CASE ~(paused \/ known)
  <2>1. /\ entries' = Append(kept, e) /\ shown' = shown \cup {h}
        /\ epoch' = epoch /\ shadow' = shadow
    BY <1>1, <1>18
  <2>2. EntriesReceived'
    <3> SUFFICES ASSUME NEW i \in 1..Len(Append(kept, e))
                 PROVE  \/ Append(kept, e)[i].epoch = epoch /\ Append(kept, e)[i].seq \in shown'
                        \/ Append(kept, e)[i].epoch < epoch /\ Append(kept, e)[i].seq <= shadow
      BY <2>1 DEF EntriesReceived
    <3>1. CASE i = Len(kept) + 1
      BY <1>9, <1>10, <2>1, <3>1
    <3>2. CASE i \in 1..Len(kept)
      <4>1. PICK j \in 1..Len(entries) : Append(kept, e)[i] = entries[j]
        BY <1>8, <1>10, <1>11, <3>2
      <4> QED
        BY <2>1, <4>1 DEF Inv, EntriesReceived
    <3> QED
      BY <1>12, <3>1, <3>2
  <2>3. PageInOrder'
    <3> DEFINE s == Append(kept, e)
    <3> SUFFICES ASSUME NEW i \in 1..Len(s), NEW j \in 1..Len(s), i < j
                 PROVE  \/ s[i].epoch < s[j].epoch
                        \/ s[i].epoch = s[j].epoch /\ s[i].seq < s[j].seq
      BY <2>1 DEF PageInOrder
    <3>1. i \in 1..Len(kept)
      BY <1>8, <1>10
    <3> DEFINE a == Len(entries) - Len(kept) + i
    <3>2. a \in 1..Len(entries) /\ s[i] = entries[a]
      BY <1>8, <1>10, <1>11, <3>1
    <3>3. CASE j \in 1..Len(kept)
      <4> DEFINE b == Len(entries) - Len(kept) + j
      <4>1. b \in 1..Len(entries) /\ s[j] = entries[b]
        BY <1>8, <1>10, <1>11, <3>3
      <4>2. a < b
        BY <1>8, <3>1, <3>3
      <4>3. \A x, y \in 1..Len(entries) : x < y =>
              \/ entries[x].epoch < entries[y].epoch
              \/ entries[x].epoch = entries[y].epoch /\ entries[x].seq < entries[y].seq
        BY DEF Inv, PageInOrder
      <4> HIDE DEF a, b, s
      <4> QED
        BY <3>2, <4>1, <4>2, <4>3
    <3>4. CASE j = Len(kept) + 1
      <4>1. s[j] = e
        BY <1>10, <3>4
      <4>2. \/ entries[a].epoch = epoch /\ entries[a].seq \in shown
            \/ entries[a].epoch < epoch
        BY <3>2 DEF Inv, EntriesReceived
      <4> HIDE DEF a, s
      <4> QED
        BY <1>7, <1>9, <3>2, <4>1, <4>2
    <3> QED
      BY <1>12, <3>3, <3>4
  <2>4. NothingLost'
    <3> SUFFICES ASSUME NEW seq \in 1..seqCounter
                 PROVE  seq \in excused' \/ seq <= shadow \/ seq \in shown'
                          \/ seq \in Elements(wire')
      BY <1>1 DEF NothingLost, Delivered, Elements
    <3>1. seq \in excused \/ seq <= shadow \/ seq \in shown \/ seq \in Elements(wire)
      BY <1>4 DEF Inv, NothingLost, Delivered
    <3> QED
      BY <1>1, <1>5, <2>1, <3>1
  <2> QED
    BY <1>13, <1>14, <1>15, <1>16, <2>2, <2>3, <2>4 DEF Inv
<1> QED
  BY <1>17, <1>18

\* Every step of the server and of the browser keeps the invariant.
LEMMA NextInv == Inv /\ [Next]_vars => Inv'
<1> SUFFICES ASSUME Inv, [Next]_vars PROVE Inv'
  OBVIOUS
<1>1. CASE Emit
  BY <1>1, EmitInv
<1>2. CASE AcceptStream
  BY <1>2, AcceptInv
<1>3. CASE RefuseStream \/ Reconnect
  <2>1. /\ stream # "open" /\ stream' \in {"opening", "given up"}
        /\ UNCHANGED <<server, wire, lastEventId, page, history>>
    BY <1>3 DEF RefuseStream, Reconnect
  <2> QED
    BY <2>1, NotOpenInv
<1>4. CASE ClearLog
  BY <1>4, ClearLogInv
<1>5. CASE Restart
  BY <1>5, RestartInv
<1>6. CASE LoseStream
  BY <1>6, LoseInv
<1>7. CASE OnMessage
  BY <1>7, OnMessageInv
<1>8. CASE TogglePause \/ CallClear \/ ClearCallFails \/ UNCHANGED vars
  <2>1. paused \in BOOLEAN /\ clearing \in {"no", "called", "answered"}
    BY DEF Inv, TypeOK
  <2>2. /\ paused' \in BOOLEAN /\ clearing' \in {"no", "called", "answered"}
        /\ UNCHANGED <<server, stream, wire, lastEventId, entries, history>>
    BY <1>8, <2>1 DEF TogglePause, CallClear, ClearCallFails, vars, page
  <2> QED
    BY <2>2, SwitchInv
<1>9. CASE EmptyPage
  BY <1>9, EmptyPageInv
<1>10. CASE Remount
  BY <1>10, RemountInv
<1> QED
  BY <1>1, <1>2, <1>3, <1>4, <1>5, <1>6, <1>7, <1>8, <1>9, <1>10 DEF Next

----------------------------------------------------------------------------
(* The theorems                                                            *)

\* The invariant holds of every state, for every ring, page and number of
\* starts.
THEOREM Invariance == Spec => []Inv
<1> QED
  BY InitInv, NextInv, PTL DEF Spec

\* The log never grows over LOG_BUFFER_SIZE and the page never over what it
\* keeps, and every number is one that emit gave out.
THEOREM TypeCorrect == Spec => []TypeOK
<1>1. Inv => TypeOK
  BY DEF Inv
<1> QED
  BY Invariance, <1>1, PTL

\* Whenever the connection breaks, the page has shown every entry, or has it on
\* its way, or the replay of the next connection has it; it misses only what
\* NothingLost excuses.
THEOREM NothingIsLost == Spec => []NothingLost
<1>1. Inv => NothingLost
  BY DEF Inv
<1> QED
  BY Invariance, <1>1, PTL

\* The page lists the traps in the order in which they arrived, across
\* reconnections, replays and restarts.
THEOREM InOrder == Spec => []PageInOrder
<1>1. Inv => PageInOrder
  BY DEF Inv
<1> QED
  BY Invariance, <1>1, PTL

\* An entry this page has shown since the API started comes to it only once,
\* also when it was cleared, or dropped from the page, in the meantime.
THEOREM ShownOnlyOnce == Spec => ShownOnce
<1>1. Inv /\ [Next]_vars =>
        [\A e \in Elements(entries') \ Elements(entries) : e.seq \notin shown]_vars
  <2> SUFFICES ASSUME Inv, Next, NEW x \in Elements(entries') \ Elements(entries)
               PROVE  x.seq \notin shown
    BY DEF vars, page, Elements
  <2>1. CASE OnMessage
    <3> DEFINE h == Head(wire)
               kept == KeepLast(entries, PageSize - 1)
               e == [epoch |-> epoch, seq |-> Head(wire)]
    <3>1. wire # <<>> /\ (entries' = entries \/ entries' = Append(kept, e))
      BY <2>1 DEF OnMessage
    <3>2. h \in Elements(wire) /\ h \in Nat
      <4>1. wire \in Seq(SeqNo)
        BY DEF Inv, TypeOK
      <4>2. 1 \in 1..Len(wire) /\ h = wire[1] /\ h \in SeqNo
        BY <3>1, <4>1, EmptySeq, LenProperties, HeadTailProperties
      <4>3. SeqNo \subseteq Nat
        BY DEF SeqNo
      <4> QED
        BY <4>2, <4>3 DEF Elements
    <3>3. \A seq \in shown : seq < h
      <4> SUFFICES ASSUME NEW seq \in shown PROVE seq < h
        OBVIOUS
      <4>1. lastEventId # None /\ seq <= lastEventId /\ h > lastEventId
        BY <3>2 DEF Inv, ShownInStep
      <4>2. lastEventId \in Nat /\ seq \in Nat
        BY <4>1, Numbers DEF Inv
      <4> QED
        BY <3>2, <4>1, <4>2
    <3>4. x = e
      <4>1. entries' = Append(kept, e)
        BY <3>1 DEF Elements
      <4>2. entries \in Seq(Entry) /\ PageSize - 1 \in Nat /\ e \in Entry
        <5>1. /\ entries \in Seq(Entry) /\ epoch \in 1..MaxEpoch /\ wire \in Seq(SeqNo)
          BY DEF Inv, TypeOK
        <5>2. h \in SeqNo
          BY <3>1, <5>1, HeadTailProperties
        <5> QED
          BY <5>1, <5>2, TerminalAssumption DEF Entry
      <4>3. /\ kept \in Seq(Entry) /\ Len(kept) <= Len(entries)
            /\ \A i \in 1..Len(kept) : kept[i] = entries[Len(entries) - Len(kept) + i]
        BY ONLY <4>2, KeepLastProperties
      <4>4. Len(kept) \in Nat /\ Len(entries) \in Nat
        BY <4>2, <4>3, LenProperties
      <4> HIDE DEF kept, e
      <4>5. /\ Len(entries') = Len(kept) + 1 /\ entries'[Len(kept) + 1] = e
            /\ \A i \in 1..Len(kept) : entries'[i] = kept[i]
        BY <4>1, <4>2, <4>3, AppendProperties
      <4>6. PICK i \in 1..Len(entries') : x = entries'[i]
        BY DEF Elements
      <4>7. \A j \in 1..Len(kept) : Len(entries) - Len(kept) + j \in 1..Len(entries)
        BY <4>3, <4>4
      <4>8. i \notin 1..Len(kept)
        BY <4>3, <4>5, <4>6, <4>7 DEF Elements
      <4> QED
        BY <4>4, <4>5, <4>6, <4>8
    <3>5. x.seq = h
      BY <3>4
    <3> QED
      BY <3>2, <3>3, <3>5
  <2>2. CASE EmptyPage \/ Remount
    <3>1. entries' = <<>>
      BY <2>2 DEF EmptyPage, Remount
    <3> QED
      BY <3>1 DEF Elements
  <2>3. CASE ~(OnMessage \/ EmptyPage \/ Remount)
    <3>1. entries' = entries
      BY <2>3 DEF Next, Emit, AcceptStream, RefuseStream, ClearLog, Restart, LoseStream,
                  Reconnect, TogglePause, CallClear, ClearCallFails, page
    <3> QED
      BY <3>1 DEF Elements
  <2> QED
    BY <2>1, <2>2, <2>3
<1> QED
  BY Invariance, <1>1, PTL DEF Spec, ShownOnce
=============================================================================
