--------------------------- MODULE VaultWorkProofs ---------------------------
(***************************************************************************)
(* Proofs about VaultWork, for every set of Vaults and every lane width:   *)
(* the queue's bookkeeping is exact, lanes keep their widths, a drained    *)
(* Vault starts nothing, and a paused Index turn yields.                   *)
(***************************************************************************)
EXTENDS VaultWork, TLAPS, SequenceTheorems, FiniteSetTheorems

-----------------------------------------------------------------------------
(* Sequences without repetition.                                           *)

LEMMA AppendDistinct ==
  ASSUME NEW S, NEW s \in Seq(S), IsInjective(s), NEW e \in S, e \notin ToSet(s)
  PROVE  /\ Append(s, e) \in Seq(S)
         /\ IsInjective(Append(s, e))
         /\ ToSet(Append(s, e)) = ToSet(s) \cup {e}
  <1>1. /\ Append(s, e) \in Seq(S)
        /\ Len(Append(s, e)) = Len(s) + 1
        /\ DOMAIN Append(s, e) = 1 .. (Len(s) + 1)
        /\ DOMAIN s = 1 .. Len(s)
        /\ Len(s) \in Nat
        /\ \A i \in 1 .. Len(s) : Append(s, e)[i] = s[i]
        /\ Append(s, e)[Len(s) + 1] = e
    OBVIOUS
  <1>2. IsInjective(Append(s, e))
    BY <1>1 DEF IsInjective, ToSet
  <1>3. ToSet(Append(s, e)) = ToSet(s) \cup {e}
    <2>1. ASSUME NEW x \in ToSet(Append(s, e)) PROVE x \in ToSet(s) \cup {e}
      BY <1>1 DEF ToSet
    <2>2. ASSUME NEW x \in ToSet(s) PROVE x \in ToSet(Append(s, e))
      <3>1. PICK i \in 1 .. Len(s) : s[i] = x
        BY <1>1 DEF ToSet
      <3>2. i \in DOMAIN Append(s, e) /\ Append(s, e)[i] = x
        BY <1>1, <3>1
      <3> QED BY <3>2 DEF ToSet
    <2>3. e \in ToSet(Append(s, e))
      BY <1>1 DEF ToSet
    <2> QED BY <2>1, <2>2, <2>3
  <1> QED BY <1>1, <1>2, <1>3

LEMMA RemoveAtElements ==
  ASSUME NEW S, NEW s \in Seq(S), NEW i \in 1 .. Len(s)
  PROVE  /\ RemoveAt(s, i) \in Seq(S)
         /\ Len(RemoveAt(s, i)) = Len(s) - 1
         /\ \A j \in 1 .. (Len(s) - 1) :
              RemoveAt(s, i)[j] = IF j < i THEN s[j] ELSE s[j + 1]
  <1> DEFINE a == SubSeq(s, 1, i - 1)
             b == SubSeq(s, i + 1, Len(s))
  <1>1. /\ Len(s) \in Nat
        /\ \A j \in 1 .. Len(s) : s[j] \in S
    BY ElementOfSeq
  <1>2. /\ a \in Seq(S) /\ Len(a) = i - 1
        /\ \A j \in 1 .. (i - 1) : a[j] = s[j]
    <2>1. \A j \in 1 .. (i - 1) : s[j] \in S
      BY <1>1
    <2>2. /\ a \in Seq(S)
          /\ Len(a) = IF 1 <= i - 1 THEN (i - 1) - 1 + 1 ELSE 0
          /\ \A j \in 1 .. (i - 1) - 1 + 1 : a[j] = s[1 + j - 1]
      BY <1>1, <2>1, SubSeqProperties
    <2> QED BY <2>2, <1>1
  <1>3. /\ b \in Seq(S) /\ Len(b) = Len(s) - i
        /\ \A j \in 1 .. (Len(s) - i) : b[j] = s[i + j]
    <2>1. \A j \in (i + 1) .. Len(s) : s[j] \in S
      BY <1>1
    <2>2. /\ b \in Seq(S)
          /\ Len(b) = IF i + 1 <= Len(s) THEN Len(s) - (i + 1) + 1 ELSE 0
          /\ \A j \in 1 .. Len(s) - (i + 1) + 1 : b[j] = s[(i + 1) + j - 1]
      BY <1>1, <2>1, SubSeqProperties
    <2> QED BY <2>2, <1>1
  <1> HIDE DEF a, b
  <1>4. /\ a \o b \in Seq(S)
        /\ Len(a \o b) = Len(a) + Len(b)
        /\ \A j \in 1 .. Len(a) + Len(b) :
             (a \o b)[j] = IF j <= Len(a) THEN a[j] ELSE b[j - Len(a)]
    BY <1>2, <1>3, ConcatProperties
  <1>5. RemoveAt(s, i) = a \o b
    BY DEF RemoveAt, a, b
  <1>6. Len(a \o b) = Len(s) - 1
    BY <1>1, <1>2, <1>3, <1>4
  <1>7. ASSUME NEW j \in 1 .. (Len(s) - 1)
        PROVE  (a \o b)[j] = IF j < i THEN s[j] ELSE s[j + 1]
    <2>1. CASE j < i
      BY <2>1, <1>1, <1>2, <1>3, <1>4
    <2>2. CASE ~(j < i)
      <3>1. j - (i - 1) \in 1 .. (Len(s) - i)
        BY <2>2, <1>1
      <3>2. b[j - (i - 1)] = s[i + (j - (i - 1))]
        BY <3>1, <1>3
      <3> QED BY <2>2, <3>1, <3>2, <1>1, <1>2, <1>3, <1>4
    <2> QED BY <2>1, <2>2
  <1> QED BY <1>4, <1>5, <1>6, <1>7

LEMMA RemoveAtDistinct ==
  ASSUME NEW S, NEW s \in Seq(S), IsInjective(s), NEW i \in 1 .. Len(s)
  PROVE  /\ IsInjective(RemoveAt(s, i))
         /\ ToSet(RemoveAt(s, i)) = ToSet(s) \ {s[i]}
  <1> DEFINE r == RemoveAt(s, i)
  <1>a. /\ r \in Seq(S)
        /\ Len(r) = Len(s) - 1
        /\ \A j \in 1 .. (Len(s) - 1) : r[j] = IF j < i THEN s[j] ELSE s[j + 1]
    BY RemoveAtElements
  <1> HIDE DEF r
  <1>1. /\ Len(s) \in Nat
        /\ DOMAIN r = 1 .. (Len(s) - 1)
        /\ DOMAIN s = 1 .. Len(s)
        /\ \A j \in 1 .. (Len(s) - 1) : r[j] = IF j < i THEN s[j] ELSE s[j + 1]
    BY <1>a
  <1>2. IsInjective(r)
    <2> SUFFICES ASSUME NEW j \in 1 .. (Len(s) - 1), NEW k \in 1 .. (Len(s) - 1),
                        r[j] = r[k]
                 PROVE  j = k
      BY <1>1 DEF IsInjective
    <2>1. \A m, n \in 1 .. Len(s) : s[m] = s[n] => m = n
      BY <1>1 DEF IsInjective
    <2>2. /\ r[j] = IF j < i THEN s[j] ELSE s[j + 1]
          /\ r[k] = IF k < i THEN s[k] ELSE s[k + 1]
      BY <1>1
    <2>3. /\ j \in 1 .. Len(s) /\ j + 1 \in 1 .. Len(s)
          /\ k \in 1 .. Len(s) /\ k + 1 \in 1 .. Len(s)
      BY <1>1
    <2>4. CASE j < i /\ k < i           BY <2>1, <2>2, <2>3, <2>4
    <2>5. CASE ~(j < i) /\ ~(k < i)
      <3>1. s[j + 1] = s[k + 1] BY <2>2, <2>5
      <3>2. j + 1 = k + 1       BY <3>1, <2>1, <2>3
      <3> QED BY <3>2
    <2>6. CASE j < i /\ ~(k < i)
      <3>1. s[j] = s[k + 1] BY <2>2, <2>6
      <3>2. j = k + 1       BY <3>1, <2>1, <2>3
      <3> QED BY <3>2, <2>6
    <2>7. CASE ~(j < i) /\ k < i
      <3>1. s[j + 1] = s[k] BY <2>2, <2>7
      <3>2. j + 1 = k       BY <3>1, <2>1, <2>3
      <3> QED BY <3>2, <2>7
    <2> QED BY <2>4, <2>5, <2>6, <2>7
  <1>3. ASSUME NEW x \in ToSet(r) PROVE x \in ToSet(s) \ {s[i]}
    <2>1. PICK j \in 1 .. (Len(s) - 1) : r[j] = x
      BY <1>1 DEF ToSet
    <2>2. PICK k \in 1 .. Len(s) : k # i /\ s[k] = x
      BY <2>1, <1>1
    <2> QED BY <2>2, <1>1 DEF ToSet, IsInjective
  <1>4. ASSUME NEW x \in ToSet(s) \ {s[i]} PROVE x \in ToSet(r)
    <2>1. PICK k \in 1 .. Len(s) : s[k] = x /\ k # i
      BY <1>1 DEF ToSet
    <2>2. PICK j \in 1 .. (Len(s) - 1) : r[j] = x
      <3>1. CASE k < i BY <3>1, <2>1, <1>1
      <3>2. CASE k > i
        <4>1. k - 1 \in 1 .. (Len(s) - 1) /\ ~(k - 1 < i) /\ (k - 1) + 1 = k
          BY <3>2, <1>1
        <4>2. r[k - 1] = s[k]
          BY <4>1, <1>1
        <4> QED BY <4>1, <4>2, <2>1
      <3> QED BY <3>1, <3>2, <2>1
    <2> QED BY <2>2, <1>1 DEF ToSet
  <1> QED BY <1>2, <1>3, <1>4 DEF r

LEMMA WithoutDistinct ==
  ASSUME NEW S, NEW s \in Seq(S), IsInjective(s), NEW p
  PROVE  /\ Without(s, p) \in Seq(S)
         /\ IsInjective(Without(s, p))
         /\ ToSet(Without(s, p)) = ToSet(s) \ {p}
  <1>1. CASE p \in ToSet(s)
    <2> DEFINE i == CHOOSE i \in DOMAIN s : s[i] = p
    <2>1. i \in DOMAIN s /\ s[i] = p
      BY <1>1 DEF ToSet
    <2>2. i \in 1 .. Len(s)
      BY <2>1
    <2>3. Without(s, p) = RemoveAt(s, i)
      BY <1>1 DEF Without
    <2> HIDE DEF i
    <2> QED BY <2>1, <2>2, <2>3, RemoveAtElements, RemoveAtDistinct
  <1>2. CASE p \notin ToSet(s)
    BY <1>2 DEF Without
  <1> QED BY <1>1, <1>2

LEMMA TailDistinct ==
  ASSUME NEW S, NEW s \in Seq(S), IsInjective(s), s # <<>>
  PROVE  /\ Tail(s) \in Seq(S)
         /\ Head(s) \in S
         /\ IsInjective(Tail(s))
         /\ ToSet(Tail(s)) = ToSet(s) \ {Head(s)}
         /\ Head(s) \in ToSet(s)
  <1>1. /\ Tail(s) \in Seq(S)
        /\ Len(s) \in Nat \ {0}
        /\ Len(Tail(s)) = Len(s) - 1
        /\ DOMAIN s = 1 .. Len(s)
        /\ DOMAIN Tail(s) = 1 .. (Len(s) - 1)
        /\ Head(s) = s[1]
        /\ Head(s) \in S
        /\ \A j \in 1 .. (Len(s) - 1) : Tail(s)[j] = s[j + 1]
    BY EmptySeq, HeadTailProperties
  <1>2. IsInjective(Tail(s))
    BY <1>1 DEF IsInjective
  <1>3. ASSUME NEW x \in ToSet(Tail(s)) PROVE x \in ToSet(s) \ {Head(s)}
    <2>1. PICK j \in 1 .. (Len(s) - 1) : Tail(s)[j] = x
      BY <1>1 DEF ToSet
    <2>2. j + 1 \in 1 .. Len(s) /\ s[j + 1] = x /\ j + 1 # 1
      BY <2>1, <1>1
    <2> QED BY <2>2, <1>1 DEF ToSet, IsInjective
  <1>4. ASSUME NEW x \in ToSet(s) \ {Head(s)} PROVE x \in ToSet(Tail(s))
    <2>1. PICK k \in 1 .. Len(s) : s[k] = x /\ k # 1
      BY <1>1 DEF ToSet
    <2>2. k - 1 \in 1 .. (Len(s) - 1) /\ Tail(s)[k - 1] = x
      BY <2>1, <1>1
    <2> QED BY <2>2, <1>1 DEF ToSet
  <1>5. Head(s) \in ToSet(s)
    BY <1>1 DEF ToSet
  <1> QED BY <1>1, <1>2, <1>3, <1>4, <1>5

-----------------------------------------------------------------------------
(* The queue's bookkeeping as one inductive invariant.                     *)

IInv ==
  /\ TypeOK
  /\ FifoExact
  /\ PendingExact
  /\ PresentExact
  /\ ClosedIsEmpty
  /\ LaneWidth

LEMMA PositionParts ==
  /\ \A p \in Position : p = <<p[1], p[2]>> /\ p[1] \in Vault /\ p[2] \in Lane
  /\ \A v \in Vault, l \in Lane : /\ <<v, l>> \in Position
                                  /\ <<v, l>>[1] = v
                                  /\ <<v, l>>[2] = l
  BY DEF Position

LEMMA LaneOfKind ==
  \A k \in Kind : LaneOf(k) \in Lane /\ k \in KindsOf(LaneOf(k)) /\ k # Idle
  BY VaultWorkAssumption DEF Kind, LaneOf, Lane, KindsOf

LEMMA RunningFinite ==
  \A l : IsFiniteSet(RunningIn(l)) /\ Cardinality(RunningIn(l)) \in Nat
  BY VaultWorkAssumption, FS_Subset, FS_CardinalityType DEF RunningIn

\* Facts about the widths that the counters are compared with.
LEMMA WidthType == \A l \in Lane : Width(l) \in Nat \ {0}
  BY VaultWorkAssumption DEF Width, Lane

LEMMA InitIInv == Init => IInv
  <1> SUFFICES ASSUME Init PROVE IInv
    OBVIOUS
  <1>1. /\ fifo = <<>> /\ DOMAIN fifo = {}
        /\ ToSet(fifo) = {} /\ IsInjective(fifo)
    BY DEF Init, ToSet, IsInjective
  <1>2. TypeOK
    BY <1>1 DEF Init, TypeOK, Position
  <1>3. FifoExact
    BY <1>1 DEF Init, FifoExact
  <1>4. PendingExact
    BY <1>1 DEF Init, PendingExact, ToSet, IsInjective
  <1>5. PresentExact /\ ClosedIsEmpty
    BY PositionParts DEF Init, PresentExact, ClosedIsEmpty
  <1>6. LaneWidth
    <2> SUFFICES ASSUME NEW l \in Lane
                 PROVE  running[l] = Cardinality(RunningIn(l)) /\ running[l] <= Width(l)
      BY DEF LaneWidth
    <2>1. RunningIn(l) = {}
      BY PositionParts DEF Init, RunningIn
    <2> QED BY <2>1, FS_EmptySet, WidthType DEF Init
  <1> QED BY <1>2, <1>3, <1>4, <1>5, <1>6 DEF IInv

\* enqueue keeps the invariant: it is called only for a kind that is not
\* pending, on an admitting Vault.
LEMMA EnqueueIInv ==
  ASSUME IInv, NEW v \in Vault, NEW k \in Kind, Admits(v),
         k \notin pendingKinds[<<v, LaneOf(k)>>], Enqueue(v, k)
  PROVE  IInv'
  <1> DEFINE p == <<v, LaneOf(k)>>
  <1>a. /\ p \in Position /\ p[1] = v /\ p[2] = LaneOf(k)
        /\ LaneOf(k) \in Lane /\ k \in KindsOf(LaneOf(k))
    BY PositionParts, LaneOfKind
  <1>b. /\ pending[p] \in Seq(Kind) /\ pending[p] \in Seq(KindsOf(LaneOf(k)))
        /\ IsInjective(pending[p]) /\ k \notin ToSet(pending[p])
    BY <1>a DEF IInv, TypeOK, PendingExact
  <1>c. /\ Append(pending[p], k) \in Seq(Kind)
        /\ Append(pending[p], k) \in Seq(KindsOf(LaneOf(k)))
        /\ IsInjective(Append(pending[p], k))
        /\ ToSet(Append(pending[p], k)) = ToSet(pending[p]) \cup {k}
        /\ Append(pending[p], k) # <<>>
    BY <1>a, <1>b, AppendDistinct
  <1>d. /\ present' = present \cup {v}
        /\ pending' = [pending EXCEPT ![p] = Append(@, k)]
        /\ pendingKinds' = [pendingKinds EXCEPT ![p] = @ \cup {k}]
        /\ queued' = [queued EXCEPT ![p] = TRUE]
        /\ fifo' = IF queued[p] THEN fifo ELSE Append(fifo, p)
        /\ announce' \in {announce, announce \cup {v}}
        /\ UNCHANGED <<accepting, drained, running, active, pausing, shown, yieldedTo>>
    BY DEF Enqueue, TakingPosition, Announce
  <1> HIDE DEF p
  <1>1. /\ fifo' \in Seq(Position) /\ IsInjective(fifo')
        /\ ToSet(fifo') = ToSet(fifo) \cup {p}
    <2>1. CASE queued[p]
      BY <2>1, <1>a, <1>d DEF IInv, TypeOK, FifoExact
    <2>2. CASE ~queued[p]
      BY <2>2, <1>a, <1>d, AppendDistinct DEF IInv, TypeOK, FifoExact
    <2> QED BY <2>1, <2>2
  <1>2. TypeOK'
    BY <1>a, <1>c, <1>d, <1>1 DEF IInv, TypeOK
  <1>3. FifoExact'
    BY <1>a, <1>c, <1>d, <1>1 DEF IInv, TypeOK, FifoExact
  <1>4. PendingExact'
    BY <1>a, <1>c, <1>d DEF IInv, TypeOK, PendingExact
  <1>5. PresentExact'
    BY <1>a, <1>d, PositionParts DEF IInv, TypeOK, PresentExact, p
  <1>6. ClosedIsEmpty'
    BY <1>a, <1>d, PositionParts DEF IInv, TypeOK, ClosedIsEmpty, Admits, p
  <1>7. LaneWidth'
    BY <1>d DEF IInv, LaneWidth, RunningIn
  <1> QED BY <1>2, <1>3, <1>4, <1>5, <1>6, <1>7 DEF IInv

\* What take_next changes, with the popped position and kind named.
LEMMA TakeNextFacts ==
  ASSUME IInv, NEW i \in DOMAIN fifo, TakeNext(i)
  PROVE  LET p == fifo[i]
             h == Head(pending[p])
             rest == Tail(pending[p])
         IN /\ i \in 1 .. Len(fifo)
            /\ p \in Position /\ queued[p] /\ pending[p] # <<>>
            /\ active[p] = Idle /\ running[p[2]] < Width(p[2])
            /\ h \in KindsOf(p[2]) /\ h \in Kind /\ h # Idle
            /\ rest \in Seq(Kind) /\ rest \in Seq(KindsOf(p[2])) /\ IsInjective(rest)
            /\ ToSet(rest) = pendingKinds[p] \ {h}
            /\ fifo' \in Seq(Position) /\ IsInjective(fifo')
            /\ ToSet(fifo') = IF rest # <<>> THEN ToSet(fifo) ELSE ToSet(fifo) \ {p}
  <1> DEFINE p == fifo[i]
             h == Head(pending[p])
             rest == Tail(pending[p])
  <1>1. /\ i \in 1 .. Len(fifo) /\ p \in Position /\ p \in ToSet(fifo)
        /\ fifo \in Seq(Position) /\ IsInjective(fifo)
    BY DEF IInv, TypeOK, FifoExact, ToSet
  <1>2. queued[p] /\ pending[p] # <<>>
    BY <1>1 DEF IInv, FifoExact
  <1>3. active[p] = Idle /\ running[p[2]] < Width(p[2])
    BY DEF TakeNext, Admissible
  <1>4. /\ pending[p] \in Seq(Kind) /\ pending[p] \in Seq(KindsOf(p[2]))
        /\ IsInjective(pending[p]) /\ pendingKinds[p] = ToSet(pending[p])
    BY <1>1 DEF IInv, TypeOK, PendingExact
  <1>5. /\ h \in KindsOf(p[2]) /\ h \in Kind
        /\ rest \in Seq(Kind) /\ rest \in Seq(KindsOf(p[2])) /\ IsInjective(rest)
        /\ ToSet(rest) = pendingKinds[p] \ {h}
    BY <1>2, <1>4, TailDistinct
  <1>6. h # Idle
    BY <1>5, LaneOfKind
  <1>7. /\ RemoveAt(fifo, i) \in Seq(Position) /\ IsInjective(RemoveAt(fifo, i))
        /\ ToSet(RemoveAt(fifo, i)) = ToSet(fifo) \ {p}
    BY <1>1, RemoveAtElements, RemoveAtDistinct
  <1>8. fifo' = IF rest # <<>> THEN Append(RemoveAt(fifo, i), p) ELSE RemoveAt(fifo, i)
    BY DEF TakeNext
  <1> HIDE DEF p, h, rest
  <1>9. /\ fifo' \in Seq(Position) /\ IsInjective(fifo')
        /\ ToSet(fifo') = IF rest # <<>> THEN ToSet(fifo) ELSE ToSet(fifo) \ {p}
    <2>1. CASE rest # <<>>
      <3>1. /\ Append(RemoveAt(fifo, i), p) \in Seq(Position)
            /\ IsInjective(Append(RemoveAt(fifo, i), p))
            /\ ToSet(Append(RemoveAt(fifo, i), p)) = (ToSet(fifo) \ {p}) \cup {p}
        BY <1>1, <1>7, AppendDistinct
      <3> QED BY <2>1, <3>1, <1>1, <1>8
    <2>2. CASE rest = <<>>
      BY <2>2, <1>7, <1>8
    <2> QED BY <2>1, <2>2
  <1> QED BY <1>1, <1>2, <1>3, <1>5, <1>6, <1>9 DEF p, h, rest

LEMMA TakeNextIInv ==
  ASSUME IInv, NEW i \in DOMAIN fifo, TakeNext(i)
  PROVE  IInv'
  <1> DEFINE p == fifo[i]
             h == Head(pending[p])
             rest == Tail(pending[p])
  <1>a. /\ p \in Position /\ queued[p]
        /\ active[p] = Idle /\ running[p[2]] < Width(p[2])
        /\ h \in KindsOf(p[2]) /\ h \in Kind /\ h # Idle
        /\ rest \in Seq(Kind) /\ rest \in Seq(KindsOf(p[2])) /\ IsInjective(rest)
        /\ ToSet(rest) = pendingKinds[p] \ {h}
        /\ fifo' \in Seq(Position) /\ IsInjective(fifo')
        /\ ToSet(fifo') = IF rest # <<>> THEN ToSet(fifo) ELSE ToSet(fifo) \ {p}
    BY TakeNextFacts
  <1>b. /\ active' = [active EXCEPT ![p] = h]
        /\ pending' = [pending EXCEPT ![p] = rest]
        /\ pendingKinds' = [pendingKinds EXCEPT ![p] = @ \ {h}]
        /\ queued' = [queued EXCEPT ![p] = (rest # <<>>)]
        /\ running' = [running EXCEPT ![p[2]] = @ + 1]
        /\ announce' \in {announce, announce \cup {p[1]}}
        /\ yieldedTo' \in {[u \in Vault |-> yieldedTo[u] \ {p[1]}], yieldedTo}
        /\ UNCHANGED <<accepting, drained, present, pausing, shown>>
    BY DEF TakeNext, Announce
  <1>c. p[1] \in Vault /\ p[2] \in Lane /\ p = <<p[1], p[2]>>
    BY <1>a, PositionParts
  <1> HIDE DEF p, h, rest
  <1>d. ASSUME NEW u \in Vault, NEW l \in Lane
        PROVE  /\ active'[<<u, l>>] = IF u = p[1] /\ l = p[2] THEN h ELSE active[<<u, l>>]
               /\ queued'[<<u, l>>] = IF u = p[1] /\ l = p[2] THEN rest # <<>>
                                                          ELSE queued[<<u, l>>]
    <2>1. <<u, l>> \in Position /\ (<<u, l>> = p <=> u = p[1] /\ l = p[2])
      BY <1>c, PositionParts
    <2> QED BY <2>1, <1>b DEF IInv, TypeOK
  <1>e. active[<<p[1], p[2]>>] = Idle /\ queued[<<p[1], p[2]>>]
    BY <1>a, <1>c
  <1>1. TypeOK'
    <2>1. running' \in [Lane -> Nat]
      BY <1>b, <1>c DEF IInv, TypeOK
    <2>2. yieldedTo' \in [Vault -> SUBSET Vault]
      BY <1>b DEF IInv, TypeOK
    <2> QED BY <1>a, <1>b, <1>c, <2>1, <2>2 DEF IInv, TypeOK
  <1>2. FifoExact'
    BY <1>a, <1>b DEF IInv, TypeOK, FifoExact
  <1>3. PendingExact'
    BY <1>a, <1>b DEF IInv, TypeOK, PendingExact
  <1>4. PresentExact'
    <2> SUFFICES ASSUME NEW v \in Vault
                 PROVE  v \in present' <=>
                   \E l \in Lane : active'[<<v, l>>] # Idle \/ queued'[<<v, l>>]
      BY DEF PresentExact
    <2>1. CASE v = p[1]
      <3>1. v \in present /\ v \in present'
        BY <2>1, <1>b, <1>c, <1>e DEF IInv, PresentExact
      <3>2. active'[<<v, p[2]>>] # Idle
        BY <2>1, <1>a, <1>c, <1>d
      <3> QED BY <3>1, <3>2, <1>c
    <2>2. CASE v # p[1]
      <3>1. \A l \in Lane : /\ active'[<<v, l>>] = active[<<v, l>>]
                            /\ queued'[<<v, l>>] = queued[<<v, l>>]
        BY <2>2, <1>d
      <3> QED BY <3>1, <1>b DEF IInv, PresentExact
    <2> QED BY <2>1, <2>2
  <1>5. ClosedIsEmpty'
    BY <1>a, <1>b, <1>c, PositionParts DEF IInv, TypeOK, ClosedIsEmpty, Admits
  <1>6. LaneWidth'
    <2> SUFFICES ASSUME NEW l \in Lane
                 PROVE  /\ running'[l] = Cardinality(RunningIn(l)')
                        /\ running'[l] <= Width(l)
      BY DEF LaneWidth
    <2>1. CASE l = p[2]
      <3>1. RunningIn(l)' = RunningIn(l) \cup {p[1]}
        BY <2>1, <1>a, <1>c, <1>d DEF RunningIn
      <3>2. p[1] \notin RunningIn(l)
        BY <2>1, <1>e DEF RunningIn
      <3>3. Cardinality(RunningIn(l)') = Cardinality(RunningIn(l)) + 1
        BY <3>1, <3>2, FS_AddElement, RunningFinite
      <3>4. running'[l] = running[l] + 1
        BY <2>1, <1>b, <1>c DEF IInv, TypeOK
      <3>5. running[l] = Cardinality(RunningIn(l)) /\ running[l] < Width(l)
        BY <2>1, <1>a DEF IInv, LaneWidth
      <3> QED BY <3>3, <3>4, <3>5, RunningFinite, WidthType
    <2>2. CASE l # p[2]
      <3>1. RunningIn(l)' = RunningIn(l)
        BY <2>2, <1>d DEF RunningIn
      <3>2. running'[l] = running[l]
        BY <2>2, <1>b, <1>c DEF IInv, TypeOK
      <3> QED BY <3>1, <3>2 DEF IInv, LaneWidth
    <2> QED BY <2>1, <2>2
  <1> QED BY <1>1, <1>2, <1>3, <1>4, <1>5, <1>6 DEF IInv

LEMMA CompleteIInv ==
  ASSUME IInv, NEW v \in Vault, NEW l \in Lane, Complete(v, l)
  PROVE  IInv'
  <1> DEFINE p == <<v, l>>
  <1>a. p \in Position /\ p[1] = v /\ p[2] = l /\ active[p] # Idle
    BY PositionParts DEF Complete, IdleWithout
  <1>b. /\ active' = [active EXCEPT ![p] = Idle]
        /\ running' = [running EXCEPT ![l] = @ - 1]
        /\ present' = IF \A m \in Lane : ~queued[<<v, m>>]
                                         /\ (m = l \/ active[<<v, m>>] = Idle)
                      THEN present \ {v} ELSE present
        /\ pausing' \in {[pausing EXCEPT ![v] = "no"], pausing}
        /\ announce' \in {announce, announce \cup {v}}
        /\ UNCHANGED <<accepting, drained, fifo, pending, pendingKinds, queued, shown,
                       yieldedTo>>
    BY DEF Complete, IdleWithout, Announce
  <1> HIDE DEF p
  <1>1. /\ RunningIn(l)' = RunningIn(l) \ {v}
        /\ v \in RunningIn(l)
        /\ \A m \in Lane \ {l} : RunningIn(m)' = RunningIn(m)
    BY <1>a, <1>b, PositionParts DEF IInv, TypeOK, RunningIn, p
  <1>2. /\ Cardinality(RunningIn(l)') = Cardinality(RunningIn(l)) - 1
        /\ Cardinality(RunningIn(l)') \in Nat
    BY <1>1, FS_RemoveElement, FS_CardinalityType, RunningFinite
  <1>3. /\ running'[l] = running[l] - 1
        /\ running[l] = Cardinality(RunningIn(l)) /\ running[l] <= Width(l)
        /\ \A m \in Lane \ {l} : running'[m] = running[m]
    BY <1>b DEF IInv, TypeOK, LaneWidth
  <1>4. LaneWidth'
    <2>1. running'[l] = Cardinality(RunningIn(l)') /\ running'[l] <= Width(l)
      BY <1>2, <1>3, RunningFinite, WidthType
    <2> QED BY <2>1, <1>1, <1>3 DEF IInv, LaneWidth
  <1>5. TypeOK'
    <2>1. running' \in [Lane -> Nat]
      BY <1>b, <1>2, <1>3, RunningFinite DEF IInv, TypeOK
    <2> QED BY <1>a, <1>b, <2>1 DEF IInv, TypeOK
  <1>6. FifoExact' /\ PendingExact'
    BY <1>b DEF IInv, FifoExact, PendingExact
  <1>c. \A u \in Vault, m \in Lane :
          active'[<<u, m>>] = IF u = v /\ m = l THEN Idle ELSE active[<<u, m>>]
    BY <1>a, <1>b, PositionParts DEF IInv, TypeOK, p
  <1>7. PresentExact'
    <2> SUFFICES ASSUME NEW u \in Vault
                 PROVE  u \in present' <=>
                   \E m \in Lane : active'[<<u, m>>] # Idle \/ queued'[<<u, m>>]
      BY DEF PresentExact
    <2>1. u \in present <=> \E m \in Lane : active[<<u, m>>] # Idle \/ queued[<<u, m>>]
      BY DEF IInv, PresentExact
    <2>2. CASE u # v
      BY <2>1, <2>2, <1>b, <1>c
    <2>3. CASE u = v
      <3>1. v \in present
        BY <2>1, <2>3, <1>a DEF p
      <3>2. v \in present' <=> \E m \in Lane : queued[<<v, m>>]
                                            \/ (m # l /\ active[<<v, m>>] # Idle)
        BY <3>1, <1>b
      <3> QED BY <3>2, <2>3, <1>b, <1>c
    <2> QED BY <2>2, <2>3
  <1>8. ClosedIsEmpty'
    BY <1>b DEF IInv, ClosedIsEmpty, Admits
  <1> QED BY <1>4, <1>5, <1>6, <1>7, <1>8 DEF IInv

LEMMA DrainIInv ==
  ASSUME IInv, NEW v \in Vault, DrainVault(v)
  PROVE  IInv'
  <1> DEFINE f1 == Without(fifo, <<v, "Index">>)
             f2 == Without(f1, <<v, "Git">>)
  <1>a. /\ drained' = drained \cup {v}
        /\ fifo' = f2
        /\ pending' = [p \in Position |-> IF p[1] = v THEN <<>> ELSE pending[p]]
        /\ pendingKinds' = [p \in Position |-> IF p[1] = v THEN {} ELSE pendingKinds[p]]
        /\ queued' = [p \in Position |-> IF p[1] = v THEN FALSE ELSE queued[p]]
        /\ present' = IF \A l \in Lane : active[<<v, l>>] = Idle
                      THEN present \ {v} ELSE present
        /\ announce' = announce \cup {v}
        /\ yieldedTo' = [u \in Vault |-> IF u = v THEN {} ELSE yieldedTo[u] \ {v}]
        /\ UNCHANGED <<accepting, running, active, pausing, shown>>
    BY DEF DrainVault
  <1>b. /\ f1 \in Seq(Position) /\ IsInjective(f1)
        /\ ToSet(f1) = ToSet(fifo) \ {<<v, "Index">>}
    BY WithoutDistinct DEF IInv, TypeOK, FifoExact
  <1>c. /\ f2 \in Seq(Position) /\ IsInjective(f2)
        /\ ToSet(f2) = ToSet(f1) \ {<<v, "Git">>}
    BY <1>b, WithoutDistinct
  <1> HIDE DEF f1, f2
  <1>d. ASSUME NEW p \in Position
        PROVE  /\ p \in ToSet(fifo') <=> p \in ToSet(fifo) /\ p[1] # v
               /\ queued'[p] = IF p[1] = v THEN FALSE ELSE queued[p]
    <2>1. p[1] = v <=> p \in {<<v, "Index">>, <<v, "Git">>}
      BY PositionParts DEF Lane
    <2> QED BY <2>1, <1>a, <1>b, <1>c
  <1>1. TypeOK'
    <2>1. \A p \in Position : <<>> \in Seq(KindsOf(p[2])) /\ <<>> \in Seq(Kind)
      OBVIOUS
    <2>2. yieldedTo' \in [Vault -> SUBSET Vault]
      BY <1>a DEF IInv, TypeOK
    <2>3. \A p \in Position : pending'[p] \in Seq(KindsOf(p[2]))
      BY <1>a, <2>1 DEF IInv, TypeOK
    <2> QED BY <1>a, <1>c, <2>1, <2>2, <2>3 DEF IInv, TypeOK
  <1>2. FifoExact'
    BY <1>a, <1>c, <1>d DEF IInv, TypeOK, FifoExact
  <1>3. PendingExact'
    <2>1. ToSet(<<>>) = {} /\ IsInjective(<<>>)
      BY DEF ToSet, IsInjective
    <2> QED BY <1>a, <2>1 DEF IInv, TypeOK, PendingExact
  <1>e. ASSUME NEW u \in Vault, NEW l \in Lane
        PROVE  queued'[<<u, l>>] = IF u = v THEN FALSE ELSE queued[<<u, l>>]
    <2>1. <<u, l>> \in Position /\ <<u, l>>[1] = u
      BY PositionParts
    <2> QED BY <2>1, <1>d
  <1>4. PresentExact'
    <2> SUFFICES ASSUME NEW u \in Vault
                 PROVE  u \in present' <=>
                   \E l \in Lane : active'[<<u, l>>] # Idle \/ queued'[<<u, l>>]
      BY DEF PresentExact
    <2>1. CASE u = v
      BY <2>1, <1>a, <1>e DEF IInv, PresentExact
    <2>2. CASE u # v
      BY <2>2, <1>a, <1>e DEF IInv, PresentExact
    <2> QED BY <2>1, <2>2
  <1>5. ClosedIsEmpty'
    BY <1>a, <1>e DEF IInv, ClosedIsEmpty, Admits
  <1>6. LaneWidth'
    BY <1>a DEF IInv, LaneWidth, RunningIn
  <1> QED BY <1>1, <1>2, <1>3, <1>4, <1>5, <1>6 DEF IInv

LEMMA ActivateIInv ==
  ASSUME IInv, NEW v \in Vault, ActivateVault(v)
  PROVE  IInv'
  <1>a. /\ accepting /\ drained' = drained \ {v}
        /\ UNCHANGED <<accepting, fifo, running, present, active, pending,
                       pendingKinds, queued, pausing, announce, shown, yieldedTo>>
    BY DEF ActivateVault
  <1>1. TypeOK'        BY <1>a DEF IInv, TypeOK
  <1>2. FifoExact'     BY <1>a DEF IInv, FifoExact
  <1>3. PendingExact'  BY <1>a DEF IInv, PendingExact
  <1>4. PresentExact'  BY <1>a DEF IInv, PresentExact
  <1>5. ClosedIsEmpty' BY <1>a DEF IInv, ClosedIsEmpty, Admits
  <1>6. LaneWidth'     BY <1>a DEF IInv, LaneWidth, RunningIn
  <1> QED BY <1>1, <1>2, <1>3, <1>4, <1>5, <1>6 DEF IInv

LEMMA ShutdownIInv ==
  ASSUME IInv, Shutdown
  PROVE  IInv'
  <1>a. ToSet(<<>>) = {} /\ IsInjective(<<>>) /\ DOMAIN <<>> = {}
    BY DEF ToSet, IsInjective
  <1>1. TypeOK'
    <2>1. \A p \in Position : <<>> \in Seq(KindsOf(p[2])) /\ <<>> \in Seq(Kind)
      OBVIOUS
    <2>a. /\ accepting' = FALSE /\ fifo' = <<>>
          /\ present' = {v \in present : \E l \in Lane : active[<<v, l>>] # Idle}
          /\ announce' = announce \cup present
          /\ UNCHANGED <<drained, running, active>>
      BY DEF Shutdown
    <2>2. /\ accepting' \in BOOLEAN /\ drained' \subseteq Vault /\ fifo' \in Seq(Position)
          /\ running' \in [Lane -> Nat] /\ active' \in [Position -> Kind \cup {Idle}]
          /\ \A p \in Position : active'[p] \in KindsOf(p[2]) \cup {Idle}
      BY <2>a, EmptySeq DEF IInv, TypeOK
    <2>b. present' \subseteq Vault /\ announce' \subseteq Vault
      BY <2>a DEF IInv, TypeOK
    <2>3. /\ pending' \in [Position -> Seq(Kind)]
          /\ \A p \in Position : pending'[p] \in Seq(KindsOf(p[2]))
          /\ pendingKinds' \in [Position -> SUBSET Kind]
          /\ queued' \in [Position -> BOOLEAN]
          /\ yieldedTo' \in [Vault -> SUBSET Vault]
      BY <2>1 DEF Shutdown
    <2>4. /\ pausing' \in [Vault -> {"no", "asked", "requeued"}]
          /\ shown' \in [Vault -> {"none", "waiting", "running"}]
      BY DEF Shutdown, IInv, TypeOK
    <2> QED BY <2>2, <2>b, <2>3, <2>4 DEF TypeOK
  <1>2. FifoExact'
    BY <1>a DEF Shutdown, FifoExact
  <1>3. PendingExact'
    BY <1>a DEF Shutdown, PendingExact
  <1>4. PresentExact'
    BY PositionParts DEF Shutdown, IInv, TypeOK, PresentExact
  <1>5. ClosedIsEmpty'
    BY PositionParts DEF Shutdown, ClosedIsEmpty
  <1>6. LaneWidth'
    BY DEF Shutdown, IInv, LaneWidth, RunningIn
  <1> QED BY <1>1, <1>2, <1>3, <1>4, <1>5, <1>6 DEF IInv

\* A step that leaves the queue's own state alone keeps the invariant.
LEMMA QueueUnchangedIInv ==
  ASSUME IInv, UNCHANGED queue,
         announce' \subseteq Vault,
         pausing' \in [Vault -> {"no", "asked", "requeued"}],
         shown' \in [Vault -> {"none", "waiting", "running"}],
         yieldedTo' \in [Vault -> SUBSET Vault]
  PROVE  IInv'
  <1>a. UNCHANGED <<accepting, drained, fifo, running, present, active, pending,
                    pendingKinds, queued>>
    BY DEF queue
  <1>1. TypeOK'        BY <1>a DEF IInv, TypeOK
  <1>2. FifoExact'     BY <1>a DEF IInv, FifoExact
  <1>3. PendingExact'  BY <1>a DEF IInv, PendingExact
  <1>4. PresentExact'  BY <1>a DEF IInv, PresentExact
  <1>5. ClosedIsEmpty' BY <1>a DEF IInv, ClosedIsEmpty, Admits
  <1>6. LaneWidth'     BY <1>a DEF IInv, LaneWidth, RunningIn
  <1> QED BY <1>1, <1>2, <1>3, <1>4, <1>5, <1>6 DEF IInv

\* What a pausing turn's requeue changes when its Vault still admits work.
LEMMA RequeueFacts ==
  ASSUME IInv, NEW v \in Vault, RequeuePausedIndexTurn(v), Admits(v)
  PROVE  LET p == <<v, "Index">>
         IN /\ p \in Position /\ p[1] = v /\ p[2] = "Index"
            /\ fifo' = Append(Without(fifo, p), p)
            /\ fifo' \in Seq(Position) /\ IsInjective(fifo')
            /\ ToSet(fifo') = ToSet(fifo) \cup {p}
            /\ present' = present \cup {v}
            /\ pendingKinds' = [pendingKinds EXCEPT ![p] = @ \cup {"Index"}]
            /\ pending' = [pending EXCEPT ![p] =
                             IF "Index" \in pendingKinds[p] THEN @ ELSE Append(@, "Index")]
            /\ queued' = [queued EXCEPT ![p] = TRUE]
            /\ announce' = announce \cup {v}
            /\ yieldedTo' = [yieldedTo EXCEPT ![v] =
                               {u \in Vault \ {v} : queued[<<u, "Index">>]}]
            /\ UNCHANGED <<accepting, drained, running, active, shown>>
  <1> DEFINE p == <<v, "Index">>
  <1>1. p \in Position /\ p[1] = v /\ p[2] = "Index"
    BY PositionParts DEF Lane
  <1>2. /\ fifo' = Append(Without(fifo, p), p)
        /\ present' = present \cup {v}
        /\ IF "Index" \in pendingKinds[p]
           THEN UNCHANGED <<pending, pendingKinds>>
           ELSE /\ pending' = [pending EXCEPT ![p] = Append(@, "Index")]
                /\ pendingKinds' = [pendingKinds EXCEPT ![p] = @ \cup {"Index"}]
        /\ queued' = [queued EXCEPT ![p] = TRUE]
        /\ announce' = announce \cup {v}
        /\ yieldedTo' = [yieldedTo EXCEPT ![v] =
                           {u \in Vault \ {v} : queued[<<u, "Index">>]}]
        /\ UNCHANGED <<accepting, drained, running, active, shown>>
    BY DEF RequeuePausedIndexTurn, Requeued, Announce
  <1>3. /\ Without(fifo, p) \in Seq(Position)
        /\ IsInjective(Without(fifo, p))
        /\ ToSet(Without(fifo, p)) = ToSet(fifo) \ {p}
    BY WithoutDistinct DEF IInv, TypeOK, FifoExact
  <1> HIDE DEF p
  <1>4. /\ Append(Without(fifo, p), p) \in Seq(Position)
        /\ IsInjective(Append(Without(fifo, p), p))
        /\ ToSet(Append(Without(fifo, p), p)) = (ToSet(fifo) \ {p}) \cup {p}
    BY <1>1, <1>3, AppendDistinct
  <1>5. /\ pendingKinds' = [pendingKinds EXCEPT ![p] = @ \cup {"Index"}]
        /\ pending' = [pending EXCEPT ![p] =
                         IF "Index" \in pendingKinds[p] THEN @ ELSE Append(@, "Index")]
    <2>1. CASE "Index" \in pendingKinds[p]
      BY <2>1, <1>1, <1>2 DEF IInv, TypeOK
    <2>2. CASE "Index" \notin pendingKinds[p]
      BY <2>2, <1>1, <1>2 DEF IInv, TypeOK
    <2> QED BY <2>1, <2>2
  <1> QED BY <1>1, <1>2, <1>4, <1>5 DEF p

LEMMA RequeueIInv ==
  ASSUME IInv, NEW v \in Vault, RequeuePausedIndexTurn(v)
  PROVE  IInv'
  <1>p. pausing' \in [Vault -> {"no", "asked", "requeued"}]
    BY DEF RequeuePausedIndexTurn, IInv, TypeOK
  <1>1. CASE ~Admits(v)
    <2>1. UNCHANGED <<queue, announce, yieldedTo, shown>>
      BY <1>1 DEF RequeuePausedIndexTurn
    <2> QED BY <2>1, <1>p, QueueUnchangedIInv DEF IInv, TypeOK
  <1>2. CASE Admits(v)
    <2> DEFINE p == <<v, "Index">>
               q == IF "Index" \in pendingKinds[p] THEN pending[p]
                    ELSE Append(pending[p], "Index")
    <2>a. /\ p \in Position /\ p[1] = v /\ p[2] = "Index"
          /\ fifo' \in Seq(Position) /\ IsInjective(fifo')
          /\ ToSet(fifo') = ToSet(fifo) \cup {p}
          /\ present' = present \cup {v}
          /\ pendingKinds' = [pendingKinds EXCEPT ![p] = @ \cup {"Index"}]
          /\ pending' = [pending EXCEPT ![p] = q]
          /\ queued' = [queued EXCEPT ![p] = TRUE]
          /\ announce' = announce \cup {v}
          /\ yieldedTo' = [yieldedTo EXCEPT ![v] =
                             {u \in Vault \ {v} : queued[<<u, "Index">>]}]
          /\ UNCHANGED <<accepting, drained, running, active, shown>>
      BY <1>2, RequeueFacts
    <2>b. /\ pending[p] \in Seq(Kind) /\ pending[p] \in Seq(KindsOf("Index"))
          /\ IsInjective(pending[p]) /\ pendingKinds[p] = ToSet(pending[p])
          /\ "Index" \in Kind /\ "Index" \in KindsOf("Index")
      BY <2>a, VaultWorkAssumption DEF IInv, TypeOK, PendingExact, Kind, KindsOf
    <2>c. /\ q \in Seq(Kind) /\ q \in Seq(KindsOf("Index")) /\ IsInjective(q)
          /\ ToSet(q) = pendingKinds[p] \cup {"Index"} /\ q # <<>>
      <3>1. CASE "Index" \in pendingKinds[p]
        <4>1. q = pending[p] BY <3>1
        <4>2. q # <<>> BY <4>1, <3>1, <2>b DEF ToSet
        <4> QED BY <3>1, <4>1, <4>2, <2>b
      <3>2. CASE "Index" \notin pendingKinds[p]
        <4>1. q = Append(pending[p], "Index") BY <3>2
        <4>2. "Index" \notin ToSet(pending[p]) BY <3>2, <2>b
        <4>3. /\ Append(pending[p], "Index") \in Seq(Kind)
              /\ Append(pending[p], "Index") \in Seq(KindsOf("Index"))
              /\ IsInjective(Append(pending[p], "Index"))
              /\ ToSet(Append(pending[p], "Index")) = ToSet(pending[p]) \cup {"Index"}
              /\ Append(pending[p], "Index") # <<>>
          BY <4>2, <2>b, AppendDistinct
        <4> QED BY <4>1, <4>3, <2>b
      <3> QED BY <3>1, <3>2
    <2> HIDE DEF p, q
    <2>1. TypeOK'
      <3>1. yieldedTo' \in [Vault -> SUBSET Vault]
        BY <2>a DEF IInv, TypeOK
      <3> QED BY <2>a, <2>b, <2>c, <3>1, <1>p DEF IInv, TypeOK
    <2>2. FifoExact'
      BY <2>a, <2>c DEF IInv, TypeOK, FifoExact
    <2>3. PendingExact'
      BY <2>a, <2>c DEF IInv, TypeOK, PendingExact
    <2>d. "Index" \in Lane
      BY DEF Lane
    <2>4. PresentExact'
      BY <2>a, <2>d, PositionParts DEF IInv, TypeOK, PresentExact, p
    <2>5. ClosedIsEmpty'
      BY <2>a, <1>2, PositionParts DEF IInv, TypeOK, ClosedIsEmpty, Admits, p
    <2>6. LaneWidth'
      BY <2>a DEF IInv, LaneWidth, RunningIn
    <2> QED BY <2>1, <2>2, <2>3, <2>4, <2>5, <2>6 DEF IInv
  <1> QED BY <1>1, <1>2

\* Every step keeps the bookkeeping invariant.
LEMMA StepIInv == IInv /\ [Next]_vars => IInv'
  <1> SUFFICES ASSUME IInv, [Next]_vars PROVE IInv'
    OBVIOUS
  <1>1. ASSUME NEW v \in Vault, NEW k \in Kind, RequestAny(v, k) PROVE IInv'
    <2>1. Admits(v) /\ k \notin pendingKinds[<<v, LaneOf(k)>>] /\ Enqueue(v, k)
      BY <1>1 DEF RequestAny, Request, RequestIfIdle, RequestRerunIfAdmitted, HasWork
    <2> QED BY <2>1, EnqueueIInv
  <1>2. ASSUME NextTurn PROVE IInv'
    BY <1>2, TakeNextIInv DEF NextTurn
  <1>3. ASSUME NEW v \in Vault, NEW l \in Lane, Complete(v, l) PROVE IInv'
    BY <1>3, CompleteIInv
  <1>4. ASSUME NEW v \in Vault, AskToPause(v) PROVE IInv'
    BY <1>4, QueueUnchangedIInv DEF AskToPause, IInv, TypeOK
  <1>5. ASSUME NEW v \in Vault, RequeuePausedIndexTurn(v) PROVE IInv'
    BY <1>5, RequeueIInv
  <1>6. ASSUME NEW v \in Vault, ActivateVault(v) PROVE IInv'
    BY <1>6, ActivateIInv
  <1>7. ASSUME NEW v \in Vault, DrainVault(v) PROVE IInv'
    BY <1>7, DrainIInv
  <1>8. ASSUME NEW v \in Vault, PublishIndexTurn(v) PROVE IInv'
    <2>1. IndexLaneState(v) \in {"none", "waiting", "running"}
      BY DEF IndexLaneState
    <2> QED BY <1>8, <2>1, QueueUnchangedIInv DEF PublishIndexTurn, IInv, TypeOK
  <1>9. CASE Shutdown
    BY <1>9, ShutdownIInv
  <1>10. CASE UNCHANGED vars
    BY <1>10, QueueUnchangedIInv DEF vars, IInv, TypeOK
  <1> QED BY <1>1, <1>2, <1>3, <1>4, <1>5, <1>6, <1>7, <1>8, <1>9, <1>10 DEF Next

LEMMA InvariantIInv == Spec => []IInv
  <1> QED BY InitIInv, StepIInv, PTL DEF Spec

\* The coordinator's state keeps its types: take_next never pops an empty
\* queue and no running count goes below zero.
THEOREM TypeCorrect == Spec => []TypeOK
  <1>1. IInv => TypeOK BY DEF IInv
  <1> QED BY <1>1, InvariantIInv, PTL

\* The FIFO, the pending queues, the sets requests coalesce against, the counters
\* and the closed Vaults agree with one another after every step.
THEOREM QueueAgrees == Spec => []QueueExact
  <1>1. IInv => QueueExact
    BY DEF IInv, QueueExact
  <1> QED BY <1>1, InvariantIInv, PTL

\* The map the safe boundary watches holds exactly the Vaults with a turn running
\* or pending, so a lifecycle waits for those and for nothing else.
THEOREM BoundaryIsExact == Spec => []PresentExact
  <1>1. IInv => PresentExact BY DEF IInv
  <1> QED BY <1>1, InvariantIInv, PTL

\* However drains, panics, completions and reruns interleave, the counters
\* equal the turns running and no lane exceeds its width.
THEOREM LanesKeepTheirWidth == Spec => []LaneWidth
  <1>1. IInv => LaneWidth BY DEF IInv
  <1> QED BY <1>1, InvariantIInv, PTL

-----------------------------------------------------------------------------
(* The queue implements its promise.                                       *)

LEMMA OwedMember ==
  \A v \in Vault, k \in Kind :
    <<v, k>> \in Owed <=> k \in pendingKinds[<<v, LaneOf(k)>>]
  BY DEF Owed

\* What a step leaves of the set of owed work, work by work.
LEMMA OwedNext ==
  ASSUME NEW S, S \subseteq Vault \X Kind,
         \A v \in Vault, k \in Kind :
           k \in pendingKinds'[<<v, LaneOf(k)>>] <=> <<v, k>> \in S
  PROVE  Owed' = S
  BY DEF Owed

LEMMA ClosedMember == \A v \in Vault : v \in Closed <=> ~Admits(v)
  BY DEF Closed, Admits

LEMMA PromiseInit == Init => Promise!Init
  <1> SUFFICES ASSUME Init PROVE Promise!Init
    OBVIOUS
  <1>1. Owed = {}
    BY PositionParts, LaneOfKind DEF Init, Owed
  <1>2. Closed = {}
    BY DEF Init, Closed
  <1> QED BY <1>1, <1>2 DEF Init, Promise!Init, Position

\* Work that joins a Vault's pending work is asked for.
LEMMA PromiseAsk ==
  ASSUME IInv, NEW v \in Vault, NEW k \in Kind, Admits(v),
         UNCHANGED <<accepting, drained, active>>,
         pendingKinds' = [pendingKinds EXCEPT ![<<v, LaneOf(k)>>] = @ \cup {k}]
  PROVE  Promise!Ask(v, k)
  <1>1. v \notin Closed
    BY ClosedMember
  <1>2. Owed' = Owed \cup {<<v, k>>}
    <2> DEFINE S == Owed \cup {<<v, k>>}
    <2>1. S \subseteq Vault \X Kind
      BY DEF Owed
    <2>2. ASSUME NEW u \in Vault, NEW j \in Kind
          PROVE  j \in pendingKinds'[<<u, LaneOf(j)>>] <=> <<u, j>> \in S
      <3>1. <<u, LaneOf(j)>> \in Position /\ <<v, LaneOf(k)>> \in Position
        BY PositionParts, LaneOfKind
      <3>2. CASE <<u, LaneOf(j)>> = <<v, LaneOf(k)>>
        BY <3>1, <3>2, OwedMember DEF IInv, TypeOK
      <3>3. CASE <<u, LaneOf(j)>> # <<v, LaneOf(k)>>
        <4>1. <<u, j>> # <<v, k>>
          BY <3>3
        <4>2. pendingKinds'[<<u, LaneOf(j)>>] = pendingKinds[<<u, LaneOf(j)>>]
          BY <3>1, <3>3 DEF IInv, TypeOK
        <4> QED BY <4>1, <4>2, OwedMember
      <3> QED BY <3>2, <3>3
    <2> HIDE DEF S
    <2>3. Owed' = S
      BY <2>1, <2>2, OwedNext
    <2> QED BY <2>3 DEF S
  <1>3. Closed' = Closed
    BY DEF Closed
  <1> QED BY <1>1, <1>2, <1>3 DEF Promise!Ask

LEMMA PromiseStart ==
  ASSUME IInv, NEW i \in DOMAIN fifo, TakeNext(i)
  PROVE  \E v \in Vault, k \in Kind : Promise!Start(v, k)
  <1> DEFINE p == fifo[i]
             h == Head(pending[p])
  <1>a. /\ p \in Position /\ queued[p]
        /\ active[p] = Idle /\ running[p[2]] < Width(p[2])
        /\ h \in KindsOf(p[2]) /\ h \in Kind
    BY TakeNextFacts
  <1>b. /\ active' = [active EXCEPT ![p] = h]
        /\ pendingKinds' = [pendingKinds EXCEPT ![p] = @ \ {h}]
        /\ UNCHANGED <<accepting, drained>>
    BY DEF TakeNext
  <1>c. h \in pendingKinds[p]
    <2>1. pending[p] \in Seq(Kind) /\ pending[p] # <<>>
      BY <1>a DEF IInv, TypeOK, FifoExact
    <2>2. h \in ToSet(pending[p])
      BY <2>1 DEF ToSet
    <2> QED BY <1>a, <2>2 DEF IInv, PendingExact
  <1> HIDE DEF p, h
  <1>d. PICK v \in Vault, l \in Lane : p = <<v, l>>
    BY <1>a DEF Position
  <1>e. l = LaneOf(h) /\ p[1] = v /\ p[2] = l
    BY <1>a, <1>d, VaultWorkAssumption DEF KindsOf, LaneOf, Lane, Kind
  <1>1. <<v, h>> \in Owed
    BY <1>a, <1>c, <1>d, <1>e, OwedMember
  <1>2. v \notin Closed
    <2>1. queued[<<v, l>>]
      BY <1>a, <1>d
    <2> QED BY <2>1, ClosedMember DEF IInv, ClosedIsEmpty
  <1>3. Promise!BusyIn(l) = RunningIn(l)
    BY DEF Promise!BusyIn, RunningIn
  <1>4. RunningIn(l) \cup {v} \in {S \in SUBSET Vault : Cardinality(S) <= Width(l)}
    <2>1. v \notin RunningIn(l)
      BY <1>a, <1>d DEF RunningIn
    <2>2. Cardinality(RunningIn(l) \cup {v}) = Cardinality(RunningIn(l)) + 1
      BY <2>1, RunningFinite, FS_AddElement
    <2>3. running[l] = Cardinality(RunningIn(l)) /\ running[l] < Width(l)
      BY <1>a, <1>e DEF IInv, LaneWidth
    <2>4. Cardinality(RunningIn(l) \cup {v}) <= Width(l)
      BY <2>2, <2>3, RunningFinite, WidthType
    <2>5. RunningIn(l) \cup {v} \subseteq Vault
      BY DEF RunningIn
    <2> QED BY <2>4, <2>5
  <1>5. Owed' = Owed \ {<<v, h>>}
    <2> DEFINE S == Owed \ {<<v, h>>}
    <2>1. S \subseteq Vault \X Kind
      BY DEF Owed
    <2>2. ASSUME NEW u \in Vault, NEW j \in Kind
          PROVE  j \in pendingKinds'[<<u, LaneOf(j)>>] <=> <<u, j>> \in S
      <3>1. <<u, LaneOf(j)>> \in Position
        BY PositionParts, LaneOfKind
      <3>2. CASE <<u, LaneOf(j)>> = p
        <4>1. u = v
          BY <3>2, <1>d
        <4>2. pendingKinds'[<<u, LaneOf(j)>>] = pendingKinds[<<u, LaneOf(j)>>] \ {h}
          BY <3>1, <3>2, <1>b DEF IInv, TypeOK
        <4> QED BY <4>1, <4>2, OwedMember
      <3>3. CASE <<u, LaneOf(j)>> # p
        <4>1. <<u, j>> # <<v, h>>
          BY <3>3, <1>d, <1>e
        <4>2. pendingKinds'[<<u, LaneOf(j)>>] = pendingKinds[<<u, LaneOf(j)>>]
          BY <3>1, <3>3, <1>b DEF IInv, TypeOK
        <4> QED BY <4>1, <4>2, OwedMember
      <3> QED BY <3>2, <3>3
    <2> HIDE DEF S
    <2>3. Owed' = S
      BY <2>1, <2>2, OwedNext
    <2> QED BY <2>3 DEF S
  <1>6. Closed' = Closed
    BY <1>b DEF Closed
  <1>7. /\ active[<<v, LaneOf(h)>>] = Idle
        /\ active' = [active EXCEPT ![<<v, LaneOf(h)>>] = h]
        /\ Promise!BusyIn(LaneOf(h)) \cup {v}
             \in {S \in SUBSET Vault : Cardinality(S) <= Width(LaneOf(h))}
        /\ LaneOf(h) \in Lane /\ h \in Kind
        /\ UNCHANGED <<Closed, ~accepting>>
    BY <1>a, <1>b, <1>d, <1>e, <1>3, <1>4, <1>6
  <1>8. Promise!Start(v, h)
    BY <1>1, <1>2, <1>5, <1>7 DEF Promise!Start
  <1> QED BY <1>a, <1>8

LEMMA PromiseClose ==
  ASSUME IInv, NEW v \in Vault, DrainVault(v)
  PROVE  Promise!Close(v)
  <1>a. /\ drained' = drained \cup {v}
        /\ pendingKinds' = [p \in Position |-> IF p[1] = v THEN {} ELSE pendingKinds[p]]
        /\ UNCHANGED <<accepting, active>>
    BY DEF DrainVault
  <1>1. Closed' = Closed \cup {v}
    BY <1>a DEF Closed
  <1>2. Owed' = {w \in Owed : w[1] # v}
    <2> DEFINE S == {w \in Owed : w[1] # v}
    <2>1. S \subseteq Vault \X Kind
      BY DEF Owed
    <2>2. ASSUME NEW u \in Vault, NEW j \in Kind
          PROVE  j \in pendingKinds'[<<u, LaneOf(j)>>] <=> <<u, j>> \in S
      <3>1. <<u, LaneOf(j)>> \in Position /\ <<u, LaneOf(j)>>[1] = u
        BY PositionParts, LaneOfKind
      <3>2. <<u, j>> \in S <=> u # v /\ <<u, j>> \in Owed
        OBVIOUS
      <3>3. CASE u = v
        BY <3>1, <3>2, <3>3, <1>a
      <3>4. CASE u # v
        BY <3>1, <3>2, <3>4, <1>a, OwedMember
      <3> QED BY <3>3, <3>4
    <2> HIDE DEF S
    <2>3. Owed' = S
      BY <2>1, <2>2, OwedNext
    <2> QED BY <2>3 DEF S
  <1> QED BY <1>a, <1>1, <1>2 DEF Promise!Close

\* Every step is a step of the promise, or nothing it speaks of.
LEMMA PromiseStep == IInv /\ [Next]_vars => [Promise!Next]_(Promise!vars)
  <1> DEFINE Step == [Promise!Next]_(Promise!vars)
  <1> SUFFICES ASSUME IInv, [Next]_vars PROVE Step
    OBVIOUS
  <1>0. ASSUME UNCHANGED <<accepting, drained, pendingKinds, active>> PROVE Step
    <2>1. Owed' = Owed /\ Closed' = Closed
      BY <1>0 DEF Owed, Closed
    <2> QED BY <1>0, <2>1 DEF Promise!vars
  <1>1. ASSUME NEW v \in Vault, NEW k \in Kind, RequestAny(v, k) PROVE Step
    <2>1. Admits(v) /\ Enqueue(v, k)
      BY <1>1 DEF RequestAny, Request, RequestIfIdle, RequestRerunIfAdmitted
    <2>2. Promise!Ask(v, k)
      BY <2>1, PromiseAsk DEF Enqueue
    <2> QED BY <2>2 DEF Promise!Next
  <1>2. ASSUME NextTurn PROVE Step
    BY <1>2, PromiseStart DEF NextTurn, Promise!Next
  <1>3. ASSUME NEW v \in Vault, NEW l \in Lane, Complete(v, l) PROVE Step
    <2>1. /\ active[<<v, l>>] # Idle
          /\ active' = [active EXCEPT ![<<v, l>>] = Idle]
          /\ UNCHANGED <<accepting, drained, pendingKinds>>
      BY <1>3 DEF Complete
    <2>2. Owed' = Owed /\ Closed' = Closed
      BY <2>1 DEF Owed, Closed
    <2>3. Promise!End(v, l)
      BY <2>1, <2>2 DEF Promise!End
    <2> QED BY <2>3 DEF Promise!Next
  <1>4. ASSUME NEW v \in Vault, AskToPause(v) \/ PublishIndexTurn(v) PROVE Step
    BY <1>4, <1>0 DEF AskToPause, PublishIndexTurn, queue
  <1>5. ASSUME NEW v \in Vault, RequeuePausedIndexTurn(v) PROVE Step
    <2>1. CASE ~Admits(v)
      <3>1. UNCHANGED <<accepting, drained, pendingKinds, active>>
        BY <1>5, <2>1 DEF RequeuePausedIndexTurn, queue
      <3> QED BY <3>1, <1>0
    <2>2. CASE Admits(v)
      <3>1. "Index" \in Kind /\ LaneOf("Index") = "Index" /\ <<v, "Index">> \in Position
        BY VaultWorkAssumption, PositionParts DEF Kind, LaneOf, Lane
      <3>2. UNCHANGED <<accepting, drained, active>>
        BY <1>5, <2>2 DEF RequeuePausedIndexTurn
      <3>3. pendingKinds' = [pendingKinds EXCEPT ![<<v, "Index">>] = @ \cup {"Index"}]
        <4>1. CASE "Index" \in pendingKinds[<<v, "Index">>]
          <5>1. pendingKinds' = pendingKinds
            BY <1>5, <2>2, <4>1 DEF RequeuePausedIndexTurn
          <5>2. pendingKinds[<<v, "Index">>] \cup {"Index"} = pendingKinds[<<v, "Index">>]
            BY <4>1
          <5> QED BY <5>1, <5>2, <3>1 DEF IInv, TypeOK
        <4>2. CASE "Index" \notin pendingKinds[<<v, "Index">>]
          BY <1>5, <2>2, <4>2 DEF RequeuePausedIndexTurn
        <4> QED BY <4>1, <4>2
      <3>4. Promise!Ask(v, "Index")
        BY <3>1, <3>2, <3>3, <2>2, PromiseAsk
      <3> QED BY <3>1, <3>4 DEF Promise!Next
    <2> QED BY <2>1, <2>2
  <1>6. ASSUME NEW v \in Vault, ActivateVault(v) PROVE Step
    <2>1. /\ accepting /\ drained' = drained \ {v}
          /\ UNCHANGED <<accepting, pendingKinds, active>>
      BY <1>6 DEF ActivateVault
    <2>2. Owed' = Owed /\ Closed' = Closed \ {v}
      BY <2>1 DEF Owed, Closed
    <2>3. Promise!Reopen(v)
      BY <2>1, <2>2 DEF Promise!Reopen
    <2> QED BY <2>3 DEF Promise!Next
  <1>7. ASSUME NEW v \in Vault, DrainVault(v) PROVE Step
    BY <1>7, PromiseClose DEF Promise!Next
  <1>8. CASE Shutdown
    <2>1. /\ accepting' = FALSE /\ UNCHANGED <<drained, active>>
          /\ pendingKinds' = [p \in Position |-> {}]
      BY <1>8 DEF Shutdown
    <2>2. Owed' = {}
      <3>1. \A v \in Vault, k \in Kind : pendingKinds'[<<v, LaneOf(k)>>] = {}
        BY <2>1, PositionParts, LaneOfKind
      <3> QED BY <3>1 DEF Owed
    <2>3. Closed' = Vault
      BY <2>1 DEF Closed
    <2>4. Promise!CloseAll
      BY <2>1, <2>2, <2>3 DEF Promise!CloseAll
    <2> QED BY <2>4 DEF Promise!Next
  <1>9. CASE UNCHANGED vars
    BY <1>9, <1>0 DEF vars, queue
  <1> QED BY <1>1, <1>2, <1>3, <1>4, <1>5, <1>6, <1>7, <1>8, <1>9 DEF Next

\* The coordinator implements its promise: for any Vaults, kinds and lane width,
\* behind its FIFO nothing is owed twice, lost or invented, every lane keeps its
\* width, and no turn starts of a Vault that is drained or after the shutdown.
THEOREM PromiseIsKept == Spec => PromiseKept
  <1>1. Spec => Promise!Init
    BY PromiseInit DEF Spec
  <1>2. []IInv /\ [][Next]_vars => [][Promise!Next]_(Promise!vars)
    BY PromiseStep, PTL
  <1> QED BY <1>1, <1>2, InvariantIInv, PTL DEF Spec, PromiseKept, Promise!Spec

-----------------------------------------------------------------------------
(* A paused Index turn yields.                                             *)

\* a stands in front of b in s.
Before(s, a, b) == \E i, j \in DOMAIN s : i < j /\ s[i] = a /\ s[j] = b

LEMMA BeforeAppend ==
  ASSUME NEW S, NEW s \in Seq(S), NEW e \in S, NEW a, NEW b
  PROVE  /\ Before(s, a, b) => Before(Append(s, e), a, b)
         /\ a \in ToSet(s) => Before(Append(s, e), a, e)
  <1>1. /\ DOMAIN Append(s, e) = 1 .. (Len(s) + 1)
        /\ DOMAIN s = 1 .. Len(s)
        /\ Len(s) \in Nat
        /\ \A i \in 1 .. Len(s) : Append(s, e)[i] = s[i]
        /\ Append(s, e)[Len(s) + 1] = e
    OBVIOUS
  <1>2. ASSUME Before(s, a, b) PROVE Before(Append(s, e), a, b)
    <2>1. PICK i, j \in 1 .. Len(s) : i < j /\ s[i] = a /\ s[j] = b
      BY <1>1, <1>2 DEF Before
    <2>2. i \in 1 .. (Len(s) + 1) /\ j \in 1 .. (Len(s) + 1)
      BY <1>1
    <2> QED BY <1>1, <2>1, <2>2 DEF Before
  <1>3. ASSUME a \in ToSet(s) PROVE Before(Append(s, e), a, e)
    <2>1. PICK i \in 1 .. Len(s) : s[i] = a
      BY <1>1, <1>3 DEF ToSet
    <2>2. /\ i \in 1 .. (Len(s) + 1) /\ Len(s) + 1 \in 1 .. (Len(s) + 1)
          /\ i < Len(s) + 1
      BY <1>1
    <2> QED BY <1>1, <2>1, <2>2 DEF Before
  <1> QED BY <1>2, <1>3

LEMMA BeforeRemoveAt ==
  ASSUME NEW S, NEW s \in Seq(S), NEW n \in 1 .. Len(s), NEW a, NEW b,
         Before(s, a, b), s[n] # a, s[n] # b
  PROVE  Before(RemoveAt(s, n), a, b)
  <1> DEFINE r == RemoveAt(s, n)
  <1>a. /\ r \in Seq(S)
        /\ Len(r) = Len(s) - 1
        /\ \A j \in 1 .. (Len(s) - 1) : r[j] = IF j < n THEN s[j] ELSE s[j + 1]
    BY RemoveAtElements
  <1> HIDE DEF r
  <1>b. DOMAIN r = 1 .. (Len(s) - 1) /\ DOMAIN s = 1 .. Len(s) /\ Len(s) \in Nat
    BY <1>a
  <1>1. PICK i, j \in 1 .. Len(s) : i < j /\ s[i] = a /\ s[j] = b
    BY <1>b DEF Before
  <1>2. i # n /\ j # n
    BY <1>1
  <1> DEFINE i2 == IF i < n THEN i ELSE i - 1
             j2 == IF j < n THEN j ELSE j - 1
  <1>3. /\ i2 \in 1 .. (Len(s) - 1) /\ j2 \in 1 .. (Len(s) - 1) /\ i2 < j2
        /\ (i2 < n <=> i < n) /\ (j2 < n <=> j < n)
        /\ i = (IF i2 < n THEN i2 ELSE i2 + 1)
        /\ j = (IF j2 < n THEN j2 ELSE j2 + 1)
    BY <1>1, <1>2, <1>b
  <1> HIDE DEF i2, j2
  <1>4. r[i2] = a
    <2>1. CASE i2 < n
      BY <1>1, <1>3, <1>a, <2>1
    <2>2. CASE ~(i2 < n)
      <3>1. r[i2] = s[i2 + 1] BY <1>3, <1>a, <2>2
      <3>2. i2 + 1 = i        BY <1>3, <2>2
      <3> QED BY <3>1, <3>2, <1>1
    <2> QED BY <2>1, <2>2
  <1>5. r[j2] = b
    <2>1. CASE j2 < n
      BY <1>1, <1>3, <1>a, <2>1
    <2>2. CASE ~(j2 < n)
      <3>1. r[j2] = s[j2 + 1] BY <1>3, <1>a, <2>2
      <3>2. j2 + 1 = j        BY <1>3, <2>2
      <3> QED BY <3>1, <3>2, <1>1
    <2> QED BY <2>1, <2>2
  <1> QED BY <1>3, <1>4, <1>5, <1>b DEF Before, r

LEMMA BeforeWithout ==
  ASSUME NEW S, NEW s \in Seq(S), NEW p, NEW a, NEW b,
         Before(s, a, b), p # a, p # b
  PROVE  Before(Without(s, p), a, b)
  <1>1. CASE p \in ToSet(s)
    <2> DEFINE n == CHOOSE n \in DOMAIN s : s[n] = p
    <2>1. n \in DOMAIN s /\ s[n] = p
      BY <1>1 DEF ToSet
    <2>2. n \in 1 .. Len(s)
      BY <2>1
    <2>3. Without(s, p) = RemoveAt(s, n)
      BY <1>1 DEF Without
    <2> HIDE DEF n
    <2> QED BY <2>1, <2>2, <2>3, BeforeRemoveAt
  <1>2. CASE p \notin ToSet(s)
    BY <1>2 DEF Without
  <1> QED BY <1>1, <1>2

IP(v) == <<v, "Index">>

\* Whom a paused Vault stepped behind still stands in front of it and has not
\* started since; only a running Index turn is pausing.
YieldOrder ==
  /\ \A v \in Vault : \A u \in yieldedTo[v] :
       u # v /\ active[IP(u)] = Idle /\ Before(fifo, IP(u), IP(v))
  /\ \A v \in Vault : pausing[v] # "no" => active[IP(v)] # Idle

YInv == IInv /\ YieldOrder /\ PausedTurnYields

LEMMA IndexPosition ==
  /\ \A v \in Vault : IP(v) \in Position
  /\ \A v, u \in Vault : IP(v) = IP(u) => v = u
  /\ \A v, u \in Vault : IP(v) # <<u, "Git">>
  BY PositionParts DEF IP, Lane

\* The Index lane's width of one.
LEMMA OneIndexTurn ==
  ASSUME IInv, NEW u \in Vault, NEW v \in Vault,
         active[IP(u)] # Idle, active[IP(v)] # Idle
  PROVE  u = v
  <1>1. {u, v} \subseteq RunningIn("Index")
    BY DEF RunningIn, IP
  <1>2. Cardinality(RunningIn("Index")) <= 1
    BY DEF IInv, LaneWidth, Lane, Width
  <1>3. Cardinality({u, v}) <= Cardinality(RunningIn("Index"))
    BY <1>1, RunningFinite, FS_Subset
  <1>4. ASSUME u # v PROVE Cardinality({u, v}) = 2
    <2>1. {u, v} = {u} \cup {v} /\ v \notin {u}
      BY <1>4
    <2>2. IsFiniteSet({u}) /\ Cardinality({u}) = 1
      BY FS_Singleton
    <2>3. Cardinality({u} \cup {v}) = IF v \in {u} THEN Cardinality({u})
                                      ELSE Cardinality({u}) + 1
      BY <2>2, FS_AddElement
    <2> QED BY <2>1, <2>2, <2>3
  <1> QED BY <1>2, <1>3, <1>4, RunningFinite

LEMMA InitYInv == Init => YInv
  BY InitIInv, IndexPosition DEF Init, YInv, YieldOrder, PausedTurnYields

LEMMA TakeNextYield ==
  ASSUME YInv, NEW i \in DOMAIN fifo, TakeNext(i)
  PROVE  YieldOrder' /\ PausedTurnYields'
  <1> DEFINE p == fifo[i]
  <1>a. /\ IInv /\ i \in 1 .. Len(fifo) /\ p \in Position
        /\ active[p] = Idle /\ running[p[2]] < Width(p[2])
        /\ fifo \in Seq(Position) /\ IsInjective(fifo)
        /\ Head(pending[p]) # Idle
    BY TakeNextFacts DEF YInv, IInv, TypeOK, FifoExact
  <1>b. /\ active' = [active EXCEPT ![p] = Head(pending[p])]
        /\ yieldedTo' = IF p[2] = "Index" THEN [u \in Vault |-> yieldedTo[u] \ {p[1]}]
                        ELSE yieldedTo
        /\ fifo' \in {Append(RemoveAt(fifo, i), p), RemoveAt(fifo, i)}
        /\ \A j \in 1 .. (i - 1) : ~Admissible(fifo[j])
        /\ pausing' = pausing
    BY DEF TakeNext
  <1>c. PICK w \in Vault, l \in Lane : p = <<w, l>> /\ p[1] = w /\ p[2] = l
    BY <1>a, PositionParts
  <1> HIDE DEF p
  <1>1. ASSUME NEW u \in Vault, NEW v \in Vault, Before(fifo, IP(u), IP(v)),
               IP(u) # p, IP(v) # p
        PROVE  Before(fifo', IP(u), IP(v))
    <2>1. Before(RemoveAt(fifo, i), IP(u), IP(v))
      BY <1>1, <1>a, BeforeRemoveAt DEF p
    <2>2. RemoveAt(fifo, i) \in Seq(Position)
      BY <1>a, RemoveAtElements
    <2>3. Before(Append(RemoveAt(fifo, i), p), IP(u), IP(v))
      BY <2>1, <2>2, <1>a, BeforeAppend
    <2> QED BY <2>1, <2>3, <1>b
  <1>2. CASE l = "Git"
    <2>1. \A v \in Vault : IP(v) # p
      BY <1>2, <1>c, IndexPosition
    <2>2. \A v \in Vault : active'[IP(v)] = active[IP(v)]
      BY <2>1, <1>b, IndexPosition DEF YInv, IInv, TypeOK
    <2>3. yieldedTo' = yieldedTo
      BY <1>2, <1>b, <1>c
    <2>4. ASSUME NEW v \in Vault, NEW u \in yieldedTo[v]
          PROVE  u # v /\ active'[IP(u)] = Idle /\ Before(fifo', IP(u), IP(v))
      <3>1. u \in Vault /\ u # v /\ active[IP(u)] = Idle /\ Before(fifo, IP(u), IP(v))
        BY <2>4 DEF YInv, YieldOrder, IInv, TypeOK
      <3> QED BY <3>1, <2>1, <2>2, <1>1
    <2> QED BY <2>2, <2>3, <2>4, <1>b DEF YInv, YieldOrder, PausedTurnYields, IP
  <1>3. CASE l = "Index"
    <2>1. \A v \in Vault : active[IP(v)] = Idle
      <3>1. running["Index"] < 1 /\ running["Index"] = Cardinality(RunningIn("Index"))
        BY <1>3, <1>a, <1>c DEF IInv, LaneWidth, Width, Lane
      <3>2. RunningIn("Index") = {}
        BY <3>1, RunningFinite, FS_EmptySet
      <3> QED BY <3>2 DEF RunningIn, IP
    <2>2. yieldedTo[w] = {}
      <3> SUFFICES ASSUME NEW u \in yieldedTo[w] PROVE FALSE
        OBVIOUS
      <3>1. u \in Vault /\ Before(fifo, IP(u), IP(w))
        BY DEF YInv, YieldOrder, IInv, TypeOK
      <3>2. PICK m, n \in 1 .. Len(fifo) : m < n /\ fifo[m] = IP(u) /\ fifo[n] = IP(w)
        BY <3>1, <1>a DEF Before
      <3>3. n = i
        BY <3>2, <1>a, <1>c, <1>3 DEF IP, IsInjective, p
      <3>4. ~Admissible(IP(u))
        BY <3>2, <3>3, <1>b, <1>a
      <3>5. IP(u)[2] = "Index" /\ running["Index"] < Width("Index")
        BY <1>a, <1>c, <1>3 DEF IP
      <3> QED BY <3>1, <3>4, <3>5, <2>1 DEF Admissible
    <2>3. yieldedTo' = [v \in Vault |-> yieldedTo[v] \ {w}]
      BY <1>3, <1>b, <1>c
    <2>4. p = IP(w)
      BY <1>3, <1>c DEF IP
    <2>5. \A v \in Vault \ {w} : IP(v) # p /\ active'[IP(v)] = active[IP(v)]
      BY <2>4, <1>b, IndexPosition DEF YInv, IInv, TypeOK
    <2>6. ASSUME NEW v \in Vault, NEW u \in yieldedTo'[v]
          PROVE  u # v /\ active'[IP(u)] = Idle /\ Before(fifo', IP(u), IP(v))
      <3>1. v # w /\ u \in yieldedTo[v] /\ u # w
        BY <2>6, <2>2, <2>3
      <3>2. u \in Vault /\ u # v /\ active[IP(u)] = Idle /\ Before(fifo, IP(u), IP(v))
        BY <3>1 DEF YInv, YieldOrder, IInv, TypeOK
      <3> QED BY <3>1, <3>2, <2>5, <1>1
    <2>7. active'[IP(w)] # Idle
      BY <2>4, <1>a, <1>b, IndexPosition DEF IInv, TypeOK
    <2>8. \A v \in Vault : pausing'[v] # "no" => active'[IP(v)] # Idle
      BY <2>1, <1>b DEF YInv, YieldOrder
    <2>9. ASSUME NEW v \in Vault, active'[IP(v)] # Idle PROVE yieldedTo'[v] = {}
      <3>1. v = w
        BY <2>9, <2>5, <2>1
      <3> QED BY <3>1, <2>2, <2>3
    <2> QED BY <2>6, <2>8, <2>9 DEF YieldOrder, PausedTurnYields, IP
  <1> QED BY <1>2, <1>3 DEF Lane

LEMMA RequeueYield ==
  ASSUME YInv, NEW v \in Vault, RequeuePausedIndexTurn(v)
  PROVE  YieldOrder' /\ PausedTurnYields'
  <1>a. /\ pausing[v] = "asked" /\ active[IP(v)] # Idle
        /\ pausing' = [pausing EXCEPT ![v] = "requeued"]
        /\ pausing'[v] = "requeued"
        /\ \A w \in Vault \ {v} : pausing'[w] = pausing[w]
    BY DEF RequeuePausedIndexTurn, Requeued, YInv, YieldOrder, IInv, TypeOK
  <1>1. CASE ~Admits(v)
    <2>1. UNCHANGED <<fifo, active, yieldedTo>>
      BY <1>1 DEF RequeuePausedIndexTurn, Requeued, queue
    <2> QED BY <2>1, <1>a DEF YInv, YieldOrder, PausedTurnYields, Before
  <1>2. CASE Admits(v)
    <2> DEFINE wo == Without(fifo, IP(v))
    <2>1. /\ fifo' = Append(wo, IP(v)) /\ active' = active
          /\ yieldedTo' = [yieldedTo EXCEPT ![v] =
                             {u \in Vault \ {v} : queued[<<u, "Index">>]}]
      BY <1>2, RequeueFacts DEF YInv, IP
    <2>2. wo \in Seq(Position) /\ ToSet(wo) = ToSet(fifo) \ {IP(v)}
      BY WithoutDistinct DEF YInv, IInv, TypeOK, FifoExact
    <2>3. ASSUME NEW w \in Vault, NEW u \in yieldedTo'[w]
          PROVE  u # w /\ active'[IP(u)] = Idle /\ Before(fifo', IP(u), IP(w))
      <3>1. CASE w = v
        <4>1. u \in Vault /\ u # v /\ queued[IP(u)]
          BY <3>1, <2>1, <2>3 DEF YInv, IInv, TypeOK, IP
        <4>2. IP(u) \in ToSet(wo)
          BY <4>1, <2>2, IndexPosition DEF YInv, IInv, FifoExact
        <4>3. Before(fifo', IP(u), IP(v))
          BY <4>2, <2>1, <2>2, IndexPosition, BeforeAppend
        <4>4. active[IP(u)] = Idle
          BY <4>1, <1>a, OneIndexTurn DEF YInv
        <4> QED BY <3>1, <4>1, <4>3, <4>4, <2>1
      <3>2. CASE w # v
        <4>1. u \in yieldedTo[w]
          BY <3>2, <2>1, <2>3 DEF YInv, IInv, TypeOK
        <4>2. u \in Vault /\ u # w /\ active[IP(u)] = Idle /\ Before(fifo, IP(u), IP(w))
          BY <4>1 DEF YInv, YieldOrder, IInv, TypeOK
        <4>3. u # v
          BY <4>2, <1>a
        <4>4. IP(v) # IP(u) /\ IP(v) # IP(w)
          BY <4>2, <4>3, <3>2, IndexPosition
        <4>5. Before(wo, IP(u), IP(w))
          BY <4>2, <4>4, BeforeWithout DEF YInv, IInv, TypeOK
        <4> QED BY <4>2, <4>5, <2>1, <2>2, IndexPosition, BeforeAppend
      <3> QED BY <3>1, <3>2
    <2>4. \A w \in Vault : pausing'[w] # "no" => active'[IP(w)] # Idle
      BY <1>a, <2>1 DEF YInv, YieldOrder
    <2>5. \A w \in Vault \ {v} : yieldedTo'[w] = yieldedTo[w]
      BY <2>1 DEF YInv, IInv, TypeOK
    <2>6. PausedTurnYields'
      BY <1>a, <2>1, <2>5 DEF YInv, PausedTurnYields
    <2> QED BY <2>3, <2>4, <2>6 DEF YieldOrder
  <1> QED BY <1>1, <1>2

LEMMA DrainYield ==
  ASSUME YInv, NEW v \in Vault, DrainVault(v)
  PROVE  YieldOrder' /\ PausedTurnYields'
  <1> DEFINE f1 == Without(fifo, <<v, "Index">>)
             f2 == Without(f1, <<v, "Git">>)
  <1>1. /\ fifo' = f2 /\ active' = active /\ pausing' = pausing
        /\ yieldedTo' = [u \in Vault |-> IF u = v THEN {} ELSE yieldedTo[u] \ {v}]
    BY DEF DrainVault
  <1>2. f1 \in Seq(Position)
    BY WithoutDistinct DEF YInv, IInv, TypeOK, FifoExact
  <1>3. ASSUME NEW w \in Vault, NEW u \in yieldedTo'[w]
        PROVE  u # w /\ active'[IP(u)] = Idle /\ Before(fifo', IP(u), IP(w))
    <2>1. w # v /\ u # v /\ u \in yieldedTo[w]
      BY <1>1, <1>3
    <2>2. u \in Vault /\ u # w /\ active[IP(u)] = Idle /\ Before(fifo, IP(u), IP(w))
      BY <2>1 DEF YInv, YieldOrder, IInv, TypeOK
    <2>3. Before(f1, IP(u), IP(w))
      <3>1. <<v, "Index">> # IP(u) /\ <<v, "Index">> # IP(w)
        BY <2>1, <2>2, IndexPosition DEF IP
      <3> QED BY <3>1, <2>2, BeforeWithout DEF YInv, IInv, TypeOK
    <2>4. Before(f2, IP(u), IP(w))
      <3>1. <<v, "Git">> # IP(u) /\ <<v, "Git">> # IP(w)
        BY <2>2, IndexPosition
      <3> HIDE DEF f1
      <3> QED BY <3>1, <2>3, <1>2, BeforeWithout
    <2> QED BY <2>2, <2>4, <1>1
  <1>4. PausedTurnYields'
    BY <1>1 DEF YInv, PausedTurnYields, IInv, TypeOK
  <1> QED BY <1>1, <1>3, <1>4 DEF YInv, YieldOrder

LEMMA StepYInv == YInv /\ [Next]_vars => YInv'
  <1> SUFFICES ASSUME YInv, [Next]_vars PROVE YieldOrder' /\ PausedTurnYields'
    BY StepIInv DEF YInv
  <1>1. ASSUME NEW v \in Vault, NEW k \in Kind, RequestAny(v, k)
        PROVE  YieldOrder' /\ PausedTurnYields'
    <2>1. /\ fifo' \in {fifo, Append(fifo, <<v, LaneOf(k)>>)}
          /\ UNCHANGED <<active, pausing, yieldedTo>>
      BY <1>1 DEF RequestAny, Request, RequestIfIdle, RequestRerunIfAdmitted, Enqueue, TakingPosition
    <2>2. <<v, LaneOf(k)>> \in Position /\ fifo \in Seq(Position)
      BY LaneOfKind, PositionParts DEF YInv, IInv, TypeOK
    <2>3. \A a, b : Before(fifo, a, b) => Before(fifo', a, b)
      BY <2>1, <2>2, BeforeAppend
    <2> QED BY <2>1, <2>3 DEF YInv, YieldOrder, PausedTurnYields
  <1>2. ASSUME NextTurn PROVE YieldOrder' /\ PausedTurnYields'
    BY <1>2, TakeNextYield DEF NextTurn
  <1>3. ASSUME NEW v \in Vault, NEW l \in Lane, Complete(v, l)
        PROVE  YieldOrder' /\ PausedTurnYields'
    <2>1. /\ active' = [active EXCEPT ![<<v, l>>] = Idle]
          /\ pausing' = IF l = "Index" THEN [pausing EXCEPT ![v] = "no"] ELSE pausing
          /\ UNCHANGED <<fifo, yieldedTo>>
      BY <1>3 DEF Complete
    <2>2. \A u \in Vault : active'[IP(u)] = IF l = "Index" /\ u = v THEN Idle
                                            ELSE active[IP(u)]
      BY <2>1, IndexPosition DEF YInv, IInv, TypeOK, IP, Lane
    <2>3. \A u \in Vault : pausing'[u] = IF l = "Index" /\ u = v THEN "no" ELSE pausing[u]
      BY <2>1 DEF YInv, IInv, TypeOK
    <2>4. \A u \in Vault : pausing'[u] # "no" => active'[IP(u)] # Idle
      BY <2>2, <2>3 DEF YInv, YieldOrder
    <2>5. PausedTurnYields'
      BY <2>1, <2>2, <2>3 DEF YInv, PausedTurnYields, IP
    <2>6. ASSUME NEW w \in Vault, NEW u \in yieldedTo'[w]
          PROVE  u # w /\ active'[IP(u)] = Idle /\ Before(fifo', IP(u), IP(w))
      BY <2>6, <2>1, <2>2 DEF YInv, YieldOrder, IInv, TypeOK
    <2> QED BY <2>4, <2>5, <2>6 DEF YieldOrder
  <1>4. ASSUME NEW v \in Vault, AskToPause(v) PROVE YieldOrder' /\ PausedTurnYields'
    <2>1. /\ active[IP(v)] = "Index" /\ pausing[v] = "no"
          /\ pausing' = [pausing EXCEPT ![v] = "asked"]
          /\ UNCHANGED <<fifo, active, yieldedTo>>
      BY <1>4 DEF AskToPause, queue, IP
    <2>2. active[IP(v)] # Idle
      BY <2>1, VaultWorkAssumption
    <2>3. yieldedTo[v] = {}
      BY <2>1, <2>2 DEF YInv, PausedTurnYields, IP
    <2> QED BY <2>1, <2>2, <2>3 DEF YInv, YieldOrder, PausedTurnYields, IInv, TypeOK
  <1>5. ASSUME NEW v \in Vault, RequeuePausedIndexTurn(v)
        PROVE  YieldOrder' /\ PausedTurnYields'
    BY <1>5, RequeueYield
  <1>6. ASSUME NEW v \in Vault, ActivateVault(v) \/ PublishIndexTurn(v)
        PROVE  YieldOrder' /\ PausedTurnYields'
    BY <1>6 DEF ActivateVault, PublishIndexTurn, queue, YInv, YieldOrder, PausedTurnYields
  <1>7. ASSUME NEW v \in Vault, DrainVault(v) PROVE YieldOrder' /\ PausedTurnYields'
    BY <1>7, DrainYield
  <1>8. CASE Shutdown
    BY <1>8 DEF Shutdown, YInv, YieldOrder, PausedTurnYields
  <1>9. CASE UNCHANGED vars
    BY <1>9 DEF vars, queue, YInv, YieldOrder, PausedTurnYields
  <1> QED BY <1>1, <1>2, <1>3, <1>4, <1>5, <1>6, <1>7, <1>8, <1>9 DEF Next

\* An Index turn that paused for others resumes only after each of them has
\* had its turn or lost its work to a drain: no rerun requested while the turn
\* ran, nor a position it held before pausing, lets it overtake them.
THEOREM PausedTurnsYield == Spec => []PausedTurnYields
  <1>1. YInv => PausedTurnYields
    BY DEF YInv
  <1> QED BY <1>1, InitYInv, StepYInv, PTL DEF Spec

-----------------------------------------------------------------------------
(* The status shows the queue's state.                                     *)

Faithful(v) == v \in announce \/ shown[v] = IndexLaneState(v)

\* A step that leaves a Vault's Index lane alone leaves what is shown of it true.
LEMMA LaneUntouched ==
  ASSUME NEW v \in Vault, Faithful(v), announce \subseteq announce', UNCHANGED shown,
         active'[<<v, "Index">>] = active[<<v, "Index">>],
         queued'[<<v, "Index">>] = queued[<<v, "Index">>]
  PROVE  Faithful(v)'
  BY DEF Faithful, IndexLaneState

LEMMA StepShown ==
  ASSUME IInv, [Next]_vars, NEW v \in Vault, Faithful(v)
  PROVE  Faithful(v)'
  <1> DEFINE p == <<v, "Index">>
  <1>a. p \in Position
    BY PositionParts DEF Lane
  <1>t. /\ active \in [Position -> Kind \cup {Idle}] /\ queued \in [Position -> BOOLEAN]
        /\ shown \in [Vault -> {"none", "waiting", "running"}]
    BY DEF IInv, TypeOK
  <1>0. ASSUME v \in announce' PROVE Faithful(v)'
    BY <1>0 DEF Faithful
  <1>1. ASSUME NEW u \in Vault, NEW k \in Kind, RequestAny(u, k) PROVE Faithful(v)'
    <2>1. Enqueue(u, k)
      BY <1>1 DEF RequestAny, Request, RequestIfIdle, RequestRerunIfAdmitted
    <2>2. /\ queued' = [queued EXCEPT ![<<u, LaneOf(k)>>] = TRUE]
          /\ announce' = IF LaneOf(k) = "Index" THEN announce \cup {u} ELSE announce
          /\ UNCHANGED <<active, shown>>
      BY <2>1 DEF Enqueue, Announce
    <2>3. CASE <<u, LaneOf(k)>> = p
      BY <2>2, <2>3, <1>0
    <2>4. CASE <<u, LaneOf(k)>> # p
      <3>1. queued'[p] = queued[p]
        BY <2>2, <2>4, <1>a, <1>t
      <3>2. announce \subseteq announce'
        BY <2>2
      <3> QED BY <3>1, <3>2, <2>2, LaneUntouched
    <2> QED BY <2>3, <2>4
  <1>2. ASSUME NEW i \in DOMAIN fifo, TakeNext(i) PROVE Faithful(v)'
    <2>1. fifo[i] \in Position /\ fifo[i] = <<fifo[i][1], fifo[i][2]>>
      BY <1>2, TakeNextFacts, PositionParts
    <2>2. /\ active' = [active EXCEPT ![fifo[i]] = Head(pending[fifo[i]])]
          /\ queued' = [queued EXCEPT ![fifo[i]] = (Tail(pending[fifo[i]]) # <<>>)]
          /\ announce' = IF fifo[i][2] = "Index" THEN announce \cup {fifo[i][1]} ELSE announce
          /\ UNCHANGED shown
      BY <1>2 DEF TakeNext, Announce
    <2>3. CASE fifo[i] = p
      BY <2>1, <2>2, <2>3, <1>0
    <2>4. CASE fifo[i] # p
      <3>1. queued'[p] = queued[p] /\ active'[p] = active[p]
        BY <2>1, <2>2, <2>4, <1>a, <1>t
      <3>2. announce \subseteq announce'
        BY <2>2
      <3> QED BY <3>1, <3>2, <2>2, LaneUntouched
    <2> QED BY <2>3, <2>4
  <1>3. ASSUME NEW u \in Vault, NEW l \in Lane, Complete(u, l) PROVE Faithful(v)'
    <2>1. /\ active' = [active EXCEPT ![<<u, l>>] = Idle]
          /\ announce' = IF l = "Index" THEN announce \cup {u} ELSE announce
          /\ UNCHANGED <<queued, shown>>
      BY <1>3 DEF Complete, Announce
    <2>2. CASE <<u, l>> = p
      BY <2>1, <2>2, <1>0
    <2>3. CASE <<u, l>> # p
      <3>1. active'[p] = active[p]
        BY <2>1, <2>3, <1>a, <1>t
      <3>2. announce \subseteq announce'
        BY <2>1
      <3> QED BY <3>1, <3>2, <2>1, LaneUntouched
    <2> QED BY <2>2, <2>3
  <1>4. ASSUME NEW u \in Vault, AskToPause(u) \/ ActivateVault(u) PROVE Faithful(v)'
    BY <1>4, LaneUntouched DEF AskToPause, ActivateVault, queue
  <1>5. ASSUME NEW u \in Vault, RequeuePausedIndexTurn(u) PROVE Faithful(v)'
    <2>1. CASE ~Admits(u)
      BY <1>5, <2>1, LaneUntouched DEF RequeuePausedIndexTurn, queue
    <2>2. CASE Admits(u)
      <3>1. /\ queued' = [queued EXCEPT ![<<u, "Index">>] = TRUE]
            /\ announce' = announce \cup {u} /\ UNCHANGED <<active, shown>>
        BY <1>5, <2>2 DEF RequeuePausedIndexTurn, Announce
      <3>2. CASE u = v
        BY <3>1, <3>2, <1>0
      <3>3. CASE u # v
        <4>1. queued'[p] = queued[p]
          BY <3>1, <3>3, <1>a, <1>t
        <4> QED BY <4>1, <3>1, LaneUntouched
      <3> QED BY <3>2, <3>3
    <2> QED BY <2>1, <2>2
  <1>6. ASSUME NEW u \in Vault, DrainVault(u) PROVE Faithful(v)'
    <2>1. /\ queued' = [q \in Position |-> IF q[1] = u THEN FALSE ELSE queued[q]]
          /\ announce' = announce \cup {u} /\ UNCHANGED <<active, shown>>
      BY <1>6 DEF DrainVault
    <2>2. CASE u = v
      BY <2>1, <2>2, <1>0
    <2>3. CASE u # v
      <3>1. queued'[p] = queued[p]
        BY <2>1, <2>3, <1>a
      <3> QED BY <3>1, <2>1, LaneUntouched
    <2> QED BY <2>2, <2>3
  <1>7. CASE Shutdown
    <2>1. /\ queued' = [q \in Position |-> FALSE]
          /\ announce' = announce \cup present /\ UNCHANGED <<active, shown>>
      BY <1>7 DEF Shutdown
    <2>2. CASE v \in present
      BY <2>1, <2>2, <1>0
    <2>3. CASE v \notin present
      <3>1. queued[p] = FALSE
        BY <2>3, <1>a, <1>t DEF IInv, PresentExact, Lane
      <3>2. queued'[p] = queued[p]
        BY <3>1, <2>1, <1>a
      <3> QED BY <3>2, <2>1, LaneUntouched
    <2> QED BY <2>2, <2>3
  <1>8. ASSUME NEW u \in Vault, PublishIndexTurn(u) PROVE Faithful(v)'
    <2>1. /\ announce' = announce \ {u} /\ shown' = [shown EXCEPT ![u] = IndexLaneState(u)]
          /\ UNCHANGED queue
      BY <1>8 DEF PublishIndexTurn
    <2>2. IndexLaneState(v)' = IndexLaneState(v)
      BY <2>1 DEF IndexLaneState, queue
    <2>3. CASE u = v
      BY <2>1, <2>2, <2>3, <1>t DEF Faithful
    <2>4. CASE u # v
      BY <2>1, <2>2, <2>4, <1>t DEF Faithful
    <2> QED BY <2>3, <2>4
  <1>9. CASE UNCHANGED vars
    BY <1>9, LaneUntouched DEF vars, queue
  <1> QED BY <1>1, <1>2, <1>3, <1>4, <1>5, <1>6, <1>7, <1>8, <1>9 DEF Next, NextTurn

\* Whatever the order in which observers run, the indexing state a status shows is
\* the queue's unless an observer call is still to come.
THEOREM StatusShowsTheQueue == Spec => []ShownMatchesQueue
  <1>1. Init => ShownMatchesQueue
    <2> SUFFICES ASSUME Init, NEW v \in Vault PROVE shown[v] = IndexLaneState(v)
      BY DEF ShownMatchesQueue
    <2>1. <<v, "Index">> \in Position
      BY PositionParts DEF Lane
    <2> QED BY <2>1 DEF Init, IndexLaneState
  <1>2. IInv /\ ShownMatchesQueue /\ [Next]_vars => ShownMatchesQueue'
    BY StepShown DEF ShownMatchesQueue, Faithful
  <1> QED BY <1>1, <1>2, InvariantIInv, PTL DEF Spec
=============================================================================
