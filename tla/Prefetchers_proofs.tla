------------------------- MODULE Prefetchers_proofs -------------------------
(***************************************************************************)
(* What runs inside a cache, for every size of its tables.  The stride     *)
(* prefetcher follows a stride that one instruction read, the access map   *)
(* prefetcher keeps a region for a page and prefetches no line twice;      *)
(* the counters of a pattern of SPP agree with that of its signature, and  *)
(* the ages of its signature table stay a permutation;                     *)
(* Berti learns only what would have come in time, and no entry of its     *)
(* latency table outlives the request it times; LRU, SRRIP and SHiP do not *)
(* evict a block that was hit while one that was there before, and was     *)
(* never hit, stays; and a victim whose writeback is refused is picked     *)
(* again, by all four policies.                                            *)
(***************************************************************************)
EXTENDS MCPrefetchers, WellFoundedInduction, SequenceTheorems, FiniteSetTheorems, TLAPS

\* Every set of naturals that is not empty has a least element.
LEMMA Least ==
    ASSUME NEW S, S \subseteq Nat, S # {}
    PROVE  \E x \in S : \A y \in S : x <= y
<1>1. PICK x \in S : \A y \in S : ~(<<y, x>> \in OpToRel(<, Nat))
  BY WFMin, NatLessThanWellFounded
<1>2. \A y \in S : x <= y
  <2>1. SUFFICES ASSUME NEW y \in S PROVE x <= y
    OBVIOUS
  <2>2. x \in Nat /\ y \in Nat
    OBVIOUS
  <2>3. ~(y < x)
    BY <1>1, <2>2 DEF OpToRel
  <2>. QED BY <2>2, <2>3
<1>. QED BY <1>2

-----------------------------------------------------------------------------
(***************************************************************************)
(* The stride prefetcher                                                   *)
(***************************************************************************)

TrackerEntries == [ip : StrideIps, last : StrideLines, stride : Int]
Lookaheads == [line : Int, stride : Int, left : 1 .. StrideDegree, grounds : Seq(StrideLines)]

StrideTypeOK ==
    /\ tracker \in Seq(TrackerEntries)
    /\ lookahead \in Lookaheads \cup {NoLookahead}
    /\ reads \in [StrideIps -> Seq(StrideLines)]

\* An entry of the table holds what its instruction read last, and how that differs from
\* what it read before.
Recalls(e) ==
    LET r == reads[e.ip]
    IN  /\ r # << >> /\ e.last = r[1]
        /\ e.stride # 0 => Len(r) > 1 /\ r[1] - r[2] = e.stride

StrideIInv ==
    /\ StrideTypeOK
    /\ \A i \in 1 .. Len(tracker) : Recalls(tracker[i])
    /\ \A i, j \in 1 .. Len(tracker) : tracker[i].ip = tracker[j].ip => i = j
    /\ FollowsTheStride

\* Where check_hit finds an instruction.
LEMMA PlaceFinds ==
    ASSUME StrideTypeOK, NEW ip
    PROVE  /\ Place(ip) \in 0 .. Len(tracker)
           /\ Place(ip) # 0 => tracker[Place(ip)].ip = ip
           /\ Place(ip) = 0 => \A i \in 1 .. Len(tracker) : tracker[i].ip # ip
<1>. DEFINE I == {i \in 1 .. Len(tracker) : tracker[i].ip = ip}
<1>1. Len(tracker) \in Nat
  BY LenProperties DEF StrideTypeOK
<1>2. Place(ip) = IF I # {} THEN Min(I) ELSE 0
  BY DEF Place, SelectInSeq
<1>3. I # {} => Min(I) \in I
  <2>. SUFFICES ASSUME I # {} PROVE Min(I) \in I
    OBVIOUS
  <2>1. I \subseteq Nat
    BY <1>1
  <2>. HIDE DEF I
  <2>2. \E x \in I : \A y \in I : x <= y
    BY <2>1, Least
  <2>. QED BY <2>2 DEF Min
<1>. QED BY <1>1, <1>2, <1>3

\* The entries of the others are those of the table, in some places.
LEMMA OthersKept ==
    ASSUME StrideIInv, NEW ip
    PROVE  /\ Others(ip) \in Seq(TrackerEntries)
           /\ \A i \in 1 .. Len(Others(ip)) :
                /\ Others(ip)[i].ip # ip
                /\ \E k \in 1 .. Len(tracker) : Others(ip)[i] = tracker[k]
           /\ \A i, j \in 1 .. Len(Others(ip)) : Others(ip)[i].ip = Others(ip)[j].ip => i = j
<1>. DEFINE p == Place(ip)
            n == Len(tracker)
            o == Others(ip)
<1>1. tracker \in Seq(TrackerEntries) /\ n \in Nat
  BY LenProperties DEF StrideIInv, StrideTypeOK
<1>2. /\ p \in 0 .. n
      /\ p # 0 => tracker[p].ip = ip
      /\ p = 0 => \A i \in 1 .. n : tracker[i].ip # ip
  BY PlaceFinds DEF StrideIInv
<1>3. \A i, j \in 1 .. n : tracker[i].ip = tracker[j].ip => i = j
  BY DEF StrideIInv
<1>4. CASE p = 0
  BY <1>1, <1>2, <1>3, <1>4 DEF Others
<1>5. CASE p # 0
  <2>1. o = SubSeq(tracker, 1, p - 1) \o SubSeq(tracker, p + 1, n)
    BY <1>5 DEF Others, RemoveAt
  <2>. HIDE DEF p, n, o
  <2>2. /\ o \in Seq(TrackerEntries)
        /\ Len(o) = n - 1
        /\ \A i \in 1 .. n - 1 : o[i] = IF i < p THEN tracker[i] ELSE tracker[i + 1]
    <3>. DEFINE a == SubSeq(tracker, 1, p - 1)
                b == SubSeq(tracker, p + 1, n)
    <3>1. p \in 1 .. n
      BY <1>1, <1>2, <1>5
    <3>2. /\ a \in Seq(TrackerEntries) /\ Len(a) = p - 1
          /\ \A i \in 1 .. p - 1 : a[i] = tracker[i]
      BY <1>1, <3>1 DEF n
    <3>3. /\ b \in Seq(TrackerEntries) /\ Len(b) = n - p
          /\ \A i \in 1 .. n - p : b[i] = tracker[i + p]
      BY <1>1, <3>1 DEF n
    <3>. HIDE DEF a, b
    <3>4. o = a \o b
      BY <2>1 DEF a, b
    <3>5. /\ o \in Seq(TrackerEntries) /\ Len(o) = Len(a) + Len(b)
          /\ \A i \in 1 .. Len(a) + Len(b) : o[i] = IF i <= Len(a) THEN a[i] ELSE b[i - Len(a)]
      BY <3>2, <3>3, <3>4, ConcatProperties
    <3>6. Len(o) = n - 1
      BY <1>1, <3>1, <3>2, <3>3, <3>5
    <3>7. ASSUME NEW i \in 1 .. n - 1
          PROVE  o[i] = IF i < p THEN tracker[i] ELSE tracker[i + 1]
      <4>1. CASE i < p
        <5>1. i \in 1 .. p - 1
          BY <1>1, <3>1, <4>1
        <5>. QED BY <1>1, <3>1, <3>2, <3>3, <3>5, <4>1, <5>1
      <4>2. CASE ~(i < p)
        <5>1. i - (p - 1) \in 1 .. n - p /\ i - (p - 1) + p = i + 1 /\ ~(i <= p - 1)
          BY <1>1, <3>1, <4>2
        <5>2. o[i] = b[i - (p - 1)]
          BY <1>1, <3>1, <3>2, <3>3, <3>5, <4>2, <5>1
        <5>3. b[i - (p - 1)] = tracker[i + 1]
          BY <3>3, <5>1
        <5>. QED BY <4>2, <5>2, <5>3
      <4>. QED BY <4>1, <4>2
    <3>. QED BY <3>5, <3>6, <3>7
  <2>3. /\ Len(Others(ip)) = n - 1 /\ o = Others(ip) /\ n = Len(tracker)
        /\ n \in Nat /\ p \in 1 .. n
    BY <1>1, <1>2, <1>5, <2>2 DEF o, n
  <2>4. ASSUME NEW i \in 1 .. n - 1
        PROVE  \E k \in 1 .. n : k # p /\ o[i] = tracker[k] /\ k = (IF i < p THEN i ELSE i + 1)
    BY <2>2, <2>3
  <2>5. \A k \in 1 .. n : k # p => tracker[k].ip # ip
    BY <1>2, <1>3, <1>5, <2>3
  <2>6. ASSUME NEW i \in 1 .. n - 1, NEW j \in 1 .. n - 1, o[i].ip = o[j].ip
        PROVE  i = j
    <3>1. PICK k \in 1 .. n : o[i] = tracker[k] /\ k = (IF i < p THEN i ELSE i + 1)
      BY <2>4
    <3>2. PICK m \in 1 .. n : o[j] = tracker[m] /\ m = (IF j < p THEN j ELSE j + 1)
      BY <2>4
    <3>3. k = m
      BY <1>3, <2>3, <2>6, <3>1, <3>2
    <3>. QED BY <2>3, <3>1, <3>2, <3>3
  <2>7. \A i \in 1 .. n - 1 : o[i].ip # ip /\ \E k \in 1 .. n : o[i] = tracker[k]
    BY <2>4, <2>5
  <2>8. o \in Seq(TrackerEntries) /\ Len(o) = n - 1
    BY <2>2
  <2>. QED BY ONLY <2>3, <2>6, <2>7, <2>8
<1>. QED BY <1>4, <1>5

\* The first place of the table, and what becomes of the others.
LEMMA FirstOfTable ==
    ASSUME NEW e \in TrackerEntries, NEW o \in Seq(TrackerEntries)
    PROVE  LET q == First(e, o)
           IN  /\ q \in Seq(TrackerEntries)
               /\ Len(q) \in 1 .. Len(o) + 1
               /\ q[1] = e
               /\ \A i \in 2 .. Len(q) : q[i] = o[i - 1]
<1>. DEFINE q == <<e>> \o o
            m == IF Len(q) < TrackerWays THEN Len(q) ELSE TrackerWays
<1>1. /\ q \in Seq(TrackerEntries) /\ Len(o) \in Nat /\ Len(q) = Len(o) + 1
      /\ q[1] = e /\ \A i \in 2 .. Len(q) : q[i] = o[i - 1]
  OBVIOUS
<1>2. m \in 1 .. Len(q)
  BY <1>1, StrideAssumption
<1>3. First(e, o) = SubSeq(q, 1, m)
  BY DEF First
<1>. HIDE DEF q, m
<1>. QED BY <1>1, <1>2, <1>3

LEMMA InitStrideIInv == StrideInit => StrideIInv
BY DEF StrideInit, StrideIInv, StrideTypeOK, FollowsTheStride

LEMMA InitiateKeepsIInv ==
    ASSUME StrideIInv, NEW ip \in StrideIps, NEW line \in StrideLines,
           InitiateLookahead(ip, line)
    PROVE  StrideIInv'
<1>. DEFINE p      == Place(ip)
            stride == Stride(ip, line)
            r      == reads[ip]
            m      == IF Len(r) < 2 THEN Len(r) + 1 ELSE 3
            last3  == SubSeq(<<line>> \o r, 1, m)
            e      == [ip |-> ip, last |-> line, stride |-> stride]
            o      == Others(ip)
<1>1. /\ tracker' = First(e, o)
      /\ lookahead' = IF stride # 0 /\ stride = tracker[p].stride
                      THEN [line |-> line, stride |-> stride, left |-> StrideDegree,
                            grounds |-> last3]
                      ELSE lookahead
      /\ reads' = [reads EXCEPT ![ip] = last3]
  BY DEF InitiateLookahead, Remembered
<1>2. /\ tracker \in Seq(TrackerEntries) /\ Len(tracker) \in Nat
      /\ reads \in [StrideIps -> Seq(StrideLines)]
      /\ line \in Nat /\ StrideLines \subseteq Nat
  BY LenProperties, StrideAssumption DEF StrideIInv, StrideTypeOK
<1>3. /\ p \in 0 .. Len(tracker)
      /\ p # 0 => tracker[p].ip = ip
  BY PlaceFinds DEF StrideIInv
<1>4. /\ r \in Seq(StrideLines) /\ Len(r) \in Nat
      /\ \A i \in 1 .. Len(r) : r[i] \in Nat
  <2>1. r \in Seq(StrideLines)
    BY <1>2
  <2>2. Len(r) \in Nat /\ \A i \in 1 .. Len(r) : r[i] \in StrideLines
    BY <2>1
  <2>. QED BY <1>2, <2>1, <2>2
<1>5. ASSUME p # 0
      PROVE  /\ tracker[p] \in TrackerEntries
             /\ r # << >> /\ stride = line - r[1]
             /\ tracker[p].stride # 0 => Len(r) > 1 /\ r[1] - r[2] = tracker[p].stride
  <2>1. p \in 1 .. Len(tracker)
    BY <1>2, <1>3, <1>5
  <2>2. Recalls(tracker[p]) /\ tracker[p].ip = ip
    BY <1>3, <1>5, <2>1 DEF StrideIInv
  <2>. QED BY <1>2, <1>5, <2>1, <2>2 DEF Recalls, Stride
<1>6. p = 0 => stride = 0
  BY DEF Stride
<1>7. stride \in Int
  <2>1. CASE p # 0
    <3>1. 1 \in 1 .. Len(r)
      BY <1>4, <1>5, <2>1, EmptySeq
    <3>. QED BY <1>2, <1>4, <1>5, <2>1, <3>1
  <2>. QED BY <1>6, <2>1
<1>. HIDE DEF p, stride, r
<1>8. /\ last3 \in Seq(StrideLines)
      /\ Len(last3) = m
      /\ last3[1] = line
      /\ Len(r) > 0 => last3[2] = r[1]
      /\ Len(r) > 1 => last3[3] = r[2]
  <2>. DEFINE q == <<line>> \o r
  <2>1. /\ q \in Seq(StrideLines) /\ Len(q) = Len(r) + 1 /\ q[1] = line
        /\ Len(r) > 0 => q[2] = r[1]
        /\ Len(r) > 1 => q[3] = r[2]
    BY <1>4
  <2>2. m \in 1 .. Len(q) /\ (Len(r) > 0 => m >= 2) /\ (Len(r) > 1 => m = 3)
    BY <1>4, <2>1
  <2>. HIDE DEF q
  <2>3. last3 = SubSeq(q, 1, m)
    BY DEF q
  <2>. HIDE DEF m
  <2>. QED BY <2>1, <2>2, <2>3
<1>. HIDE DEF last3
<1>9. e \in TrackerEntries
  BY <1>7 DEF TrackerEntries
<1>10. /\ o \in Seq(TrackerEntries) /\ Len(o) \in Nat
       /\ \A i \in 1 .. Len(o) : o[i].ip # ip /\ \E k \in 1 .. Len(tracker) : o[i] = tracker[k]
       /\ \A i, j \in 1 .. Len(o) : o[i].ip = o[j].ip => i = j
  BY OthersKept, LenProperties
<1>. HIDE DEF o
<1>11. /\ tracker' \in Seq(TrackerEntries)
       /\ Len(tracker') \in 1 .. Len(o) + 1
       /\ tracker'[1] = e
       /\ \A i \in 2 .. Len(tracker') : tracker'[i] = o[i - 1]
  BY <1>1, <1>9, <1>10, FirstOfTable
<1>12. /\ reads' \in [StrideIps -> Seq(StrideLines)] /\ reads'[ip] = last3
       /\ \A other \in StrideIps : other # ip => reads'[other] = reads[other]
  BY <1>1, <1>2, <1>8
<1>13. ASSUME stride # 0, stride = tracker[p].stride
       PROVE  /\ Len(r) > 1 /\ m = 3
              /\ last3[1] - last3[2] = stride /\ last3[2] - last3[3] = stride
  <2>1. p # 0 /\ Len(r) > 1 /\ stride = line - r[1] /\ r[1] - r[2] = stride
    BY <1>5, <1>6, <1>13
  <2>. QED BY <1>4, <1>8, <2>1
<1>14. (lookahead \in Lookaheads \cup {NoLookahead})'
  <2>1. CASE stride # 0 /\ stride = tracker[p].stride
    <3>1. StrideDegree \in 1 .. StrideDegree
      BY StrideAssumption
    <3>. QED BY <1>1, <1>2, <1>7, <1>8, <2>1, <3>1 DEF Lookaheads
  <2>2. CASE ~(stride # 0 /\ stride = tracker[p].stride)
    BY <1>1, <2>2 DEF StrideIInv, StrideTypeOK, NoLookahead
  <2>. QED BY <2>1, <2>2
<1>15. StrideTypeOK'
  BY <1>11, <1>12, <1>14 DEF StrideTypeOK
<1>16. (\A i \in 1 .. Len(tracker) : Recalls(tracker[i]))'
  <2>. SUFFICES ASSUME NEW i \in 1 .. Len(tracker') PROVE Recalls(tracker[i])'
    OBVIOUS
  <2>1. CASE i = 1
    <3>1. tracker'[i] = e
      BY <1>11, <2>1
    <3>2. last3 # << >> /\ e.last = last3[1]
      BY <1>4, <1>8
    <3>3. e.stride # 0 => Len(last3) > 1 /\ last3[1] - last3[2] = e.stride
      BY <1>4, <1>5, <1>6, <1>8, EmptySeq
    <3>. QED BY <1>12, <3>1, <3>2, <3>3 DEF Recalls
  <2>2. CASE i # 1
    <3>1. i \in 2 .. Len(tracker') /\ i - 1 \in 1 .. Len(o)
      BY <1>10, <1>11, <2>2
    <3>2. PICK k \in 1 .. Len(tracker) : tracker'[i] = tracker[k]
      BY <1>10, <1>11, <3>1
    <3>3. tracker'[i].ip # ip
      BY <1>10, <1>11, <3>1
    <3>4. Recalls(tracker[k]) /\ tracker[k] \in TrackerEntries
      BY <1>2 DEF StrideIInv
    <3>5. tracker[k].ip \in StrideIps
      BY <3>4 DEF TrackerEntries
    <3>6. reads'[tracker[k].ip] = reads[tracker[k].ip]
      BY <1>12, <3>2, <3>3, <3>5
    <3>. QED BY <3>2, <3>4, <3>6 DEF Recalls
  <2>. QED BY <2>1, <2>2
<1>17. (\A i, j \in 1 .. Len(tracker) : tracker[i].ip = tracker[j].ip => i = j)'
  <2>. SUFFICES ASSUME NEW i \in 1 .. Len(tracker'), NEW j \in 1 .. Len(tracker'), i < j
                PROVE  tracker'[i].ip # tracker'[j].ip
    BY <1>10, <1>11
  <2>1. j \in 2 .. Len(tracker') /\ j - 1 \in 1 .. Len(o)
    BY <1>10, <1>11
  <2>2. CASE i = 1
    BY <1>10, <1>11, <2>1, <2>2
  <2>3. CASE i # 1
    <3>1. i \in 2 .. Len(tracker') /\ i - 1 \in 1 .. Len(o)
      BY <1>10, <1>11, <2>3
    <3>2. tracker'[i] = o[i - 1] /\ tracker'[j] = o[j - 1]
      BY <1>11, <2>1, <3>1
    <3>3. i - 1 # j - 1
      BY <1>10, <1>11
    <3>. QED BY <1>10, <2>1, <3>1, <3>2, <3>3
  <2>. QED BY <2>2, <2>3
<1>18. FollowsTheStride'
  <2>1. CASE stride # 0 /\ stride = tracker[p].stride
    <3>1. /\ lookahead'.grounds = last3 /\ lookahead'.stride = stride
          /\ lookahead'.line = line /\ lookahead'.left = StrideDegree
      BY <1>1, <2>1
    <3>2. line = last3[1] + (StrideDegree - StrideDegree) * stride
      BY <1>2, <1>7, <1>8, StrideAssumption
    <3>. QED BY <1>8, <1>13, <2>1, <3>1, <3>2 DEF FollowsTheStride
  <2>2. CASE ~(stride # 0 /\ stride = tracker[p].stride)
    BY <1>1, <2>2 DEF StrideIInv, FollowsTheStride
  <2>. QED BY <2>1, <2>2
<1>. QED BY <1>15, <1>16, <1>17, <1>18 DEF StrideIInv

\* Where a lookahead is when some lines are left of its way.
OnTheWay(first, stride, left) == first + (StrideDegree - left) * stride

LEMMA OneStrideOn ==
    ASSUME NEW first \in Int, NEW stride \in Int, NEW left \in Int
    PROVE  OnTheWay(first, stride, left - 1) = OnTheWay(first, stride, left) + stride
<1>. DEFINE d == StrideDegree - left
<1>1. d \in Int /\ StrideDegree - (left - 1) = d + 1
  BY StrideAssumption
<1>. HIDE DEF d
<1>2. (d + 1) * stride = d * stride + stride /\ d * stride \in Int
  BY <1>1
<1>3. OnTheWay(first, stride, left) = first + d * stride
  BY DEF OnTheWay, d
<1>4. OnTheWay(first, stride, left - 1) = first + (d + 1) * stride
  BY <1>1 DEF OnTheWay
<1>. QED BY <1>1, <1>2, <1>3, <1>4

LEMMA AdvanceKeepsIInv ==
    ASSUME StrideIInv, NEW accepted \in BOOLEAN, AdvanceLookahead(accepted)
    PROVE  StrideIInv'
<1>. DEFINE l == lookahead
            f == [l EXCEPT !.line = @ + l.stride, !.left = @ - 1]
<1>1. l \in Lookaheads /\ l # NoLookahead
  BY DEF AdvanceLookahead, StrideIInv, StrideTypeOK
<1>2. tracker' = tracker /\ reads' = reads
  BY DEF AdvanceLookahead
<1>3. \/ lookahead' = NoLookahead
      \/ lookahead' = l
      \/ /\ VirtualPrefetch \/ StridePage(l.line + l.stride) = StridePage(l.line)
         /\ l.left # 1 /\ lookahead' = f
  BY DEF AdvanceLookahead, Advanced
<1>4. /\ l.line \in Int /\ l.stride \in Int /\ l.left \in 1 .. StrideDegree
      /\ l.grounds \in Seq(StrideLines)
  BY <1>1 DEF Lookaheads
<1>5. f = [line |-> l.line + l.stride, stride |-> l.stride, left |-> l.left - 1,
           grounds |-> l.grounds]
  <2>1. l = [line |-> l.line, stride |-> l.stride, left |-> l.left, grounds |-> l.grounds]
    BY <1>1 DEF Lookaheads
  <2>. DEFINE m == [l EXCEPT !.line = @ + l.stride]
  <2>2. f = [m EXCEPT !.left = @ - 1]
    OBVIOUS
  <2>3. m = [line |-> l.line + l.stride, stride |-> l.stride, left |-> l.left,
             grounds |-> l.grounds]
    BY <2>1
  <2>. HIDE DEF m, l, f
  <2>4. [m EXCEPT !.left = @ - 1]
            = [line |-> l.line + l.stride, stride |-> l.stride, left |-> l.left - 1,
               grounds |-> l.grounds]
    BY ONLY <2>3
  <2>. QED BY <2>2, <2>4
<1>6. l.left # 1 => f \in Lookaheads
  <2>1. StrideDegree \in Nat
    BY StrideAssumption
  <2>2. l.left # 1 => l.left - 1 \in 1 .. StrideDegree
    BY <1>4, <2>1
  <2>. HIDE DEF l, f
  <2>. QED BY <1>4, <1>5, <2>2 DEF Lookaheads
<1>. HIDE DEF l, f
<1>7. StrideTypeOK'
  BY <1>1, <1>2, <1>3, <1>6 DEF StrideIInv, StrideTypeOK, NoLookahead
<1>8. FollowsTheStride'
  <2>1. CASE lookahead' = f /\ l.left # 1
             /\ (VirtualPrefetch \/ StridePage(l.line + l.stride) = StridePage(l.line))
    <3>. DEFINE g == l.grounds
    <3>1. /\ Len(g) = 3 /\ g[1] - g[2] = l.stride /\ g[2] - g[3] = l.stride
          /\ l.line = g[1] + (StrideDegree - l.left) * l.stride
          /\ VirtualPrefetch \/ StridePage(l.line) = StridePage(g[1])
      BY <1>1 DEF l, StrideIInv, FollowsTheStride
    <3>2. f.line = g[1] + (StrideDegree - f.left) * f.stride
      <4>1. StrideDegree \in Int /\ l.left \in Int /\ g \in Seq(StrideLines)
        BY <1>4, StrideAssumption
      <4>2. g[1] \in Int
        <5>. HIDE DEF g
        <5>1. 1 \in 1 .. Len(g)
          BY <3>1
        <5>2. g[1] \in StrideLines
          BY <4>1, <5>1
        <5>3. StrideLines \subseteq Nat
          BY StrideAssumption
        <5>4. g[1] \in Nat
          BY <5>2, <5>3
        <5>. QED BY <5>4
      <4>3. f.line = l.line + l.stride /\ f.left = l.left - 1 /\ f.stride = l.stride
        BY <1>5
      <4>4. l.line + l.stride = OnTheWay(g[1], l.stride, l.left - 1)
        <5>. HIDE DEF g
        <5>1. l.line \in Int /\ l.stride \in Int
          BY <1>4
        <5>2. l.line = OnTheWay(g[1], l.stride, l.left)
          BY <3>1 DEF OnTheWay
        <5>3. OnTheWay(g[1], l.stride, l.left - 1) = OnTheWay(g[1], l.stride, l.left) + l.stride
          <6>1. g[1] \in Int /\ l.stride \in Int /\ l.left \in Int
            BY <4>1, <4>2, <5>1
          <6>. QED BY ONLY <6>1, OneStrideOn, Zenon
        <5>. QED BY ONLY <5>2, <5>3
      <4>. QED BY <4>3, <4>4 DEF OnTheWay
    <3>. HIDE DEF g
    <3>3. f.grounds = g
      BY <1>5 DEF g
    <3>. QED BY <1>5, <2>1, <3>1, <3>2, <3>3 DEF FollowsTheStride
  <2>2. CASE lookahead' = NoLookahead \/ lookahead' = l
    BY <2>2 DEF l, StrideIInv, FollowsTheStride
  <2>. QED BY <1>3, <2>1, <2>2
<1>. QED BY <1>2, <1>7, <1>8 DEF StrideIInv, Recalls

LEMMA StrideAlways == StrideSpec => []StrideIInv
<1>1. StrideIInv /\ [StrideNext]_strideVars => StrideIInv'
  <2>1. StrideIInv /\ UNCHANGED strideVars => StrideIInv'
    BY DEF StrideIInv, StrideTypeOK, Recalls, FollowsTheStride, strideVars
  <2>. QED BY <2>1, InitiateKeepsIInv, AdvanceKeepsIInv DEF StrideNext
<1>. QED BY <1>1, InitStrideIInv, PTL DEF StrideSpec

-----------------------------------------------------------------------------
(***************************************************************************)
(* The access map prefetcher                                               *)
(***************************************************************************)

AccessMaps == [page : Int, read : SUBSET Int, prefetched : SUBSET Int]

\* Regions, with one for a page.
PagesApart(q) ==
    /\ q \in Seq(AccessMaps) /\ q # << >>
    /\ \A i, j \in 1 .. Len(q) : q[i].page = q[j].page /\ i # j => q[i].page = 0

AmpmIInv == PagesApart(regions)

LEMMA LineParts == ASSUME NEW line \in Int PROVE PageAt(line) \in Int /\ OffsetAt(line) \in Int
<1>1. AmpmPageLines \in Nat \ {0}
  BY AmpmAssumption
<1>. QED BY <1>1 DEF PageAt, OffsetAt

LEMMA RegionFound ==
    ASSUME NEW q \in Seq(AccessMaps), NEW page, RegionsOf(q, page) # {}
    PROVE  Min(RegionsOf(q, page)) \in 1 .. Len(q)
<1>. DEFINE I == RegionsOf(q, page)
<1>1. Len(q) \in Nat /\ DOMAIN q = 1 .. Len(q)
  BY LenProperties
<1>2. I \subseteq 1 .. Len(q) /\ I \subseteq Nat
  BY <1>1 DEF RegionsOf
<1>. HIDE DEF I
<1>3. I # {}
  BY DEF I
<1>4. \E x \in I : \A y \in I : x <= y
  BY <1>2, <1>3, Least
<1>5. Min(I) \in I
  BY <1>4 DEF Min
<1>. QED BY <1>2, <1>5 DEF I

\* find_region, or a new one in place of the oldest.
LEMMA WithRegionApart ==
    ASSUME NEW q, PagesApart(q), NEW page \in Int
    PROVE  PagesApart(WithRegion(q, page)) /\ RegionsOf(WithRegion(q, page), page) # {}
<1>1. q \in Seq(AccessMaps) /\ Len(q) \in Nat /\ Len(q) > 0 /\ DOMAIN q = 1 .. Len(q)
  BY LenProperties, EmptySeq DEF PagesApart
<1>2. CASE RegionsOf(q, page) # {}
  BY <1>2 DEF WithRegion
<1>3. CASE RegionsOf(q, page) = {}
  <2>. DEFINE t == Tail(q)
              e == NewRegion(page)
              a == Append(t, e)
  <2>1. \A i \in 1 .. Len(q) : q[i].page # page
    BY <1>1, <1>3 DEF RegionsOf
  <2>2. /\ t \in Seq(AccessMaps) /\ Len(t) = Len(q) - 1
        /\ \A i \in 1 .. Len(q) - 1 : t[i] = q[i + 1]
    BY <1>1
  <2>3. e \in AccessMaps /\ e.page = page
    BY DEF NewRegion, AccessMaps
  <2>. HIDE DEF t, e
  <2>4. /\ a \in Seq(AccessMaps) /\ Len(a) = Len(q)
        /\ \A i \in 1 .. Len(q) - 1 : a[i] = q[i + 1]
        /\ a[Len(q)] = e
    <3>1. /\ a \in Seq(AccessMaps) /\ Len(a) = Len(t) + 1
          /\ \A i \in 1 .. Len(t) : a[i] = t[i]
          /\ a[Len(t) + 1] = e
      BY <2>2, <2>3, AppendProperties
    <3>2. Len(t) + 1 = Len(q) /\ 1 .. Len(t) = 1 .. Len(q) - 1
      BY <1>1, <2>2
    <3>. HIDE DEF a
    <3>. QED BY <2>2, <3>1, <3>2
  <2>. HIDE DEF a
  <2>5. ASSUME NEW i \in 1 .. Len(q), NEW j \in 1 .. Len(q), a[i].page = a[j].page, i # j
        PROVE  a[i].page = 0
    <3>1. i < Len(q) => i \in 1 .. Len(q) - 1 /\ i + 1 \in 1 .. Len(q) /\ a[i] = q[i + 1]
      BY <1>1, <2>4
    <3>2. j < Len(q) => j \in 1 .. Len(q) - 1 /\ j + 1 \in 1 .. Len(q) /\ a[j] = q[j + 1]
      BY <1>1, <2>4
    <3>3. i < Len(q) /\ j < Len(q)
      BY <1>1, <2>1, <2>3, <2>4, <2>5, <3>1, <3>2
    <3>4. i + 1 # j + 1
      BY <2>5
    <3>. QED BY <2>5, <3>1, <3>2, <3>3, <3>4 DEF PagesApart
  <2>6. PagesApart(a)
    BY <1>1, <2>4, <2>5, EmptySeq DEF PagesApart
  <2>7. Len(q) \in RegionsOf(a, page)
    <3>1. DOMAIN a = 1 .. Len(q)
      BY <2>4
    <3>. QED BY <1>1, <2>3, <2>4, <3>1 DEF RegionsOf
  <2>8. WithRegion(q, page) = a
    BY <1>3 DEF WithRegion, a, t, e
  <2>. QED BY <2>6, <2>7, <2>8
<1>. QED BY <1>2, <1>3

\* A region that is marked keeps its page.
LEMMA SamePagesApart ==
    ASSUME NEW q, PagesApart(q), NEW k \in 1 .. Len(q), NEW e \in AccessMaps,
           e.page = q[k].page, NEW p, p = [q EXCEPT ![k] = e]
    PROVE  PagesApart(p)
<1>1. q \in Seq(AccessMaps) /\ Len(q) \in Nat /\ q # << >>
  BY LenProperties DEF PagesApart
<1>2. /\ p \in Seq(AccessMaps) /\ Len(p) = Len(q)
      /\ \A i \in 1 .. Len(q) : p[i] = IF i = k THEN e ELSE q[i]
  BY <1>1
<1>3. p # << >>
  BY <1>1, <1>2, EmptySeq
<1>4. \A i \in 1 .. Len(q) : p[i].page = q[i].page
  BY <1>2
<1>5. \A i, j \in 1 .. Len(q) : q[i].page = q[j].page /\ i # j => q[i].page = 0
  BY DEF PagesApart
<1>6. \A i, j \in 1 .. Len(p) : p[i].page = p[j].page /\ i # j => p[i].page = 0
  BY <1>2, <1>4, <1>5
<1>. QED BY ONLY <1>2, <1>3, <1>6 DEF PagesApart

LEMMA MarkedApart ==
    ASSUME NEW q, PagesApart(q), NEW line \in Int
    PROVE  PagesApart(Marked(q, line))
<1>. DEFINE r == WithRegion(q, PageAt(line))
            k == Min(RegionsOf(r, PageAt(line)))
            e == [r[k] EXCEPT !.prefetched = @ \cup {OffsetAt(line)}]
<1>1. PageAt(line) \in Int /\ OffsetAt(line) \in Int
  BY LineParts
<1>2. PagesApart(r) /\ RegionsOf(r, PageAt(line)) # {}
  BY <1>1, WithRegionApart
<1>3. Marked(q, line) = [r EXCEPT ![k].prefetched = @ \cup {OffsetAt(line)}]
  BY DEF Marked
<1>. HIDE DEF r
<1>4. r \in Seq(AccessMaps) /\ Len(r) \in Nat
  BY <1>2, LenProperties DEF PagesApart
<1>5. k \in 1 .. Len(r)
  BY <1>2, <1>4, RegionFound
<1>. HIDE DEF k
<1>6. r[k] \in AccessMaps
  BY <1>4, <1>5
<1>7. e \in AccessMaps /\ e.page = r[k].page
  BY <1>1, <1>6 DEF AccessMaps
<1>8. Marked(q, line) = [r EXCEPT ![k] = e]
  BY <1>3
<1>. HIDE DEF e
<1>. QED BY ONLY <1>2, <1>5, <1>7, <1>8, SamePagesApart

\* What Direction goes on with, after each distance.
Trying(s) ==
    /\ s = [q |-> s.q, issued |-> s.issued, free |-> s.free]
    /\ PagesApart(s.q)

TriedStep(par, s, i)  == Tried(s, par.line, par.direction, i)
TriedInv(par, k, s)   == Trying(s)

TriedLoop == INSTANCE FoldInduction WITH Op <- TriedStep, Inv <- TriedInv

LEMMA TriedIs ==
    ASSUME NEW x, Trying(x), NEW line \in Int, NEW direction \in Int, NEW k \in Nat
    PROVE  Trying(Tried(x, line, direction, k))
<1>. DEFINE at == line + direction * k
            y  == Tried(x, line, direction, k)
            r  == Marked(x.q, at)
<1>1. at \in Int
  <2>1. direction * k \in Int
    OBVIOUS
  <2>. QED BY <2>1
<1>2. PagesApart(r)
  BY <1>1, MarkedApart DEF Trying
<1>3. CASE y = x
  BY <1>3
<1>4. CASE y # x
  <2>1. y = [x EXCEPT !.q = r, !.issued = @ + 1, !.free = @ - 1]
    BY <1>4 DEF Tried
  <2>. HIDE DEF r, y
  <2>2. y = [q |-> r, issued |-> x.issued + 1, free |-> x.free - 1]
    BY <2>1 DEF Trying
  <2>. QED BY <1>2, <2>2 DEF Trying, y
<1>. QED BY <1>3, <1>4

LEMMA DirectionIs ==
    ASSUME NEW s, Trying(s), NEW line \in Int, NEW direction \in Int
    PROVE  Trying(Direction(s, line, direction))
<1>. DEFINE par  == [line |-> line, direction |-> direction]
            base == [s EXCEPT !.issued = 0]
            n    == [i \in 1 .. MaxDistance |-> i]
            t    == Direction(s, line, direction)
<1>1. t = TriedLoop!Fold(par, base, n)
  BY DEF Direction, TriedLoop!Fold, TriedStep, FoldLeft, TriedLoop!FoldLeft,
         MapThenFoldSet, TriedLoop!MapThenFoldSet, Max, TriedLoop!Max
<1>2. /\ MaxDistance \in Nat /\ n \in Seq(Nat) /\ Len(n) = MaxDistance
      /\ \A i \in 1 .. MaxDistance : n[i] = i
  BY AmpmAssumption
<1>3. par.line = line /\ par.direction = direction
  OBVIOUS
<1>4. Trying(base)
  BY DEF Trying
<1>. HIDE DEF base, n, par, t
<1>5. TriedLoop!Keeps(par, n)
  <2>. SUFFICES ASSUME NEW k \in 1 .. MaxDistance, NEW x, Trying(x)
                PROVE  Trying(Tried(x, line, direction, k))
    BY <1>2, <1>3 DEF TriedLoop!Keeps, TriedStep, TriedInv
  <2>1. k \in Nat
    BY <1>2
  <2>. QED BY <2>1, TriedIs
<1>6. TriedInv(par, Len(n), t)
  BY <1>1, <1>2, <1>4, <1>5, TriedLoop!FoldKeeps DEF TriedInv
<1>. QED BY <1>6 DEF TriedInv, t

LEMMA InitAmpmIInv == AmpmInit => AmpmIInv
<1>. SUFFICES ASSUME AmpmInit PROVE AmpmIInv
  OBVIOUS
<1>1. RegionCount \in Nat \ {0}
  BY AmpmAssumption
<1>2. NewRegion(0) \in AccessMaps /\ NewRegion(0).page = 0
  BY DEF NewRegion, AccessMaps
<1>3. /\ regions \in Seq(AccessMaps) /\ Len(regions) = RegionCount
      /\ \A i \in 1 .. RegionCount : regions[i] = NewRegion(0)
  BY <1>1, <1>2 DEF AmpmInit
<1>4. regions # << >>
  BY <1>1, <1>3, EmptySeq
<1>. QED BY <1>1, <1>2, <1>3, <1>4 DEF AmpmIInv, PagesApart

LEMMA ReadKeepsIInv ==
    ASSUME AmpmIInv, NEW line \in Int, NEW free, Read(line, free)
    PROVE  AmpmIInv'
<1>1. PagesApart(regions) /\ regions \in Seq(AccessMaps) /\ Len(regions) \in Nat
  BY LenProperties DEF AmpmIInv, PagesApart
<1>2. PageAt(line) \in Int /\ OffsetAt(line) \in Int
  BY LineParts
<1>3. CASE RegionsOf(regions, PageAt(line)) = {}
  <2>1. regions' = WithRegion(regions, PageAt(line))
    BY <1>3 DEF Read
  <2>. QED BY <1>1, <1>2, <2>1, WithRegionApart DEF AmpmIInv
<1>4. CASE RegionsOf(regions, PageAt(line)) # {}
  <2>. DEFINE k == Min(RegionsOf(regions, PageAt(line)))
              m == [regions EXCEPT ![k].read = @ \cup {OffsetAt(line)}]
              e == [regions[k] EXCEPT !.read = @ \cup {OffsetAt(line)}]
              s == [q |-> m, issued |-> 0, free |-> free]
              t == Direction(s, line, 1)
              u == Direction(t, line, -1)
  <2>1. regions' = u.q
    BY <1>4 DEF Read
  <2>2. k \in 1 .. Len(regions)
    BY <1>1, <1>4, RegionFound
  <2>3. PagesApart(m)
    <3>. HIDE DEF k
    <3>1. regions[k] \in AccessMaps
      BY <1>1, <2>2
    <3>2. e \in AccessMaps /\ e.page = regions[k].page
      BY <1>2, <3>1 DEF AccessMaps
    <3>3. m = [regions EXCEPT ![k] = e]
      OBVIOUS
    <3>. HIDE DEF e, m
    <3>. QED BY <1>1, <2>2, <3>2, <3>3, SamePagesApart
  <2>. HIDE DEF m
  <2>4. Trying(s)
    BY <2>3 DEF Trying
  <2>. HIDE DEF s
  <2>5. Trying(t)
    BY <2>4, DirectionIs
  <2>. HIDE DEF t
  <2>6. Trying(u)
    BY <2>5, DirectionIs
  <2>. HIDE DEF u
  <2>. QED BY <2>1, <2>6 DEF AmpmIInv, Trying
<1>. QED BY <1>3, <1>4

LEMMA AmpmAlways == AmpmSpec => []AmpmIInv
<1>1. AmpmIInv /\ [AmpmNext]_ampmVars => AmpmIInv'
  <2>1. AmpmIInv /\ UNCHANGED ampmVars => AmpmIInv'
    BY DEF AmpmIInv, ampmVars
  <2>2. ASSUME AmpmIInv, AmpmNext PROVE AmpmIInv'
    <3>1. PICK page \in AmpmPages, offset \in 0 .. AmpmPageLines - 1, free \in FreeSlots :
               Read(page * AmpmPageLines + offset, free)
      BY <2>2 DEF AmpmNext
    <3>2. page * AmpmPageLines + offset \in Int
      BY AmpmAssumption
    <3>. QED BY <2>2, <3>1, <3>2, ReadKeepsIInv
  <2>. QED BY <2>1, <2>2
<1>. QED BY <1>1, InitAmpmIInv, PTL DEF AmpmSpec

-----------------------------------------------------------------------------
\* RegularitySound, of each prefetcher alone and of the two among the others: the
\* lookahead of ip_stride stays on the way that its instruction took, and va_ampm_lite
\* has one region for a page other than 0.
THEOREM RegularityIsSound == RunSpec => []RegularitySound
<1>1. RunSpec => StrideSpec
  <2>1. RunInit => StrideInit
    BY DEF RunInit
  <2>2. RunNext => StrideNext \/ UNCHANGED strideVars
    BY DEF RunNext
  <2>3. UNCHANGED <<part, bertiVars, sppVars, strideVars, ampmVars, replVars>>
            => UNCHANGED strideVars
    OBVIOUS
  <2>4. [RunNext]_<<part, bertiVars, sppVars, strideVars, ampmVars, replVars>>
            => [StrideNext]_strideVars
    BY <2>2, <2>3
  <2>. QED BY <2>1, <2>4, PTL DEF RunSpec, StrideSpec
<1>2. RunSpec => AmpmSpec
  <2>1. RunInit => AmpmInit
    BY DEF RunInit
  <2>2. RunNext => AmpmNext \/ UNCHANGED ampmVars
    BY DEF RunNext
  <2>3. UNCHANGED <<part, bertiVars, sppVars, strideVars, ampmVars, replVars>>
            => UNCHANGED ampmVars
    OBVIOUS
  <2>4. [RunNext]_<<part, bertiVars, sppVars, strideVars, ampmVars, replVars>>
            => [AmpmNext]_ampmVars
    BY <2>2, <2>3
  <2>. QED BY <2>1, <2>4, PTL DEF RunSpec, AmpmSpec
<1>3. StrideIInv => FollowsTheStride
  BY DEF StrideIInv
<1>4. AmpmIInv => RegionsSound
  <2>. SUFFICES ASSUME AmpmIInv PROVE RegionsSound
    OBVIOUS
  <2>1. regions \in Seq(AccessMaps) /\ DOMAIN regions = 1 .. Len(regions)
    BY LenProperties DEF AmpmIInv, PagesApart
  <2>. QED BY <2>1 DEF AmpmIInv, PagesApart, RegionsSound
<1>. QED BY <1>1, <1>2, <1>3, <1>4, StrideAlways, AmpmAlways, PTL DEF RegularitySound

-----------------------------------------------------------------------------
(***************************************************************************)
(* Berti: what its tables hold, and what learning does to them             *)
(***************************************************************************)

HistoryEntries == [tag : Int, line : Int, time : Nat]
HistoryRings   == [at : 1 .. HistoryWays, entry : [1 .. HistoryWays -> HistoryEntries]]
ShadowEntries  == [line : Int, pf : BOOLEAN, lat : Nat]
LatencyEntries == [tag : Int \ {0}, time : Nat \ {0}, pf : BOOLEAN]

DeltasOK(e) ==
    /\ e = [conf |-> e.conf, deltas |-> e.deltas]
    /\ DOMAIN e.deltas \subseteq Int /\ IsFiniteSet(DOMAIN e.deltas)

FifoOK(fifo, table) ==
    /\ fifo \in Seq(Int) /\ Len(fifo) <= BertiTableSize + 1
    /\ \A t \in DOMAIN table : \E k \in 1 .. Len(fifo) : fifo[k] = t
    /\ \A t \in DOMAIN table : DeltasOK(table[t])

Tables(b) ==
    /\ b = [latency |-> b.latency, shadow |-> b.shadow, history |-> b.history,
            table |-> b.table, fifo |-> b.fifo, failed |-> b.failed]
    /\ b.latency \in [DOMAIN b.latency -> LatencyEntries]
    /\ b.shadow \in [Frames -> ShadowEntries]
    /\ b.history \in [{0, 1} -> HistoryRings]
    /\ FifoOK(b.fifo, b.table)
    /\ ~b.failed

OnlyDeltas(x, b) == x.latency = b.latency /\ x.shadow = b.shadow /\ x.history = b.history

LEMMA BertiSizes ==
    /\ {LineSets, LineWays, Misses, PrefetchSlots, HistoryWays,
        TimeMod, AddrMod} \subseteq Nat \ {0}
    /\ {BertiTableSize, Waiting, QueueSlots} \subseteq Nat
    /\ Waiting <= QueueSlots
<1>1. TimeMod # 0
  <2>1. LatMod \in Nat /\ TimeMod \in Nat /\ LatMod < TimeMod
    BY BertiAssumption
  <2>. QED BY <2>1
<1>. QED BY <1>1, BertiAssumption

\* The values of a function on a finite set are not more than its arguments.
LEMMA ImageSize ==
    ASSUME NEW S, IsFiniteSet(S), NEW f, NEW T, T = {f[x] : x \in S}
    PROVE  IsFiniteSet(T) /\ Cardinality(T) <= Cardinality(S)
<1>. DEFINE g == [x \in S |-> f[x]]
<1>1. g \in Surjection(S, T)
  BY DEF Surjection
<1>. QED BY <1>1, FS_Surjection

LEMMA TableSize ==
    ASSUME NEW S, NEW q, NEW n \in Nat, \A t \in S : \E k \in 1 .. n : q[k] = t
    PROVE  IsFiniteSet(S) /\ Cardinality(S) \in Nat /\ Cardinality(S) <= n
<1>. DEFINE T == {q[k] : k \in 1 .. n}
<1>1. IsFiniteSet(1 .. n) /\ Cardinality(1 .. n) = n
  BY FS_Interval
<1>2. IsFiniteSet(T) /\ Cardinality(T) <= n
  BY <1>1, ImageSize
<1>3. S \subseteq T
  OBVIOUS
<1>. HIDE DEF T
<1>4. IsFiniteSet(S) /\ Cardinality(S) <= Cardinality(T)
  BY <1>2, <1>3, FS_Subset
<1>. QED BY <1>2, <1>4, FS_CardinalityType

LEMMA WithDeltaKeeps ==
    ASSUME NEW deltas, DOMAIN deltas \subseteq Int, IsFiniteSet(DOMAIN deltas), NEW delta \in Int,
           NEW ds \in WithDelta(deltas, delta)
    PROVE  DOMAIN ds \subseteq Int /\ IsFiniteSet(DOMAIN ds)
<1>. DEFINE D == DOMAIN deltas
            least == Min({Rank(deltas[d]) : d \in DOMAIN deltas})
            E == {d \in D : Rank(deltas[d]) = least}
<1>1. DOMAIN ds \subseteq D \cup {delta}
  <2>1. CASE delta \in D
    BY <2>1 DEF WithDelta
  <2>2. CASE delta \notin D /\ Cardinality(D) < DeltaSize
    BY <2>2 DEF WithDelta, With
  <2>3. CASE delta \notin D /\ ~(Cardinality(D) < DeltaSize)
    <3>1. \E d \in E : ds = IF deltas[d].rpl \in {"R", "L2R"}
                            THEN With(Without(deltas, {d}), delta, NewDelta) ELSE deltas
      BY <2>3 DEF WithDelta
    <3>. QED BY <3>1 DEF With, Without
  <2>. QED BY <2>1, <2>2, <2>3
<1>2. IsFiniteSet(D \cup {delta})
  BY FS_AddElement
<1>3. D \cup {delta} \subseteq Int
  OBVIOUS
<1>. HIDE DEF D
<1>. QED BY <1>1, <1>2, <1>3, FS_Subset

LEMMA DeltaAddKeeps ==
    ASSUME NEW b, Tables(b), NEW tag \in Int, NEW delta \in Int, NEW x \in DeltaAdd(b, tag, delta)
    PROVE  Tables(x) /\ OnlyDeltas(x, b)
<1>1. FifoOK(b.fifo, b.table) /\ Len(b.fifo) \in Nat /\ BertiTableSize \in Nat
  BY BertiSizes, LenProperties DEF Tables, FifoOK
<1>2. CASE tag \in DOMAIN b.table
  <2>. DEFINE T == b.table
  <2>1. DeltasOK(T[tag])
    BY <1>1, <1>2 DEF FifoOK
  <2>2. PICK ds \in WithDelta(T[tag].deltas, delta) : x = [b EXCEPT !.table[tag].deltas = ds]
    BY <1>2 DEF DeltaAdd
  <2>3. DOMAIN ds \subseteq Int /\ IsFiniteSet(DOMAIN ds)
    BY <2>1, WithDeltaKeeps DEF DeltasOK
  <2>. DEFINE e == [conf |-> T[tag].conf, deltas |-> ds]
              U == [T EXCEPT ![tag] = e]
  <2>4. [T[tag] EXCEPT !.deltas = ds] = e
    BY <2>1 DEF DeltasOK
  <2>5. x = [b EXCEPT !.table = [T EXCEPT ![tag] = [T[tag] EXCEPT !.deltas = ds]]]
    BY <2>2
  <2>. HIDE DEF T, e
  <2>6. x = [b EXCEPT !.table = U]
    BY <2>4, <2>5
  <2>7. DeltasOK(e)
    BY <2>3 DEF DeltasOK, e
  <2>8. DOMAIN U = DOMAIN T /\ \A t \in DOMAIN T : U[t] = IF t = tag THEN e ELSE T[t]
    OBVIOUS
  <2>. HIDE DEF U
  <2>9. FifoOK(b.fifo, U)
    BY <1>1, <2>7, <2>8 DEF FifoOK, T
  <2>10. x = [latency |-> b.latency, shadow |-> b.shadow, history |-> b.history,
              table |-> U, fifo |-> b.fifo, failed |-> b.failed]
    BY <2>6 DEF Tables
  <2>. QED BY <2>9, <2>10 DEF Tables, OnlyDeltas
<1>3. CASE tag \notin DOMAIN b.table
  <2>. DEFINE full == Len(b.fifo) > BertiTableSize
              out  == IF full THEN {Head(b.fifo)} ELSE {}
              rest == IF full THEN Tail(b.fifo) ELSE b.fifo
              kept == Without(b.table, out)
              e    == [conf |-> 1, deltas |-> With(<< >>, delta, NewDelta)]
              fifo == Append(rest, tag)
              U    == With(kept, tag, e)
              bad  == b.failed \/ Cardinality(DOMAIN kept) > BertiTableSize
  <2>1. x = [b EXCEPT !.fifo = fifo, !.failed = bad, !.table = U]
    BY <1>3 DEF DeltaAdd
  <2>2. /\ rest \in Seq(Int) /\ Len(rest) \in Nat /\ Len(rest) <= BertiTableSize
        /\ \A t \in DOMAIN kept : \E k \in 1 .. Len(rest) : rest[k] = t
        /\ \A t \in DOMAIN kept : DeltasOK(kept[t])
    <3>1. CASE full
      <4>1. b.fifo \in Seq(Int) /\ b.fifo # << >> /\ Len(b.fifo) >= 1
        BY <1>1, <3>1, EmptySeq DEF FifoOK
      <4>. DEFINE r == Tail(b.fifo)
      <4>2. /\ r \in Seq(Int) /\ Len(r) = Len(b.fifo) - 1
            /\ \A k \in 1 .. Len(b.fifo) - 1 : r[k] = b.fifo[k + 1]
            /\ Head(b.fifo) = b.fifo[1]
        BY <4>1
      <4>3. rest = r /\ DOMAIN kept = DOMAIN b.table \ {b.fifo[1]}
        BY <3>1, <4>2 DEF Without
      <4>4. \A t \in DOMAIN kept : kept[t] = b.table[t]
        BY DEF Without
      <4>. HIDE DEF r, rest, kept
      <4>5. ASSUME NEW t \in DOMAIN kept PROVE \E k \in 1 .. Len(r) : r[k] = t
        <5>1. PICK k \in 1 .. Len(b.fifo) : b.fifo[k] = t
          BY <1>1, <4>3 DEF FifoOK
        <5>2. k # 1
          BY <4>3, <5>1
        <5>3. k - 1 \in 1 .. Len(r) /\ k - 1 \in 1 .. Len(b.fifo) - 1 /\ k - 1 + 1 = k
          BY <1>1, <4>2, <5>2
        <5>. QED BY <4>2, <5>1, <5>3
      <4>6. Len(rest) \in Nat /\ Len(rest) <= BertiTableSize
        BY <1>1, <4>1, <4>2, <4>3 DEF FifoOK
      <4>. QED BY <1>1, <4>2, <4>3, <4>4, <4>5, <4>6 DEF FifoOK
    <3>2. CASE ~full
      <4>1. rest = b.fifo /\ Len(b.fifo) <= BertiTableSize
        BY <1>1, <3>2
      <4>2. DOMAIN kept = DOMAIN b.table /\ \A t \in DOMAIN kept : kept[t] = b.table[t]
        BY <3>2 DEF Without
      <4>. HIDE DEF rest, kept
      <4>. QED BY <1>1, <4>1, <4>2 DEF FifoOK
    <3>. QED BY <3>1, <3>2
  <2>. HIDE DEF full, out, rest, kept
  <2>3. ~bad
    <3>1. Cardinality(DOMAIN kept) \in Nat /\ Cardinality(DOMAIN kept) <= Len(rest)
      BY <2>2, TableSize
    <3>. QED BY <1>1, <2>2, <3>1 DEF Tables
  <2>4. DeltasOK(e)
    <3>1. DOMAIN e.deltas = {delta}
      BY DEF With
    <3>2. IsFiniteSet({delta})
      BY FS_Singleton
    <3>. QED BY <3>1, <3>2 DEF DeltasOK
  <2>. HIDE DEF e, bad
  <2>5. /\ fifo \in Seq(Int) /\ Len(fifo) = Len(rest) + 1
        /\ \A k \in 1 .. Len(rest) : fifo[k] = rest[k]
        /\ fifo[Len(rest) + 1] = tag
    BY <2>2, AppendProperties
  <2>6. DOMAIN U = DOMAIN kept \cup {tag}
        /\ \A t \in DOMAIN U : U[t] = IF t = tag THEN e ELSE kept[t]
    BY DEF With
  <2>. HIDE DEF U, fifo
  <2>7. FifoOK(fifo, U)
    <3>1. \A t \in DOMAIN U : DeltasOK(U[t])
      BY <2>2, <2>4, <2>6
    <3>2. ASSUME NEW t \in DOMAIN U PROVE \E k \in 1 .. Len(fifo) : fifo[k] = t
      <4>1. CASE t = tag
        BY <2>2, <2>5, <4>1
      <4>2. CASE t \in DOMAIN kept
        <5>1. PICK k \in 1 .. Len(rest) : rest[k] = t
          BY <2>2, <4>2
        <5>2. k \in 1 .. Len(fifo) /\ fifo[k] = t
          BY <2>2, <2>5, <5>1
        <5>. QED BY <5>2
      <4>. QED BY <2>6, <4>1, <4>2
    <3>. QED BY <1>1, <2>2, <2>5, <3>1, <3>2 DEF FifoOK
  <2>8. x = [latency |-> b.latency, shadow |-> b.shadow, history |-> b.history,
             table |-> U, fifo |-> fifo, failed |-> bad]
    BY <2>1 DEF Tables
  <2>. QED BY <2>3, <2>7, <2>8 DEF Tables, OnlyDeltas
<1>. QED BY <1>2, <1>3

LEMMA IncreaseKeeps ==
    ASSUME NEW b, Tables(b), NEW tag
    PROVE  Tables(IncreaseConfTag(b, tag)) /\ OnlyDeltas(IncreaseConfTag(b, tag), b)
<1>. DEFINE x == IncreaseConfTag(b, tag)
            T == b.table
<1>1. CASE tag \notin DOMAIN T
  BY <1>1 DEF IncreaseConfTag, OnlyDeltas
<1>2. CASE tag \in DOMAIN T
  <2>1. FifoOK(b.fifo, T) /\ DeltasOK(T[tag])
    BY <1>2 DEF Tables, FifoOK
  <2>2. \E e : DeltasOK(e) /\ x = [b EXCEPT !.table = [T EXCEPT ![tag] = e]]
    <3>1. CASE T[tag].conf + 1 # ConfidenceMax
      <4>. DEFINE e == [conf |-> T[tag].conf + 1, deltas |-> T[tag].deltas]
      <4>1. x = [b EXCEPT !.table = [T EXCEPT ![tag] = [T[tag] EXCEPT !.conf = @ + 1]]]
        BY <1>2, <3>1 DEF IncreaseConfTag
      <4>2. [T[tag] EXCEPT !.conf = @ + 1] = e
        BY <2>1 DEF DeltasOK
      <4>3. DeltasOK(e)
        BY <2>1 DEF DeltasOK
      <4>. HIDE DEF T, x, e
      <4>4. x = [b EXCEPT !.table = [T EXCEPT ![tag] = e]]
        BY <4>1, <4>2
      <4>. QED BY <4>3, <4>4
    <3>2. CASE T[tag].conf + 1 = ConfidenceMax
      <4>. DEFINE e == [conf   |-> 0,
                        deltas |-> [d \in DOMAIN T[tag].deltas |->
                                      [conf |-> 0, rpl |-> Level(T[tag].deltas[d].conf)]]]
      <4>1. x = [b EXCEPT !.table = [T EXCEPT ![tag] = e]]
        BY <1>2, <3>2 DEF IncreaseConfTag
      <4>2. DeltasOK(e)
        BY <2>1 DEF DeltasOK
      <4>. HIDE DEF e
      <4>. QED BY <4>1, <4>2
    <3>. QED BY <3>1, <3>2
  <2>3. PICK e : DeltasOK(e) /\ x = [b EXCEPT !.table = [T EXCEPT ![tag] = e]]
    BY <2>2
  <2>. DEFINE U == [T EXCEPT ![tag] = e]
  <2>4. DOMAIN U = DOMAIN T /\ \A t \in DOMAIN T : U[t] = IF t = tag THEN e ELSE T[t]
    OBVIOUS
  <2>5. x = [b EXCEPT !.table = U]
    BY <2>3
  <2>. HIDE DEF U, x
  <2>6. FifoOK(b.fifo, U)
    BY <2>1, <2>3, <2>4 DEF FifoOK
  <2>7. x = [latency |-> b.latency, shadow |-> b.shadow, history |-> b.history,
             table |-> U, fifo |-> b.fifo, failed |-> b.failed]
    BY <2>5 DEF Tables
  <2>. QED BY <2>6, <2>7 DEF Tables, OnlyDeltas, x
<1>. QED BY <1>1, <1>2

-----------------------------------------------------------------------------
(* What was in time                                                        *)

AmongStep(par, acc, e) == IF e \in par THEN Append(acc, e) ELSE acc
AmongInv(par, k, acc)  == acc \in Seq(par)
AmongLoop == INSTANCE FoldInduction WITH Op <- AmongStep, Inv <- AmongInv

LEMMA AmongIn ==
    ASSUME NEW E, NEW q \in Seq(E), NEW S
    PROVE  Among(q, S) \in Seq(S)
<1>1. Among(q, S) = AmongLoop!Fold(S, << >>, q)
  BY DEF Among, AmongLoop!Fold, AmongStep, FoldLeft, AmongLoop!FoldLeft,
         MapThenFoldSet, AmongLoop!MapThenFoldSet, Max, AmongLoop!Max
<1>2. AmongInv(S, 0, << >>)
  BY DEF AmongInv
<1>3. AmongLoop!Keeps(S, q)
  BY DEF AmongLoop!Keeps, AmongInv, AmongStep
<1>4. AmongInv(S, Len(q), AmongLoop!Fold(S, << >>, q))
  BY <1>2, <1>3, AmongLoop!FoldKeeps
<1>. QED BY <1>1, <1>4 DEF AmongInv

\* The accesses in the history that a prefetch could have followed in time.
InTime(b, tag, by) == {e \in Range(b.history[HistorySet(tag)].entry) : e.tag = tag /\ e.time <= by}

LEMMA OnTimeIs ==
    ASSUME NEW b, Tables(b), NEW tag \in Int, NEW line, NEW at, NEW lat
    PROVE  OnTime(b, tag, line, at, lat) \in Seq(InTime(b, tag, at - lat))
<1>. DEFINE h     == b.history[HistorySet(tag)]
            ring  == [k \in 1 .. HistoryWays |-> h.entry[((h.at - k) % HistoryWays) + 1]]
            match == {e \in Range(h.entry) : e.tag = tag /\ e.time <= at - lat}
            stop  == SelectInSeq(ring, LAMBDA e : e \in match /\ e.line = Kept(line))
            q     == IF stop = 0 THEN ring ELSE SubSeq(ring, 1, stop - 1)
<1>1. h \in HistoryRings /\ HistoryWays \in Nat \ {0}
  BY BertiSizes DEF Tables, HistorySet
<1>2. ring \in Seq(HistoryEntries) /\ Len(ring) = HistoryWays
  <2>1. ASSUME NEW k \in 1 .. HistoryWays
        PROVE  h.entry[((h.at - k) % HistoryWays) + 1] \in HistoryEntries
    <3>1. h.at - k \in Int
      BY <1>1 DEF HistoryRings
    <3>2. (h.at - k) % HistoryWays \in 0 .. HistoryWays - 1
      BY <1>1, <3>1
    <3>3. ((h.at - k) % HistoryWays) + 1 \in 1 .. HistoryWays
      BY <1>1, <3>2
    <3>. QED BY <1>1, <3>3 DEF HistoryRings
  <2>. HIDE DEF h
  <2>. QED BY <1>1, <2>1
<1>3. stop # 0 => stop \in 1 .. Len(ring)
  <2>. DEFINE I == {i \in 1 .. Len(ring) : ring[i] \in match /\ ring[i].line = Kept(line)}
  <2>1. stop = IF I # {} THEN Min(I) ELSE 0
    BY DEF SelectInSeq
  <2>2. I \subseteq 1 .. Len(ring) /\ I \subseteq Nat
    <3>. HIDE DEF h, ring, match
    <3>. QED BY <1>1, <1>2
  <2>. HIDE DEF I, ring, stop
  <2>3. I # {} => Min(I) \in I
    <3>1. I # {} => \E x \in I : \A y \in I : x <= y
      BY <2>2, Least
    <3>. QED BY <3>1 DEF Min
  <2>. QED BY <2>1, <2>2, <2>3
<1>4. OnTime(b, tag, line, at, lat) = IF at < lat THEN << >> ELSE Among(q, match)
  BY DEF OnTime
<1>5. match = InTime(b, tag, at - lat)
  BY DEF InTime
<1>. HIDE DEF ring, match, stop
<1>6. q \in Seq(HistoryEntries)
  BY <1>2, <1>3
<1>. HIDE DEF q
<1>7. Among(q, match) \in Seq(match)
  BY <1>6, AmongIn
<1>. DEFINE T == InTime(b, tag, at - lat)
<1>8. << >> \in Seq(T)
  OBVIOUS
<1>9. CASE at < lat
  <2>1. OnTime(b, tag, line, at, lat) = << >>
    BY <1>4, <1>9
  <2>. QED BY <1>8, <2>1
<1>10. CASE ~(at < lat)
  <2>1. OnTime(b, tag, line, at, lat) = Among(q, match)
    BY <1>4, <1>10
  <2>. QED BY <1>5, <1>7, <2>1
<1>. QED BY <1>9, <1>10

LEMMA KeptIn == ASSUME NEW line \in Int PROVE Kept(line) \in Nat
BY BertiSizes DEF Kept

\* Deltas of a line to be learned for a tag, one after the other.
LearnStep(par, S, d) == UNION {DeltaAdd(x, par.tag, d) : x \in S}
LearnInv(par, k, S)  == \A x \in S : Tables(x) /\ OnlyDeltas(x, par.b)
LearnLoop == INSTANCE FoldInduction WITH Op <- LearnStep, Inv <- LearnInv

LEMMA FindAndUpdateIs ==
    ASSUME NEW b, Tables(b), NEW tag \in Int, NEW line \in Int, NEW at, NEW lat,
           NEW u, u = FindAndUpdate(b, lat, tag, at, line)
    PROVE  /\ \A x \in u.outcomes : Tables(x) /\ OnlyDeltas(x, b)
           /\ \A d \in u.deltas : \E e \in InTime(b, tag, at - lat) :
                    d = Kept(line) - e.line /\ e \in HistoryEntries
<1>. DEFINE found == OnTime(b, tag, line, at, lat)
            far   == [k \in DOMAIN found |-> Kept(line) - found[k].line]
            near  == {d \in Range(far) : Near(d)}
            ds    == Among(far, near)
            start == IF found = << >> THEN b ELSE IncreaseConfTag(b, tag)
            T     == InTime(b, tag, at - lat)
            par   == [tag |-> tag, b |-> b]
            all   == FoldLeft(LAMBDA S, d : UNION {DeltaAdd(x, tag, d) : x \in S}, {start}, ds)
<1>1. u = [outcomes |-> all, deltas |-> Range(ds)]
  BY DEF FindAndUpdate
<1>2. T \subseteq HistoryEntries
  <2>1. b.history[HistorySet(tag)] \in HistoryRings
    BY DEF Tables, HistorySet
  <2>. QED BY <2>1 DEF InTime, HistoryRings, Range
<1>3. found \in Seq(T) /\ DOMAIN found = 1 .. Len(found) /\ Len(found) \in Nat
  BY OnTimeIs, LenProperties
<1>. HIDE DEF found, T
<1>4. \A k \in DOMAIN found :
        found[k] \in T /\ found[k].line \in Int /\ Kept(line) - found[k].line \in Int
  <2>1. Kept(line) \in Int
    BY KeptIn
  <2>. QED BY <1>2, <1>3, <2>1 DEF HistoryEntries
<1>5. far \in Seq(Int)
  BY <1>3, <1>4
<1>6. \A d \in near : d \in Int /\ \E e \in T : d = Kept(line) - e.line /\ e \in HistoryEntries
  BY <1>2, <1>4 DEF Range
<1>. HIDE DEF far, near
<1>7. ds \in Seq(near)
  BY <1>5, AmongIn
<1>. HIDE DEF ds
<1>8. \A d \in Range(ds) : d \in near
  BY <1>7 DEF Range
<1>9. all = LearnLoop!Fold(par, {start}, ds)
  BY DEF LearnLoop!Fold, LearnStep, FoldLeft, LearnLoop!FoldLeft,
         MapThenFoldSet, LearnLoop!MapThenFoldSet, Max, LearnLoop!Max
<1>10. par.tag = tag /\ par.b = b
  OBVIOUS
<1>. HIDE DEF par
<1>11. LearnInv(par, 0, {start})
  BY <1>10, IncreaseKeeps DEF LearnInv, OnlyDeltas
<1>12. LearnLoop!Keeps(par, ds)
  <2>. SUFFICES ASSUME NEW k \in 1 .. Len(ds), NEW S, LearnInv(par, k - 1, S)
                PROVE  LearnInv(par, k, LearnStep(par, S, ds[k]))
    BY DEF LearnLoop!Keeps
  <2>1. ds[k] \in Int
    BY <1>6, <1>7
  <2>2. ASSUME NEW x \in S, NEW y \in DeltaAdd(x, tag, ds[k])
        PROVE  Tables(y) /\ OnlyDeltas(y, b)
    <3>1. Tables(x) /\ OnlyDeltas(x, b)
      BY <1>10, <2>2 DEF LearnInv
    <3>2. Tables(y) /\ OnlyDeltas(y, x)
      BY <2>1, <2>2, <3>1, DeltaAddKeeps
    <3>. QED BY <3>1, <3>2 DEF OnlyDeltas
  <2>. QED BY <1>10, <2>2 DEF LearnInv, LearnStep
<1>13. LearnInv(par, Len(ds), all)
  BY <1>7, <1>9, <1>11, <1>12, LearnLoop!FoldKeeps
<1>. HIDE DEF all
<1>14. u.outcomes = all /\ u.deltas = Range(ds)
  BY <1>1
<1>15. \A x \in all : Tables(x) /\ OnlyDeltas(x, b)
  BY <1>10, <1>13 DEF LearnInv
<1>16. \A d \in Range(ds) : \E e \in T : d = Kept(line) - e.line /\ e \in HistoryEntries
  BY <1>6, <1>8
<1>. QED BY <1>14, <1>15, <1>16 DEF T

LEMMA QuotientOf ==
    ASSUME NEW x \in Nat, NEW c \in Nat \ {0}
    PROVE  \E q \in Nat : x = c * q + (x % c) /\ x % c \in 0 .. c - 1
<1>1. x \div c \in Nat /\ x % c \in 0 .. c - 1 /\ x = c * (x \div c) + (x % c)
  OBVIOUS
<1>. QED BY <1>1

\* A clock that goes around: what is not later, and looks earlier by d, is so.
LEMMA LooksEarlier ==
    ASSUME NEW c \in Nat \ {0}, NEW a \in Nat, NEW n \in Nat, NEW d \in Int, a <= n,
           a % c <= (n % c) - d
    PROVE  a <= n - d
<1>1. PICK p \in Nat : a = c * p + (a % c) /\ a % c \in 0 .. c - 1
  BY QuotientOf
<1>2. PICK q \in Nat : n = c * q + (n % c) /\ n % c \in 0 .. c - 1
  BY QuotientOf
<1>. DEFINE r == a % c
            s == n % c
<1>3. a = c * p + r /\ n = c * q + s /\ r \in 0 .. c - 1 /\ s \in 0 .. c - 1 /\ r <= s - d
  BY <1>1, <1>2
<1>. HIDE DEF r, s
<1>4. p <= q
  <2>. SUFFICES ASSUME p >= q + 1 PROVE FALSE
    OBVIOUS
  <2>1. c * p >= c * (q + 1) /\ c * (q + 1) = c * q + c
    OBVIOUS
  <2>. QED BY <1>3, <2>1
<1>5. c * p <= c * q /\ c * p \in Int /\ c * q \in Int
  BY <1>4
<1>. QED BY <1>3, <1>5

\* What began less than a round ago, and looks earlier, began as long ago as it looks.
LEMMA LooksAsLong ==
    ASSUME NEW c \in Nat \ {0}, NEW s \in Nat, NEW n \in Nat, s <= n, n - s < c, s % c < n % c
    PROVE  (n % c) - (s % c) = n - s
<1>1. PICK p \in Nat : s = c * p + (s % c) /\ s % c \in 0 .. c - 1
  BY QuotientOf
<1>2. PICK q \in Nat : n = c * q + (n % c) /\ n % c \in 0 .. c - 1
  BY QuotientOf
<1>. DEFINE r == s % c
            t == n % c
<1>3. s = c * p + r /\ n = c * q + t /\ r \in 0 .. c - 1 /\ t \in 0 .. c - 1 /\ r < t
  BY <1>1, <1>2
<1>. HIDE DEF r, t
<1>4. ~(p >= q + 1)
  <2>. SUFFICES ASSUME p >= q + 1 PROVE FALSE
    OBVIOUS
  <2>1. c * p >= c * (q + 1) /\ c * (q + 1) = c * q + c
    OBVIOUS
  <2>. QED BY <1>3, <2>1
<1>5. ~(q >= p + 1)
  <2>. SUFFICES ASSUME q >= p + 1 PROVE FALSE
    OBVIOUS
  <2>1. c * q >= c * (p + 1) /\ c * (p + 1) = c * p + c
    OBVIOUS
  <2>. QED BY <1>3, <2>1
<1>6. p = q
  BY <1>4, <1>5
<1>7. t - r = n - s
  BY <1>3, <1>6
<1>. QED BY <1>7 DEF r, t

-----------------------------------------------------------------------------
(* Room for what is timed                                                  *)

FillsOf(q) == {q[k].line : k \in {n \in DOMAIN q : q[n].fill}}

QueueOK(q) == q \in Seq([line : Int, fill : BOOLEAN]) /\ Len(q) <= PrefetchSlots

\* The lines timed are among S, and each began less than a round of the clock ago.
TimedIn(b, S, at) ==
    \A l \in DOMAIN b.latency :
        /\ l \in S
        /\ b.latency[l].time \in 1 .. at /\ at - b.latency[l].time < TimeMod

\* No line is both timed and cached.
Apart(b) == \A l \in DOMAIN b.latency : \A f \in Frames : b.shadow[f].line # l

LEMMA IntervalSize ==
    ASSUME NEW n \in Nat
    PROVE  IsFiniteSet(1 .. n) /\ Cardinality(1 .. n) = n
BY FS_Interval

LEMMA Room ==
    ASSUME NEW A, IsFiniteSet(A), NEW q, QueueOK(q), NEW D \in SUBSET (A \cup FillsOf(q))
    PROVE  Cardinality(D) \in Nat /\ Cardinality(D) <= Cardinality(A) + Len(q)
<1>. DEFINE I == 1 .. Len(q)
            T == {q[k].line : k \in I}
<1>1. Len(q) \in Nat /\ DOMAIN q = I
  BY LenProperties DEF QueueOK
<1>2. IsFiniteSet(I) /\ Cardinality(I) = Len(q)
  BY <1>1, IntervalSize
<1>3. IsFiniteSet(T) /\ Cardinality(T) <= Len(q)
  <2>1. \E f : T = {f[k] : k \in I}
    <3>. DEFINE f == [k \in I |-> q[k].line]
    <3>1. T = {f[k] : k \in I}
      OBVIOUS
    <3>. HIDE DEF f
    <3>. QED BY ONLY <3>1
  <2>2. PICK f : T = {f[k] : k \in I}
    BY <2>1
  <2>. HIDE DEF T, I
  <2>. QED BY <1>1, <1>2, <2>2, ImageSize
<1>4. D \subseteq A \cup T
  BY <1>1 DEF FillsOf
<1>. HIDE DEF T
<1>5. IsFiniteSet(A \cup T)
      /\ Cardinality(A \cup T) = Cardinality(A) + Cardinality(T) - Cardinality(A \cap T)
  BY <1>3, FS_Union
<1>6. IsFiniteSet(D) /\ Cardinality(D) <= Cardinality(A \cup T)
  BY <1>4, <1>5, FS_Subset
<1>7. IsFiniteSet(A \cap T)
  BY FS_Intersection
<1>8. /\ Cardinality(D) \in Nat /\ Cardinality(A) \in Nat /\ Cardinality(T) \in Nat
      /\ Cardinality(A \cap T) \in Nat
  BY <1>3, <1>6, <1>7, FS_CardinalityType
<1>. QED BY <1>1, <1>3, <1>5, <1>6, <1>8

\* There is room for the miss of a line, unless it is timed already.
MayBegin(b, S, at, line, tag) ==
    /\ Tables(b) /\ TimedIn(b, S, at)
    /\ at \in Nat \ {0} /\ line \in Int /\ tag \in Int \ {0}
    /\ line \notin DOMAIN b.latency => /\ Cardinality(DOMAIN b.latency) \in Nat
                                      /\ Cardinality(DOMAIN b.latency) < LatencySlots

\* x is b with the miss of the line.
Began(x, b, S, at, line) ==
    /\ Tables(x) /\ TimedIn(x, S \cup {line}, at)
    /\ DOMAIN x.latency = DOMAIN b.latency \cup {line}
    /\ x.shadow = b.shadow /\ x.history = b.history

LEMMA LatencyAddIs ==
    ASSUME NEW b, NEW S, NEW at, NEW line, NEW tag, MayBegin(b, S, at, line, tag),
           NEW pf \in BOOLEAN, NEW x, x = LatencyAdd(b, line, tag, pf, at)
    PROVE  Began(x, b, S, at, line)
<1>. DEFINE T == b.latency
<1>. USE DEF MayBegin
<1>1. T \in [DOMAIN T -> LatencyEntries]
  BY DEF Tables
<1>2. \E U : /\ x = [b EXCEPT !.latency = U]
             /\ U \in [DOMAIN T \cup {line} -> LatencyEntries]
             /\ \A l \in DOMAIN U : U[l].time = IF l \in DOMAIN T THEN T[l].time ELSE at
  <2>1. CASE line \in DOMAIN T
    <3>. DEFINE e == [T[line] EXCEPT !.pf = pf, !.tag = tag]
                U == [T EXCEPT ![line] = e]
    <3>1. x = [b EXCEPT !.latency[line].pf = pf, !.latency[line].tag = tag]
      BY <2>1 DEF LatencyAdd
    <3>2. x = [b EXCEPT !.latency = [T EXCEPT ![line].pf = pf, ![line].tag = tag]]
      BY <3>1 DEF Tables
    <3>3. [T EXCEPT ![line].pf = pf, ![line].tag = tag] = U
      BY <1>1, <2>1
    <3>4. T[line] \in LatencyEntries
      BY <1>1, <2>1
    <3>5. e \in LatencyEntries /\ e.time = T[line].time
      <4>. HIDE DEF T
      <4>. QED BY <3>4 DEF LatencyEntries
    <3>. HIDE DEF e, T
    <3>6. U \in [DOMAIN T \cup {line} -> LatencyEntries]
      BY <1>1, <2>1, <3>5
    <3>7. \A l \in DOMAIN U : U[l].time = T[l].time
      <4>1. \A l \in DOMAIN T : U[l] = IF l = line THEN e ELSE T[l]
        OBVIOUS
      <4>2. DOMAIN U = DOMAIN T
        OBVIOUS
      <4>. HIDE DEF U
      <4>. QED BY <3>5, <4>1, <4>2
    <3>8. DOMAIN U = DOMAIN T
      OBVIOUS
    <3>9. x = [b EXCEPT !.latency = U]
      BY <3>2, <3>3
    <3>10. \A l \in DOMAIN U : U[l].time = IF l \in DOMAIN T THEN T[l].time ELSE at
      BY <3>7, <3>8
    <3>. HIDE DEF U
    <3>. QED BY <3>6, <3>9, <3>10
  <2>2. CASE line \notin DOMAIN T
    <3>. DEFINE e == [tag |-> tag, time |-> at, pf |-> pf]
                U == [l \in DOMAIN T \cup {line} |-> IF l = line THEN e ELSE T[l]]
    <3>1. x = [b EXCEPT !.latency = U]
      BY <2>2, BertiSizes DEF LatencyAdd, LatencySlots
    <3>2. e \in LatencyEntries
      BY DEF LatencyEntries
    <3>3. \A l \in DOMAIN U : U[l].time = IF l \in DOMAIN T THEN T[l].time ELSE at
      BY <2>2
    <3>4. U \in [DOMAIN T \cup {line} -> LatencyEntries]
      BY <1>1, <3>2
    <3>. HIDE DEF U
    <3>. QED BY <3>1, <3>3, <3>4
  <2>. QED BY <2>1, <2>2
<1>3. PICK U : /\ x = [b EXCEPT !.latency = U]
               /\ U \in [DOMAIN T \cup {line} -> LatencyEntries]
               /\ \A l \in DOMAIN U : U[l].time = IF l \in DOMAIN T THEN T[l].time ELSE at
  BY <1>2
<1>4. x = [latency |-> U, shadow |-> b.shadow, history |-> b.history,
           table |-> b.table, fifo |-> b.fifo, failed |-> b.failed]
  BY <1>3 DEF Tables
<1>5. DOMAIN U = DOMAIN T \cup {line} /\ U \in [DOMAIN U -> LatencyEntries]
  BY <1>3
<1>6. Tables(x)
  BY <1>4, <1>5 DEF Tables
<1>7. \A l \in DOMAIN U : /\ l \in S \cup {line}
                          /\ U[l].time \in 1 .. at /\ at - U[l].time < TimeMod
  <2>1. TimeMod \in Nat \ {0}
    BY BertiSizes
  <2>. QED BY <1>3, <1>5, <2>1 DEF TimedIn
<1>. QED BY <1>4, <1>5, <1>6, <1>7 DEF TimedIn, Began

LEMMA FillsAppended ==
    ASSUME NEW q, QueueOK(q), NEW e \in [line : Int, fill : BOOLEAN], Len(q) < PrefetchSlots,
           NEW p, p = Append(q, e)
    PROVE  /\ QueueOK(p)
           /\ FillsOf(q) \subseteq FillsOf(p)
           /\ e.fill => e.line \in FillsOf(p)
<1>1. /\ p \in Seq([line : Int, fill : BOOLEAN]) /\ Len(p) = Len(q) + 1 /\ Len(q) \in Nat
      /\ DOMAIN q = 1 .. Len(q) /\ DOMAIN p = 1 .. Len(p)
      /\ \A k \in 1 .. Len(q) : p[k] = q[k]
      /\ p[Len(q) + 1] = e
  BY AppendProperties, LenProperties DEF QueueOK
<1>2. QueueOK(p)
  BY <1>1, BertiSizes DEF QueueOK
<1>3. \A k \in DOMAIN q : k \in DOMAIN p /\ p[k] = q[k]
  BY <1>1
<1>4. Len(q) + 1 \in DOMAIN p
  BY <1>1
<1>5. FillsOf(q) \subseteq FillsOf(p)
  BY <1>3 DEF FillsOf
<1>6. e.fill => e.line \in FillsOf(p)
  BY <1>1, <1>4 DEF FillsOf
<1>. QED BY <1>2, <1>5, <1>6

\* The loop of prefetcher_cache_operate.  par.here holds the lines of the misses in
\* flight and of the requests that wait, par.b the tables before the loop.
PrefetchStep(par, s, d) == PrefetchDelta(s, par.tag, par.line, d, par.now, par.load)
PrefetchInv(par, k, s) ==
    /\ s = [b |-> s.b, pq |-> s.pq]
    /\ Tables(s.b) /\ s.b.shadow = par.b.shadow /\ s.b.history = par.b.history
    /\ QueueOK(s.pq)
    /\ TimedIn(s.b, par.here \cup FillsOf(s.pq), par.now) /\ Apart(s.b)
PrefetchLoop == INSTANCE FoldInduction WITH Op <- PrefetchStep, Inv <- PrefetchInv

PrefetchFacts(par) ==
    /\ par.tag \in Int \ {0} /\ par.line \in Int /\ par.now \in Nat \ {0}
    /\ IsFiniteSet(par.here) /\ Cardinality(par.here) <= Misses + Waiting

LEMMA PrefetchKeeps ==
    ASSUME NEW par, PrefetchFacts(par), NEW k, NEW j, NEW s, PrefetchInv(par, k, s),
           NEW d \in Int
    PROVE  PrefetchInv(par, j, PrefetchStep(par, s, d))
<1>. DEFINE to   == par.line + d
            fill == FillsThisLevel(s.b, par.tag, d, par.load)
            add  == fill /\ InShadow(s.b, to) = {}
            b    == IF add THEN LatencyAdd(s.b, to, par.tag, TRUE, par.now) ELSE s.b
            e    == [line |-> to, fill |-> fill]
            q    == Append(s.pq, e)
<1>1. PrefetchStep(par, s, d) =
        IF LatencyGet(s.b, to) # 0 \/ to = 0 \/ Len(s.pq) >= PrefetchSlots THEN s
        ELSE [b |-> b, pq |-> q]
  BY DEF PrefetchStep, PrefetchDelta
<1>2. CASE LatencyGet(s.b, to) # 0 \/ to = 0 \/ Len(s.pq) >= PrefetchSlots
  BY <1>1, <1>2 DEF PrefetchInv
<1>3. CASE ~(LatencyGet(s.b, to) # 0 \/ to = 0 \/ Len(s.pq) >= PrefetchSlots)
  <2>1. to \in Int /\ to \notin DOMAIN s.b.latency
    <3>1. s.b.latency \in [DOMAIN s.b.latency -> LatencyEntries]
      BY DEF PrefetchInv, Tables
    <3>2. to \in DOMAIN s.b.latency => s.b.latency[to].time # 0
      BY <3>1 DEF LatencyEntries
    <3>. QED BY <1>3, <3>2 DEF LatencyGet, PrefetchFacts
  <2>2. Len(s.pq) \in Nat /\ Len(s.pq) < PrefetchSlots
    BY <1>3, BertiSizes, LenProperties DEF PrefetchInv, QueueOK
  <2>3. fill \in BOOLEAN
    BY DEF FillsThisLevel
  <2>4. e \in [line : Int, fill : BOOLEAN]
    BY <2>1, <2>3
  <2>5. QueueOK(s.pq) /\ TimedIn(s.b, par.here \cup FillsOf(s.pq), par.now)
    BY DEF PrefetchInv
  <2>6. e.line = to /\ e.fill = fill
    OBVIOUS
  <2>. HIDE DEF fill, e
  <2>7. /\ QueueOK(q) /\ FillsOf(s.pq) \subseteq FillsOf(q)
        /\ e.fill => e.line \in FillsOf(q)
    BY <2>2, <2>4, <2>5, FillsAppended
  <2>. HIDE DEF q
  <2>8. /\ Tables(b) /\ b.shadow = s.b.shadow /\ b.history = s.b.history
        /\ TimedIn(b, par.here \cup FillsOf(q), par.now) /\ Apart(b)
    <3>1. CASE add
      <4>1. Cardinality(DOMAIN s.b.latency) \in Nat
            /\ Cardinality(DOMAIN s.b.latency) <= Cardinality(par.here) + Len(s.pq)
        <5>. DEFINE D == DOMAIN s.b.latency
                    A == par.here
                    Q == s.pq
        <5>1. D \subseteq A \cup FillsOf(Q)
          BY <2>5 DEF TimedIn
        <5>2. IsFiniteSet(A)
          BY DEF PrefetchFacts
        <5>. HIDE DEF D, A, Q
        <5>3. Cardinality(D) \in Nat /\ Cardinality(D) <= Cardinality(A) + Len(Q)
          BY <2>5, <5>1, <5>2, Room DEF Q
        <5>. QED BY <5>3 DEF D, A, Q
      <4>2. Cardinality(DOMAIN s.b.latency) < LatencySlots
        <5>1. Cardinality(par.here) \in Nat
          BY FS_CardinalityType DEF PrefetchFacts
        <5>. DEFINE n == Cardinality(par.here)
                    k0 == Len(s.pq)
                    c == Cardinality(DOMAIN s.b.latency)
        <5>2. /\ c \in Nat /\ c <= n + k0 /\ n \in Nat /\ k0 \in Nat /\ k0 < PrefetchSlots
              /\ n <= Misses + Waiting
          BY <2>2, <4>1, <5>1 DEF PrefetchFacts
        <5>3. {Misses, Waiting, QueueSlots, PrefetchSlots} \subseteq Nat /\ Waiting <= QueueSlots
          BY BertiSizes
        <5>. HIDE DEF n, k0, c
        <5>4. c < Misses + QueueSlots + PrefetchSlots
          BY ONLY <5>2, <5>3
        <5>. QED BY <5>4 DEF c, LatencySlots
      <4>3. /\ par.tag \in Int \ {0} /\ par.now \in Nat \ {0} /\ TRUE \in BOOLEAN /\ Tables(s.b)
            /\ b = LatencyAdd(s.b, to, par.tag, TRUE, par.now)
        BY <3>1 DEF PrefetchFacts, PrefetchInv
      <4>. HIDE DEF b, to
      <4>4. /\ Tables(b) /\ TimedIn(b, (par.here \cup FillsOf(s.pq)) \cup {to}, par.now)
            /\ DOMAIN b.latency = DOMAIN s.b.latency \cup {to}
            /\ b.shadow = s.b.shadow /\ b.history = s.b.history
        <5>. DEFINE old == s.b
                    S   == par.here \cup FillsOf(s.pq)
                    tag == par.tag
                    at  == par.now
        <5>1. /\ Tables(old) /\ at \in Nat \ {0} /\ TimedIn(old, S, at) /\ tag \in Int \ {0}
              /\ Cardinality(DOMAIN old.latency) \in Nat
              /\ Cardinality(DOMAIN old.latency) < LatencySlots
              /\ b = LatencyAdd(old, to, tag, TRUE, at)
          BY <2>5, <4>1, <4>2, <4>3
        <5>. HIDE DEF old, S, tag, at
        <5>2. /\ Tables(b) /\ TimedIn(b, S \cup {to}, at)
              /\ DOMAIN b.latency = DOMAIN old.latency \cup {to}
              /\ b.shadow = old.shadow /\ b.history = old.history
          <6>1. MayBegin(old, S, at, to, tag)
            BY <2>1, <5>1 DEF MayBegin
          <6>2. PICK pf \in BOOLEAN : b = LatencyAdd(old, to, tag, pf, at)
            BY <5>1
          <6>3. Began(b, old, S, at, to)
            BY ONLY <6>1, <6>2, LatencyAddIs
          <6>. QED BY <6>3 DEF Began
        <5>. QED BY <5>2 DEF old, S, at
      <4>5. to \in FillsOf(q)
        BY <2>6, <2>7, <3>1
      <4>6. TimedIn(b, par.here \cup FillsOf(q), par.now)
        BY <2>7, <4>4, <4>5 DEF TimedIn
      <4>7. Apart(b)
        BY <3>1, <4>4 DEF PrefetchInv, Apart, InShadow
      <4>. QED BY <4>4, <4>6, <4>7
    <3>2. CASE ~add
      <4>1. b = s.b
        BY <3>2
      <4>. QED BY <2>7, <4>1 DEF PrefetchInv, TimedIn
    <3>. QED BY <3>1, <3>2
  <2>9. PrefetchStep(par, s, d) = [b |-> b, pq |-> q]
    BY <1>1, <1>3
  <2>. HIDE DEF b
  <2>. QED BY <2>7, <2>8, <2>9 DEF PrefetchInv
<1>. QED BY <1>2, <1>3

LEMMA LaunchesIs ==
    ASSUME NEW b, Tables(b), NEW tag, NEW ds \in Launches(b, tag)
    PROVE  ds \in Seq(Int)
<1>. DEFINE deltas == IF tag \in DOMAIN b.table THEN b.table[tag].deltas ELSE << >>
            D == {d \in DOMAIN deltas : deltas[d].rpl # "R"}
<1>1. DOMAIN deltas \subseteq Int /\ IsFiniteSet(DOMAIN deltas)
  <2>1. CASE tag \in DOMAIN b.table
    BY <2>1 DEF Tables, FifoOK, DeltasOK
  <2>2. CASE tag \notin DOMAIN b.table
    <3>1. DOMAIN deltas = {}
      BY <2>2
    <3>. HIDE DEF deltas
    <3>. QED BY <3>1, FS_EmptySet
  <2>. QED BY <2>1, <2>2
<1>2. ds \in [1 .. Cardinality(D) -> D]
  BY DEF Launches
<1>3. D \subseteq Int /\ IsFiniteSet(D)
  <2>. DEFINE E == DOMAIN deltas
  <2>1. D \subseteq E /\ IsFiniteSet(E) /\ E \subseteq Int
    BY <1>1
  <2>. HIDE DEF D, E
  <2>. QED BY <2>1, FS_Subset
<1>. HIDE DEF D
<1>4. Cardinality(D) \in Nat
  BY <1>3, FS_CardinalityType
<1>. DEFINE n == Cardinality(D)
<1>5. ds \in [1 .. n -> Int] /\ n \in Nat
  BY <1>2, <1>3, <1>4
<1>. HIDE DEF n
<1>. QED BY <1>5

MayPrefetch(b, here, tag, line) ==
    /\ Tables(b) /\ QueueOK(pq) /\ TimedIn(b, here \cup FillsOf(pq), now) /\ Apart(b)
    /\ tag \in Int \ {0} /\ line \in Int /\ now \in Nat \ {0}
    /\ IsFiniteSet(here) /\ Cardinality(here) <= Misses + Waiting

\* p is what b and the queue are with some prefetches more.
Fetched(p, b, here) ==
    /\ Tables(p.b) /\ p.b.shadow = b.shadow /\ p.b.history = b.history
    /\ QueueOK(p.pq) /\ TimedIn(p.b, here \cup FillsOf(p.pq), now) /\ Apart(p.b)

LEMMA PrefetchedIs ==
    ASSUME NEW b, NEW here, NEW tag, NEW line, MayPrefetch(b, here, tag, line),
           NEW ds \in Seq(Int), NEW p, p = Prefetched(b, tag, line, ds)
    PROVE  Fetched(p, b, here)
<1>. DEFINE par == [tag |-> tag, line |-> line, now |-> now, load |-> Cardinality(DOMAIN mshr),
                    b |-> b, here |-> here]
            s == [b |-> b, pq |-> pq]
<1>1. p = PrefetchLoop!Fold(par, s, ds)
  BY DEF Prefetched, PrefetchLoop!Fold, PrefetchStep, FoldLeft, PrefetchLoop!FoldLeft,
         MapThenFoldSet, PrefetchLoop!MapThenFoldSet, Max, PrefetchLoop!Max
<1>2. /\ par.tag = tag /\ par.line = line /\ par.now = now /\ par.b = b /\ par.here = here
      /\ s.b = b /\ s.pq = pq /\ s = [b |-> s.b, pq |-> s.pq]
  OBVIOUS
<1>. HIDE DEF par, s
<1>3. PrefetchFacts(par)
  BY <1>2 DEF PrefetchFacts, MayPrefetch
<1>4. PrefetchInv(par, 0, s)
  BY <1>2 DEF PrefetchInv, MayPrefetch
<1>5. PrefetchLoop!Keeps(par, ds)
  <2>. SUFFICES ASSUME NEW k \in 1 .. Len(ds), NEW acc, PrefetchInv(par, k - 1, acc)
                PROVE  PrefetchInv(par, k, PrefetchStep(par, acc, ds[k]))
    BY DEF PrefetchLoop!Keeps
  <2>1. ds[k] \in Int
    OBVIOUS
  <2>. QED BY <1>3, <2>1, PrefetchKeeps
<1>6. PrefetchInv(par, Len(ds), PrefetchLoop!Fold(par, s, ds))
  BY <1>4, <1>5, PrefetchLoop!FoldKeeps
<1>. QED BY <1>1, <1>2, <1>6 DEF PrefetchInv, Fetched

Accesses == [tag : Int, line : Int, time : Nat]

\* An entry of the history recalls an access of S.
Recalled(e, S) ==
    e.tag # 0 =>
        \E a \in S : a.tag = e.tag /\ Kept(a.line) = e.line /\ a.time % TimeMod = e.time

HistorySeen(history, S) ==
    \A s \in {0, 1} : \A k \in 1 .. HistoryWays : Recalled(history[s].entry[k], S)

Shadows(b, lines) == \A f \in Frames : b.shadow[f].line = lines[f]

WithAccess(S, tag, line) == S \cup {[tag |-> tag, line |-> line, time |-> now]}

\* x is b with an access in its history, all of which is in S.
Remembers(x, b, S) ==
    /\ Tables(x) /\ x.latency = b.latency /\ x.shadow = b.shadow
    /\ HistorySeen(x.history, S)

LEMMA HistoryAddIs ==
    ASSUME NEW b, Tables(b), NEW tag \in Int, NEW line \in Int, now \in Nat,
           NEW S, HistorySeen(b.history, S), NEW x \in HistoryAdd(b, tag, line)
    PROVE  Remembers(x, b, WithAccess(S, tag, line))
<1>. DEFINE R == WithAccess(S, tag, line)
<1>. USE DEF Remembers
<1>1. \A e : Recalled(e, S) => Recalled(e, R)
  BY DEF Recalled, WithAccess
<1>. HIDE DEF R
<1>2. HistorySeen(b.history, R)
  BY <1>1 DEF HistorySeen
<1>. DEFINE s == HistorySet(tag)
            H == b.history
            h == H[s]
            e == [tag |-> tag, line |-> Kept(line), time |-> now % TimeMod]
            E == [h.entry EXCEPT ![h.at] = e]
            g == [at |-> IF h.at = HistoryWays THEN 1 ELSE h.at + 1, entry |-> E]
            G == [H EXCEPT ![s] = g]
<1>3. x = b \/ x = [b EXCEPT !.history = G]
  BY DEF HistoryAdd
<1>4. CASE x = b
  BY <1>2, <1>4 DEF R
<1>5. CASE x = [b EXCEPT !.history = G]
  <2>1. s \in {0, 1} /\ H \in [{0, 1} -> HistoryRings] /\ HistoryWays \in Nat \ {0}
    BY BertiSizes DEF Tables, HistorySet
  <2>2. h \in HistoryRings
    BY <2>1
  <2>3. h.at \in 1 .. HistoryWays /\ h.entry \in [1 .. HistoryWays -> HistoryEntries]
    <3>. HIDE DEF h
    <3>. QED BY <2>2 DEF HistoryRings
  <2>4. e \in HistoryEntries
    <3>1. now % TimeMod \in Nat
      BY BertiSizes
    <3>. QED BY <3>1, KeptIn DEF HistoryEntries
  <2>5. Recalled(e, R)
    <3>. DEFINE a == [tag |-> tag, line |-> line, time |-> now]
    <3>1. a \in R
      BY DEF R, WithAccess
    <3>2. a.tag = e.tag /\ Kept(a.line) = e.line /\ a.time % TimeMod = e.time
      OBVIOUS
    <3>. HIDE DEF a, e
    <3>. QED BY <3>1, <3>2 DEF Recalled
  <2>. HIDE DEF e
  <2>6. E \in [1 .. HistoryWays -> HistoryEntries]
    <3>. HIDE DEF h
    <3>. QED BY <2>3, <2>4
  <2>7. \A k \in 1 .. HistoryWays : Recalled(E[k], R)
    <3>1. \A k \in 1 .. HistoryWays : E[k] = IF k = h.at THEN e ELSE h.entry[k]
      BY <2>3
    <3>2. \A k \in 1 .. HistoryWays : Recalled(h.entry[k], R)
      BY <1>2, <2>1 DEF HistorySeen
    <3>. HIDE DEF E, h
    <3>. QED BY <2>5, <3>1, <3>2
  <2>. HIDE DEF E
  <2>8. g \in HistoryRings /\ g.entry = E
    <3>. HIDE DEF h
    <3>. QED BY <2>1, <2>3, <2>6 DEF HistoryRings
  <2>. HIDE DEF g, s
  <2>9. G \in [{0, 1} -> HistoryRings] /\ \A t \in {0, 1} : G[t] = IF t = s THEN g ELSE H[t]
    <3>. HIDE DEF H
    <3>. QED BY <2>1, <2>8
  <2>. HIDE DEF G
  <2>10. HistorySeen(G, R)
    BY <1>2, <2>7, <2>8, <2>9 DEF HistorySeen
  <2>11. x = [latency |-> b.latency, shadow |-> b.shadow, history |-> G,
              table |-> b.table, fifo |-> b.fifo, failed |-> b.failed]
    BY <1>5 DEF Tables
  <2>. QED BY <2>9, <2>10, <2>11 DEF Tables, R
<1>. QED BY <1>3, <1>4, <1>5

WasAt(S, tag, line, by) ==
    \E a \in S : a.tag = tag /\ Kept(a.line) = line /\ a.time % TimeMod <= by

\* What the history holds of a tag was seen, at a time that looks like the entry's.
LEMMA InTimeSeen ==
    ASSUME NEW b, NEW S, Tables(b), HistorySeen(b.history, S), NEW tag \in Int \ {0}, NEW by,
           NEW e \in InTime(b, tag, by)
    PROVE  WasAt(S, tag, e.line, by)
<1>. DEFINE s == HistorySet(tag)
<1>1. s \in {0, 1} /\ b.history[s] \in HistoryRings
  BY DEF Tables, HistorySet
<1>2. e \in Range(b.history[s].entry) /\ e.tag = tag /\ e.time <= by
  BY DEF InTime
<1>. HIDE DEF s
<1>3. DOMAIN b.history[s].entry = 1 .. HistoryWays
  BY <1>1 DEF HistoryRings
<1>4. PICK k \in 1 .. HistoryWays : e = b.history[s].entry[k]
  BY <1>2, <1>3 DEF Range
<1>5. Recalled(e, S)
  BY <1>1, <1>4 DEF HistorySeen
<1>. QED BY <1>2, <1>5 DEF Recalled, WasAt

\* Each of the deltas leads back to an access that came early enough.
Timely(l, S) ==
    \A d \in l.deltas :
        \E a \in S : a.tag = l.tag /\ a.time <= l.by /\ Kept(a.line) = Kept(l.line) - d

SeenOK(S, at) == S \subseteq Accesses /\ \A a \in S : a.time <= at

\* What is learned at a moment that looks like at, and would have taken lat, came in time,
\* if the moment is as long before now as it looks.
LEMMA LearnedInTime ==
    ASSUME NEW b, Tables(b), NEW tag \in Int \ {0}, NEW line \in Int,
           NEW at \in Int, NEW lat \in Int,
           NEW u, u = FindAndUpdate(b, lat, tag, at, line),
           now \in Nat, NEW early \in Int, at - lat = (now % TimeMod) - early,
           HistorySeen(b.history, seen), SeenOK(seen, now),
           NEW l, l.deltas = u.deltas, l.tag = tag, l.line = line, l.by = now - early
    PROVE  Timely(l, seen)
<1>. SUFFICES ASSUME NEW d \in l.deltas
              PROVE  \E a \in seen :
                        a.tag = l.tag /\ a.time <= l.by /\ Kept(a.line) = Kept(l.line) - d
  BY DEF Timely
<1>. DEFINE by == at - lat
<1>1. \A z \in u.deltas : \E e \in InTime(b, tag, at - lat) :
                    z = Kept(line) - e.line /\ e \in HistoryEntries
  <2>1. tag \in Int
    OBVIOUS
  <2>. QED BY ONLY Tables(b), <2>1, line \in Int, u = FindAndUpdate(b, lat, tag, at, line),
              FindAndUpdateIs
<1>2. PICK e \in InTime(b, tag, by) : d = Kept(line) - e.line /\ e \in HistoryEntries
  BY <1>1
<1>3. by = (now % TimeMod) - early
  OBVIOUS
<1>. HIDE DEF by
<1>4. PICK a \in seen : a.tag = tag /\ Kept(a.line) = e.line /\ a.time % TimeMod <= by
  <2>1. WasAt(seen, tag, e.line, by)
    BY <1>2, InTimeSeen
  <2>. QED BY <2>1 DEF WasAt
<1>5. a.time \in Nat /\ a.time <= now /\ TimeMod \in Nat \ {0}
  BY BertiSizes DEF SeenOK, Accesses
<1>6. a.time <= now - early
  BY <1>3, <1>4, <1>5, LooksEarlier
<1>7. Kept(a.line) = Kept(line) - d
  BY <1>2, <1>4, KeptIn DEF HistoryEntries
<1>. QED BY <1>4, <1>6, <1>7

\* What holds of the tables: S are the lines that may be timed, R the accesses.
BertiSound(b, q, S, R) ==
    /\ Tables(b) /\ QueueOK(q)
    /\ TimedIn(b, S \cup FillsOf(q), now) /\ Apart(b)
    /\ Shadows(b, blocks) /\ HistorySeen(b.history, R)

ClockAndLines ==
    /\ now \in Nat \ {0}
    /\ blocks \in [Frames -> Int]
    /\ SeenOK(seen, now)

\* The lines of the misses in flight and of the requests that wait but for one of line.
MayCheck(base, tag, line) ==
    /\ tag \in Int \ {0} /\ line \in Int
    /\ IsFiniteSet(base) /\ Cardinality(base) < Misses + Waiting
    /\ BertiSound(berti, pq, base \cup {line}, seen)

LEMMA NothingLearned ==
    ASSUME NEW l, l = NoLesson, NEW S
    PROVE  Timely(l, S)
<1>1. l.deltas = {}
  BY DEF NoLesson
<1>. QED BY <1>1 DEF Timely

LEMMA ShadowUsed ==
    ASSUME NEW c \in ShadowEntries, NEW p
    PROVE  [c EXCEPT !.pf = p] = [line |-> c.line, pf |-> p, lat |-> c.lat]
BY DEF ShadowEntries

LEMMA MissLearned ==
    ASSUME ClockAndLines, NEW base, NEW tag, NEW line, MayCheck(base, tag, line),
           ~Cached(line), NEW hit \in BOOLEAN, ~hit,
           NEW l, l = Learned(berti, tag, line, hit), NEW b \in l.outcomes
    PROVE  /\ BertiSound(b, pq, base \cup {line}, WithAccess(seen, tag, line))
           /\ Timely(l.lesson, seen)
<1>. DEFINE R == WithAccess(seen, tag, line)
            S == (base \cup {line}) \cup FillsOf(pq)
            c == LatencyAdd(berti, line, tag, FALSE, now)
            D == DOMAIN berti.latency
<1>1. l = [outcomes |-> HistoryAdd(c, tag, line), lesson |-> NoLesson]
  BY DEF Learned
<1>6. PICK pf \in BOOLEAN : c = LatencyAdd(berti, line, tag, pf, now)
  OBVIOUS
<1>. HIDE DEF c
<1>2. b \in HistoryAdd(c, tag, line) /\ l.lesson = NoLesson
  BY <1>1
<1>3. Tables(berti) /\ TimedIn(berti, S, now) /\ QueueOK(pq)
  BY DEF MayCheck, BertiSound
<1>4. line \notin D => Cardinality(D) \in Nat /\ Cardinality(D) < LatencySlots
  <2>. SUFFICES ASSUME line \notin D PROVE Cardinality(D) \in Nat /\ Cardinality(D) < LatencySlots
    OBVIOUS
  <2>1. D \subseteq base \cup FillsOf(pq)
    BY <1>3 DEF TimedIn
  <2>2. IsFiniteSet(base) /\ Cardinality(base) \in Nat /\ Cardinality(base) < Misses + Waiting
    BY FS_CardinalityType DEF MayCheck
  <2>. HIDE DEF D
  <2>3. Cardinality(D) \in Nat /\ Cardinality(D) <= Cardinality(base) + Len(pq)
    BY <1>3, <2>1, <2>2, Room
  <2>4. Len(pq) \in Nat /\ Len(pq) <= PrefetchSlots
    BY <1>3, LenProperties DEF QueueOK
  <2>. QED BY <2>2, <2>3, <2>4, BertiSizes DEF LatencySlots
<1>5. MayBegin(berti, S, now, line, tag)
  BY <1>3, <1>4 DEF MayBegin, MayCheck, ClockAndLines
<1>. HIDE DEF S
<1>7. Began(c, berti, S, now, line)
  BY ONLY <1>5, <1>6, LatencyAddIs
<1>8. Tables(c) /\ c.history = berti.history /\ c.shadow = berti.shadow
  BY <1>7 DEF Began
<1>9. tag \in Int /\ line \in Int /\ now \in Nat /\ HistorySeen(c.history, seen)
  BY <1>8 DEF MayCheck, BertiSound, ClockAndLines
<1>10. Tables(b) /\ b.latency = c.latency /\ b.shadow = c.shadow /\ HistorySeen(b.history, R)
  <2>1. Remembers(b, c, R)
    BY <1>2, <1>8, <1>9, HistoryAddIs
  <2>. QED BY <2>1 DEF Remembers
<1>11. TimedIn(b, S, now)
  <2>1. S \cup {line} = S
    BY DEF S
  <2>. QED BY <1>7, <1>10, <2>1 DEF Began, TimedIn
<1>12. Shadows(berti, blocks) /\ Apart(berti)
  BY DEF MayCheck, BertiSound
<1>13. Apart(b)
  BY <1>7, <1>8, <1>10, <1>12 DEF Apart, Began, Shadows, Cached
<1>14. Shadows(b, blocks)
  BY <1>8, <1>10, <1>12 DEF Shadows
<1>15. Timely(l.lesson, seen)
  BY <1>2, NothingLearned
<1>. QED BY <1>3, <1>10, <1>11, <1>13, <1>14, <1>15 DEF BertiSound, S

LEMMA HitLearned ==
    ASSUME ClockAndLines, NEW base, NEW tag, NEW line, MayCheck(base, tag, line),
           Cached(line), NEW hit \in BOOLEAN, hit = TRUE,
           NEW l, l = Learned(berti, tag, line, hit), NEW b \in l.outcomes
    PROVE  BertiSound(b, pq, base, WithAccess(seen, tag, line)) /\ Timely(l.lesson, seen)
<1>. DEFINE R == WithAccess(seen, tag, line)
            B == berti
            F == InShadow(B, line)
            f == CHOOSE f \in F : TRUE
            c == B.shadow[f]
            e == [line |-> c.line, pf |-> FALSE, lat |-> c.lat]
            W == [B.shadow EXCEPT ![f] = e]
            a == [B EXCEPT !.shadow[f].pf = FALSE]
            u == FindAndUpdate(a, c.lat, tag, now % TimeMod, line)
            taught == [outcomes |-> UNION {HistoryAdd(x, tag, line) : x \in u.outcomes},
                       lesson   |-> [tag |-> tag, line |-> line, deltas |-> u.deltas,
                                     by |-> now - c.lat]]
<1>1. /\ Tables(B) /\ Shadows(B, blocks) /\ Apart(B) /\ HistorySeen(B.history, seen) /\ QueueOK(pq)
      /\ TimedIn(B, (base \cup {line}) \cup FillsOf(pq), now)
  BY DEF MayCheck, BertiSound
<1>2. F # {}
  BY <1>1 DEF Cached, InShadow, Shadows
<1>3. f \in Frames /\ c.line = line
  BY <1>2 DEF InShadow
<1>4. l = IF c.pf THEN taught ELSE [outcomes |-> {B}, lesson |-> NoLesson]
  BY <1>2 DEF Learned
<1>5. line \notin DOMAIN B.latency
  BY <1>1, <1>3 DEF Apart
<1>6. TimedIn(B, base \cup FillsOf(pq), now)
  BY <1>1, <1>5 DEF TimedIn
<1>. HIDE DEF F, f
<1>7. CASE ~c.pf
  <2>1. l.outcomes = {B} /\ l.lesson = NoLesson
    <3>. HIDE DEF c, taught, B
    <3>. QED BY <1>4, <1>7
  <2>2. b = B /\ Timely(l.lesson, seen)
    BY <2>1, NothingLearned
  <2>3. HistorySeen(B.history, R)
    BY <1>1 DEF HistorySeen, Recalled, WithAccess
  <2>. HIDE DEF B
  <2>. QED BY <1>1, <1>6, <2>2, <2>3 DEF BertiSound
<1>8. CASE c.pf
  <2>1. l = taught
    BY <1>4, <1>8
  <2>2. B.shadow \in [Frames -> ShadowEntries]
    BY <1>1 DEF Tables
  <2>3. c \in ShadowEntries
    BY <1>3, <2>2
  <2>4. c = [line |-> c.line, pf |-> c.pf, lat |-> c.lat] /\ c.lat \in Nat /\ c.line \in Int
    <3>. HIDE DEF c
    <3>. QED BY <2>3 DEF ShadowEntries
  <2>5. a = [B EXCEPT !.shadow = [B.shadow EXCEPT ![f] = [c EXCEPT !.pf = FALSE]]]
    OBVIOUS
  <2>6. [c EXCEPT !.pf = FALSE] = e
    <3>. HIDE DEF c
    <3>. QED BY <2>3, ShadowUsed
  <2>7. a = [B EXCEPT !.shadow = W]
    BY <2>5, <2>6
  <2>8. W \in [Frames -> ShadowEntries] /\ \A g \in Frames : W[g].line = B.shadow[g].line
    <3>1. e \in ShadowEntries /\ e.line = c.line
      BY <2>4 DEF ShadowEntries
    <3>2. \A g \in Frames : W[g] = IF g = f THEN e ELSE B.shadow[g]
      BY <2>2
    <3>3. W \in [Frames -> ShadowEntries]
      <4>. HIDE DEF e
      <4>. QED BY <2>2, <3>1
    <3>. HIDE DEF e, W
    <3>. QED BY <3>1, <3>2, <3>3
  <2>. HIDE DEF W
  <2>9. a = [latency |-> B.latency, shadow |-> W, history |-> B.history,
             table |-> B.table, fifo |-> B.fifo, failed |-> B.failed]
    BY <1>1, <2>7 DEF Tables
  <2>10. Tables(a)
    BY <1>1, <2>8, <2>9 DEF Tables
  <2>11. a.latency = B.latency /\ a.history = B.history /\ a.shadow = W
    BY <2>9
  <2>. HIDE DEF a
  <2>. HIDE DEF u, c
  <2>12. PICK x \in u.outcomes : b \in HistoryAdd(x, tag, line)
    BY <2>1
  <2>13. l.lesson.deltas = u.deltas /\ l.lesson.tag = tag /\ l.lesson.line = line
         /\ l.lesson.by = now - c.lat
    BY <2>1
  <2>14. /\ tag \in Int \ {0} /\ tag \in Int /\ line \in Int /\ now \in Nat /\ SeenOK(seen, now)
         /\ TimeMod \in Nat \ {0}
    BY BertiSizes DEF MayCheck, ClockAndLines
  <2>15. Tables(x) /\ OnlyDeltas(x, a)
    BY <2>10, <2>12, <2>14, FindAndUpdateIs DEF u
  <2>16. HistorySeen(x.history, seen)
    BY <1>1, <2>11, <2>15 DEF OnlyDeltas
  <2>17. Tables(b) /\ b.latency = x.latency /\ b.shadow = x.shadow /\ HistorySeen(b.history, R)
    <3>1. Remembers(b, x, R)
      BY <2>12, <2>14, <2>15, <2>16, HistoryAddIs
    <3>. QED BY <3>1 DEF Remembers
  <2>18. b.latency = B.latency /\ b.shadow = W
    BY <2>11, <2>15, <2>17 DEF OnlyDeltas
  <2>19. TimedIn(b, base \cup FillsOf(pq), now)
    BY <1>6, <2>18 DEF TimedIn
  <2>20. Apart(b) /\ Shadows(b, blocks)
    BY <1>1, <2>8, <2>18 DEF Apart, Shadows
  <2>21. Timely(l.lesson, seen)
    <3>. DEFINE at == now % TimeMod
                lat == c.lat
    <3>1. at \in Int /\ lat \in Int /\ at - lat = (now % TimeMod) - lat
      BY <2>4, <2>14
    <3>2. u = FindAndUpdate(a, lat, tag, at, line)
      BY DEF u
    <3>3. HistorySeen(a.history, seen)
      BY <1>1, <2>11
    <3>. DEFINE lesn == l.lesson
    <3>4. lesn.deltas = u.deltas /\ lesn.tag = tag /\ lesn.line = line /\ lesn.by = now - lat
      BY <2>13
    <3>. HIDE DEF at, lat, lesn
    <3>5. Timely(lesn, seen)
      BY <2>10, <2>14, <3>1, <3>2, <3>3, <3>4, LearnedInTime
    <3>. QED BY <3>5 DEF lesn
  <2>. QED BY <1>1, <2>17, <2>19, <2>20, <2>21 DEF BertiSound
<1>. QED BY <1>7, <1>8

LEMMA TimelyLater ==
    ASSUME NEW l, NEW S, Timely(l, S), NEW R, S \subseteq R
    PROVE  Timely(l, R)
BY DEF Timely

\* A check of a demand, told to Berti: what is timed then are lines of here.
LEMMA OperateKeeps ==
    ASSUME ClockAndLines, NEW base, NEW tag, NEW line, MayCheck(base, tag, line),
           Operate(tag, line, Cached(line)),
           NEW here, here = IF Cached(line) THEN base ELSE base \cup {line}
    PROVE  /\ BertiSound(berti', pq', here, seen') /\ SeenOK(seen', now)
           /\ Timely(lesson', seen')
<1>1. PICK hit \in BOOLEAN : (hit = TRUE <=> Cached(line)) /\ Operate(tag, line, hit)
  <2>1. Cached(line) \in BOOLEAN
    BY DEF Cached
  <2>2. Cached(line) = TRUE <=> Cached(line)
    BY <2>1
  <2>. QED BY <2>1, <2>2
<1>2. PICK l : /\ l = Learned(berti, tag, line, hit)
               /\ \E b \in l.outcomes : \E ds \in Launches(b, tag) :
                  \E p \in {Prefetched(b, tag, line, ds)} :
                    /\ berti' = p.b /\ pq' = p.pq /\ lesson' = l.lesson
                    /\ seen' = WithAccess(seen, tag, line)
  BY <1>1 DEF Operate, WithAccess
<1>3. PICK b \in l.outcomes : \E ds \in Launches(b, tag) :
        \E p \in {Prefetched(b, tag, line, ds)} :
            /\ berti' = p.b /\ pq' = p.pq /\ lesson' = l.lesson
            /\ seen' = WithAccess(seen, tag, line)
  BY <1>2
<1>4. PICK ds \in Launches(b, tag) : \E p : /\ p = Prefetched(b, tag, line, ds)
               /\ berti' = p.b /\ pq' = p.pq /\ lesson' = l.lesson
               /\ seen' = WithAccess(seen, tag, line)
  BY <1>3
<1>14. PICK p : /\ p = Prefetched(b, tag, line, ds)
               /\ berti' = p.b /\ pq' = p.pq /\ lesson' = l.lesson
               /\ seen' = WithAccess(seen, tag, line)
  BY <1>4
<1>. DEFINE R == WithAccess(seen, tag, line)
<1>5. BertiSound(b, pq, here, R) /\ Timely(l.lesson, seen)
  <2>1. CASE Cached(line)
    <3>1. hit = TRUE /\ here = base
      BY <1>1, <2>1
    <3>. QED BY <1>2, <1>3, <2>1, <3>1, HitLearned
  <2>2. CASE ~Cached(line)
    <3>1. ~hit /\ here = base \cup {line}
      BY <1>1, <2>2
    <3>. QED BY <1>2, <1>3, <2>2, <3>1, MissLearned
  <2>. QED BY <2>1, <2>2
<1>6. tag \in Int \ {0} /\ line \in Int /\ now \in Nat \ {0}
  BY DEF MayCheck, ClockAndLines
<1>7. IsFiniteSet(here) /\ Cardinality(here) <= Misses + Waiting
  <2>1. IsFiniteSet(base) /\ Cardinality(base) \in Nat /\ Cardinality(base) < Misses + Waiting
    BY FS_CardinalityType DEF MayCheck
  <2>2. IsFiniteSet(base \cup {line})
        /\ Cardinality(base \cup {line}) \in {Cardinality(base), Cardinality(base) + 1}
    BY <2>1, FS_AddElement
  <2>. QED BY <2>1, <2>2, BertiSizes
<1>8. /\ Tables(b) /\ QueueOK(pq) /\ TimedIn(b, here \cup FillsOf(pq), now) /\ Apart(b)
      /\ Shadows(b, blocks) /\ HistorySeen(b.history, R)
  BY <1>5 DEF BertiSound
<1>9. ds \in Seq(Int)
  BY <1>4, <1>8, LaunchesIs
<1>10. /\ Tables(p.b) /\ p.b.shadow = b.shadow /\ p.b.history = b.history
       /\ QueueOK(p.pq) /\ TimedIn(p.b, here \cup FillsOf(p.pq), now) /\ Apart(p.b)
  <2>1. MayPrefetch(b, here, tag, line)
    BY <1>6, <1>7, <1>8 DEF MayPrefetch
  <2>2. Fetched(p, b, here)
    BY <1>9, <1>14, <2>1, PrefetchedIs
  <2>. QED BY <2>2 DEF Fetched
<1>11. BertiSound(p.b, p.pq, here, R)
  BY <1>8, <1>10 DEF BertiSound, Shadows
<1>12. SeenOK(R, now)
  <2>. DEFINE a == [tag |-> tag, line |-> line, time |-> now]
  <2>1. a \in Accesses /\ a.time = now
    BY <1>6 DEF Accesses
  <2>2. R = seen \cup {a} /\ SeenOK(seen, now)
    BY DEF WithAccess, ClockAndLines
  <2>. HIDE DEF a, R
  <2>. QED BY <1>6, <2>1, <2>2 DEF SeenOK
<1>13. Timely(l.lesson, R)
  BY <1>5, TimelyLater DEF WithAccess
<1>. QED BY <1>14, <1>11, <1>12, <1>13

-----------------------------------------------------------------------------
(* The cache                                                               *)

Requests == [line : Int, tag : Int]
LinesOf(W) == {r.line : r \in W}
Pending(M, W) == DOMAIN M \cup LinesOf(W)

MissesOK(M) ==
    /\ M \in [DOMAIN M -> BOOLEAN] /\ DOMAIN M \subseteq Int
    /\ IsFiniteSet(DOMAIN M) /\ Cardinality(DOMAIN M) <= Misses

RequestsOK(W) == W \subseteq Requests /\ IsFiniteSet(W) /\ Cardinality(W) <= Waiting

LEMMA PendingSize ==
    ASSUME NEW M, MissesOK(M), NEW W, IsFiniteSet(W)
    PROVE  IsFiniteSet(Pending(M, W)) /\ Cardinality(Pending(M, W)) <= Misses + Cardinality(W)
<1>. DEFINE D == DOMAIN M
            T == LinesOf(W)
<1>1. IsFiniteSet(T) /\ Cardinality(T) <= Cardinality(W)
  <2>1. \E f : T = {f[r] : r \in W}
    <3>. DEFINE f == [r \in W |-> r.line]
    <3>1. T = {f[r] : r \in W}
      BY DEF LinesOf
    <3>. HIDE DEF f
    <3>. QED BY ONLY <3>1
  <2>2. PICK f : T = {f[r] : r \in W}
    BY <2>1
  <2>. HIDE DEF T
  <2>. QED BY <2>2, ImageSize
<1>2. IsFiniteSet(D) /\ Cardinality(D) <= Misses
  BY DEF MissesOK
<1>3. Pending(M, W) = D \cup T
  BY DEF Pending
<1>. HIDE DEF D, T
<1>4. IsFiniteSet(D \cup T)
      /\ Cardinality(D \cup T) = Cardinality(D) + Cardinality(T) - Cardinality(D \cap T)
  BY <1>1, <1>2, FS_Union
<1>5. IsFiniteSet(D \cap T)
  BY <1>1, FS_Intersection
<1>6. /\ Cardinality(D) \in Nat /\ Cardinality(T) \in Nat /\ Cardinality(D \cap T) \in Nat
      /\ Cardinality(W) \in Nat /\ Misses \in Nat
  BY <1>1, <1>2, <1>5, FS_CardinalityType, BertiSizes
<1>. QED BY <1>1, <1>2, <1>3, <1>4, <1>6

\* A check keeps every line that was pending, and the line it checks unless that is cached.
LEMMA CheckedKeeps ==
    ASSUME MissesOK(mshr), NEW rest \in SUBSET Requests, IsFiniteSet(rest),
           Cardinality(rest) < Waiting, NEW r \in Requests, Checked(r, rest)
    PROVE  /\ MissesOK(mshr') /\ RequestsOK(waiting')
           /\ Pending(mshr, rest) \subseteq Pending(mshr', waiting')
           /\ Cached(r.line) \/ r.line \in Pending(mshr', waiting')
<1>. DEFINE D == DOMAIN mshr
            p == r.tag = 0
<1>1. /\ mshr \in [D -> BOOLEAN] /\ D \subseteq Int /\ IsFiniteSet(D) /\ Cardinality(D) <= Misses
      /\ Cardinality(D) \in Nat /\ Misses \in Nat
  BY FS_CardinalityType, BertiSizes DEF MissesOK
<1>2. Cardinality(rest) \in Nat /\ Waiting \in Nat
  BY FS_CardinalityType, BertiSizes
<1>3. RequestsOK(rest)
  BY <1>2 DEF RequestsOK
<1>4. r.line \in Int /\ p \in BOOLEAN
  BY DEF Requests
<1>. HIDE DEF p
<1>5. CASE UNCHANGED mshr /\ waiting' = rest /\ Cached(r.line)
  BY <1>3, <1>5
<1>6. CASE mshr' = [mshr EXCEPT ![r.line] = @ /\ p] /\ waiting' = rest /\ r.line \in D
  <2>1. DOMAIN mshr' = D /\ mshr' \in [D -> BOOLEAN]
    BY <1>1, <1>6
  <2>2. MissesOK(mshr')
    BY <1>1, <2>1 DEF MissesOK
  <2>. QED BY <1>3, <1>6, <2>1, <2>2 DEF Pending
<1>7. CASE mshr' = With(mshr, r.line, p) /\ waiting' = rest /\ Cardinality(D) < Misses
  <2>1. DOMAIN mshr' = D \cup {r.line} /\ mshr' \in [D \cup {r.line} -> BOOLEAN]
    BY <1>1, <1>4, <1>7 DEF With
  <2>2. IsFiniteSet(D \cup {r.line})
        /\ Cardinality(D \cup {r.line}) \in {Cardinality(D), Cardinality(D) + 1}
    <3>. HIDE DEF D
    <3>. QED BY <1>1, FS_AddElement
  <2>3. Cardinality(D \cup {r.line}) <= Misses
    BY <1>1, <1>7, <2>2
  <2>4. MissesOK(mshr')
    BY <1>1, <1>4, <2>1, <2>2, <2>3 DEF MissesOK
  <2>. QED BY <1>3, <1>7, <2>1, <2>4 DEF Pending
<1>8. CASE UNCHANGED mshr /\ waiting' = rest \cup {r}
  <2>1. IsFiniteSet(rest \cup {r})
        /\ Cardinality(rest \cup {r}) \in {Cardinality(rest), Cardinality(rest) + 1}
    BY FS_AddElement
  <2>2. RequestsOK(waiting')
    BY <1>2, <1>8, <2>1 DEF RequestsOK
  <2>. QED BY <1>8, <2>2 DEF Pending, LinesOf
<1>. QED BY <1>5, <1>6, <1>7, <1>8 DEF Checked, Missed, p

DemandsMade == [tag : Int \ {0}, line : Int]

BertiIInv ==
    /\ ClockAndLines
    /\ MissesOK(mshr) /\ RequestsOK(waiting)
    /\ program \in Seq(DemandsMade)
    /\ BertiSound(berti, pq, Pending(mshr, waiting), seen)
    /\ Timely(lesson, seen)

LEMMA CachedIsNotTimed ==
    ASSUME NEW b, Apart(b), Shadows(b, blocks), NEW line, Cached(line)
    PROVE  line \notin DOMAIN b.latency
BY DEF Apart, Shadows, Cached

LEMMA AccessKeeps ==
    ASSUME ClockAndLines, MissesOK(mshr), NEW rest \in SUBSET Requests, IsFiniteSet(rest),
           Cardinality(rest) < Waiting, NEW r \in DemandsMade,
           BertiSound(berti, pq, Pending(mshr, rest) \cup {r.line}, seen), Access(r, rest)
    PROVE  /\ ClockAndLines' /\ MissesOK(mshr') /\ RequestsOK(waiting')
           /\ BertiSound(berti, pq, Pending(mshr, waiting), seen)'
           /\ Timely(lesson', seen')
<1>. DEFINE base == Pending(mshr, rest)
            tag  == r.tag
            line == r.line
            here == IF Cached(line) THEN base ELSE base \cup {line}
            S    == Pending(mshr', waiting')
<1>1. tag \in Int \ {0} /\ line \in Int /\ r \in Requests
  BY DEF DemandsMade, Requests
<1>2. Operate(tag, line, Cached(line)) /\ Checked(r, rest) /\ UNCHANGED <<now, blocks>>
  BY DEF Access
<1>3. IsFiniteSet(base) /\ Cardinality(base) < Misses + Waiting
  <2>1. IsFiniteSet(base) /\ Cardinality(base) <= Misses + Cardinality(rest)
    BY PendingSize
  <2>2. Cardinality(base) \in Nat /\ Cardinality(rest) \in Nat /\ Misses \in Nat /\ Waiting \in Nat
    BY <2>1, FS_CardinalityType, BertiSizes
  <2>. HIDE DEF base
  <2>. QED BY <2>1, <2>2
<1>4. /\ MissesOK(mshr') /\ RequestsOK(waiting') /\ base \subseteq S
      /\ Cached(line) \/ line \in S
  BY <1>1, <1>2, CheckedKeeps
<1>. HIDE DEF base, S, tag, line
<1>5. MayCheck(base, tag, line)
  BY <1>1, <1>3 DEF MayCheck, base, line
<1>6. /\ BertiSound(berti', pq', here, seen') /\ SeenOK(seen', now)
      /\ Timely(lesson', seen')
  BY <1>2, <1>5, OperateKeeps
<1>7. here \subseteq S
  BY <1>4
<1>. HIDE DEF here
<1>8. BertiSound(berti, pq, Pending(mshr, waiting), seen)'
  BY <1>2, <1>6, <1>7 DEF BertiSound, TimedIn, S
<1>9. ClockAndLines'
  BY <1>2, <1>6 DEF ClockAndLines
<1>. QED BY <1>4, <1>6, <1>8, <1>9

LEMMA ArriveKeeps ==
    ASSUME BertiIInv, Arrive
    PROVE  BertiIInv'
<1>. DEFINE r == Head(program)
<1>1. r \in DemandsMade /\ program' \in Seq(DemandsMade) /\ Access(r, waiting)
      /\ Cardinality(waiting) < Waiting
  BY DEF Arrive, BertiIInv
<1>2. /\ ClockAndLines /\ MissesOK(mshr) /\ waiting \in SUBSET Requests /\ IsFiniteSet(waiting)
      /\ BertiSound(berti, pq, Pending(mshr, waiting), seen)
  BY DEF BertiIInv, RequestsOK
<1>. HIDE DEF r
<1>3. BertiSound(berti, pq, Pending(mshr, waiting) \cup {r.line}, seen)
  BY <1>2 DEF BertiSound, TimedIn
<1>4. /\ ClockAndLines' /\ MissesOK(mshr') /\ RequestsOK(waiting')
      /\ BertiSound(berti, pq, Pending(mshr, waiting), seen)'
      /\ Timely(lesson', seen')
  BY <1>1, <1>2, <1>3, AccessKeeps
<1>. QED BY <1>1, <1>4 DEF BertiIInv

LEMMA RetryKeeps ==
    ASSUME BertiIInv, Retry
    PROVE  BertiIInv'
<1>1. PICK r \in waiting :
        \/ r.tag # 0 /\ Access(r, waiting \ {r}) /\ UNCHANGED program
        \/ /\ r.tag = 0 /\ Checked(r, waiting \ {r})
           /\ UNCHANGED <<berti, now, blocks, pq, program, seen, lesson>>
  BY DEF Retry
<1>. DEFINE rest == waiting \ {r}
<1>2. /\ ClockAndLines /\ MissesOK(mshr) /\ waiting \subseteq Requests /\ IsFiniteSet(waiting)
      /\ Cardinality(waiting) <= Waiting
      /\ BertiSound(berti, pq, Pending(mshr, waiting), seen) /\ program \in Seq(DemandsMade)
      /\ Timely(lesson, seen)
  BY DEF BertiIInv, RequestsOK
<1>3. rest \in SUBSET Requests /\ IsFiniteSet(rest) /\ Cardinality(rest) < Waiting
  <2>1. IsFiniteSet(rest) /\ Cardinality(rest) = Cardinality(waiting) - 1
    BY <1>2, FS_RemoveElement
  <2>2. Cardinality(rest) \in Nat /\ Cardinality(waiting) \in Nat /\ Waiting \in Nat
    BY <1>2, <2>1, FS_CardinalityType, BertiSizes
  <2>. HIDE DEF rest
  <2>3. Cardinality(rest) < Waiting
    BY <1>2, <2>1, <2>2
  <2>. QED BY <1>2, <2>1, <2>3 DEF rest
<1>4. Pending(mshr, waiting) \subseteq Pending(mshr, rest) \cup {r.line}
  BY DEF Pending, LinesOf
<1>5. r \in Requests
  BY <1>2
<1>. HIDE DEF rest
<1>6. BertiSound(berti, pq, Pending(mshr, rest) \cup {r.line}, seen)
  BY <1>2, <1>4 DEF BertiSound, TimedIn
<1>7. CASE r.tag # 0 /\ Access(r, rest) /\ UNCHANGED program
  <2>1. r \in DemandsMade
    BY <1>5, <1>7 DEF Requests, DemandsMade
  <2>2. /\ ClockAndLines' /\ MissesOK(mshr') /\ RequestsOK(waiting')
        /\ BertiSound(berti, pq, Pending(mshr, waiting), seen)'
        /\ Timely(lesson', seen')
    BY <1>2, <1>3, <1>6, <1>7, <2>1, AccessKeeps
  <2>. QED BY <1>2, <1>7, <2>2 DEF BertiIInv
<1>8. CASE /\ r.tag = 0 /\ Checked(r, rest)
           /\ UNCHANGED <<berti, now, blocks, pq, program, seen, lesson>>
  <2>1. /\ MissesOK(mshr') /\ RequestsOK(waiting')
        /\ Pending(mshr, rest) \subseteq Pending(mshr', waiting')
        /\ Cached(r.line) \/ r.line \in Pending(mshr', waiting')
    BY <1>2, <1>3, <1>5, <1>8, CheckedKeeps
  <2>2. Cached(r.line) => r.line \notin DOMAIN berti.latency
    BY <1>2, CachedIsNotTimed DEF BertiSound
  <2>3. BertiSound(berti, pq, Pending(mshr, waiting), seen)'
    BY <1>6, <1>8, <2>1, <2>2 DEF BertiSound, TimedIn
  <2>4. ClockAndLines'
    BY <1>2, <1>8 DEF ClockAndLines
  <2>. QED BY <1>2, <1>8, <2>1, <2>3, <2>4 DEF BertiIInv
<1>. QED BY <1>1, <1>7, <1>8 DEF rest

LEMMA StartPrefetchKeeps ==
    ASSUME BertiIInv, StartPrefetch
    PROVE  BertiIInv'
<1>. DEFINE h == Head(pq)
            q == Tail(pq)
            r == [line |-> h.line, tag |-> 0]
<1>1. /\ ClockAndLines /\ MissesOK(mshr) /\ RequestsOK(waiting)
      /\ waiting \in SUBSET Requests /\ IsFiniteSet(waiting)
      /\ BertiSound(berti, pq, Pending(mshr, waiting), seen) /\ program \in Seq(DemandsMade)
      /\ Timely(lesson, seen)
  BY DEF BertiIInv, RequestsOK
<1>2. /\ pq # << >> /\ Cardinality(waiting) < Waiting /\ pq' = q
      /\ UNCHANGED <<berti, now, blocks, program, seen, lesson>>
      /\ h.fill => Checked(r, waiting)
      /\ ~h.fill => UNCHANGED <<mshr, waiting>>
  BY DEF StartPrefetch
<1>3. QueueOK(pq)
  BY <1>1 DEF BertiSound
<1>4. /\ h \in [line : Int, fill : BOOLEAN] /\ QueueOK(q)
      /\ FillsOf(pq) \subseteq FillsOf(q) \cup (IF h.fill THEN {h.line} ELSE {})
  <2>1. /\ pq \in Seq([line : Int, fill : BOOLEAN]) /\ Len(pq) \in Nat /\ Len(pq) >= 1
        /\ Len(pq) <= PrefetchSlots
    BY <1>2, <1>3, EmptySeq, LenProperties DEF QueueOK
  <2>2. /\ h = pq[1] /\ h \in [line : Int, fill : BOOLEAN]
        /\ q \in Seq([line : Int, fill : BOOLEAN]) /\ Len(q) = Len(pq) - 1
        /\ DOMAIN pq = 1 .. Len(pq) /\ DOMAIN q = 1 .. Len(q)
        /\ \A k \in 1 .. Len(pq) - 1 : q[k] = pq[k + 1]
    <3>. DEFINE E == [line : Int, fill : BOOLEAN]
    <3>1. pq \in Seq(E) /\ pq # << >> /\ Len(pq) \in Nat /\ Len(pq) >= 1
      BY <1>2, <2>1
    <3>. HIDE DEF E
    <3>2. /\ q \in Seq(E) /\ Len(q) = Len(pq) - 1 /\ h = pq[1] /\ h \in E
          /\ \A k \in 1 .. Len(pq) - 1 : q[k] = pq[k + 1]
      BY <3>1
    <3>3. DOMAIN pq = 1 .. Len(pq) /\ DOMAIN q = 1 .. Len(q)
      BY <3>1, <3>2, LenProperties
    <3>. QED BY <3>2, <3>3 DEF E
  <2>. HIDE DEF h, q
  <2>3. QueueOK(q)
    BY <2>1, <2>2, BertiSizes DEF QueueOK
  <2>4. ASSUME NEW k \in DOMAIN pq, pq[k].fill
        PROVE  pq[k].line \in FillsOf(q) \cup (IF h.fill THEN {h.line} ELSE {})
    <3>1. CASE k = 1
      BY <2>2, <2>4, <3>1
    <3>2. CASE k # 1
      <4>1. k - 1 \in DOMAIN q /\ q[k - 1] = pq[k]
        <5>1. k \in 1 .. Len(pq) /\ k # 1
          BY <2>2, <3>2
        <5>2. Len(q) = Len(pq) - 1 /\ DOMAIN q = 1 .. Len(q) /\ Len(pq) \in Nat
          BY <2>1, <2>2
        <5>3. k - 1 \in 1 .. Len(pq) - 1 /\ k - 1 + 1 = k
          BY ONLY <5>1, <5>2
        <5>. QED BY <2>2, <5>2, <5>3
      <4>. QED BY <2>4, <4>1 DEF FillsOf
    <3>. QED BY <3>1, <3>2
  <2>. QED BY <2>2, <2>3, <2>4 DEF FillsOf
<1>. HIDE DEF h, q
<1>5. /\ MissesOK(mshr') /\ RequestsOK(waiting')
      /\ Pending(mshr, waiting) \subseteq Pending(mshr', waiting')
      /\ h.fill => Cached(h.line) \/ h.line \in Pending(mshr', waiting')
  <2>1. CASE h.fill
    <3>1. r \in Requests /\ r.line = h.line
      BY <1>4 DEF Requests
    <3>. HIDE DEF r
    <3>2. /\ MissesOK(mshr') /\ RequestsOK(waiting')
          /\ Pending(mshr, waiting) \subseteq Pending(mshr', waiting')
          /\ Cached(r.line) \/ r.line \in Pending(mshr', waiting')
      BY <1>1, <1>2, <2>1, <3>1, CheckedKeeps
    <3>. QED BY <3>1, <3>2
  <2>2. CASE ~h.fill
    BY <1>1, <1>2, <2>2
  <2>. QED BY <2>1, <2>2
<1>6. Cached(h.line) => h.line \notin DOMAIN berti.latency
  BY <1>1, CachedIsNotTimed DEF BertiSound
<1>7. TimedIn(berti, Pending(mshr', waiting') \cup FillsOf(q), now)
  BY <1>1, <1>4, <1>5, <1>6 DEF BertiSound, TimedIn
<1>8. BertiSound(berti, pq, Pending(mshr, waiting), seen)'
  BY <1>1, <1>2, <1>4, <1>7 DEF BertiSound
<1>9. ClockAndLines'
  BY <1>1, <1>2 DEF ClockAndLines
<1>. QED BY <1>1, <1>2, <1>5, <1>8, <1>9 DEF BertiIInv

LEMMA TickKeeps ==
    ASSUME BertiIInv, Tick
    PROVE  BertiIInv'
<1>1. /\ now \in Nat \ {0} /\ now' = now + 1
      /\ \A l \in DOMAIN berti.latency : now + 1 - berti.latency[l].time < TimeMod
      /\ UNCHANGED <<berti, blocks, mshr, waiting, pq, program, seen, lesson>>
  BY DEF Tick, BertiIInv, ClockAndLines
<1>2. ClockAndLines'
  <2>1. \A a \in seen : a.time \in Nat /\ a.time <= now
    BY DEF BertiIInv, ClockAndLines, SeenOK, Accesses
  <2>2. \A a \in seen : a.time <= now + 1
    BY <1>1, <2>1
  <2>. QED BY <1>1, <2>2 DEF BertiIInv, ClockAndLines, SeenOK
<1>3. TimedIn(berti, Pending(mshr, waiting) \cup FillsOf(pq), now + 1)
  <2>1. TimedIn(berti, Pending(mshr, waiting) \cup FillsOf(pq), now)
    BY DEF BertiIInv, BertiSound
  <2>. QED BY <1>1, <2>1 DEF TimedIn
<1>. QED BY <1>1, <1>2, <1>3 DEF BertiIInv, BertiSound

\* b has the line in the frame, and times it no longer.
Framed(b, frame, line) ==
    /\ Tables(b) /\ Apart(b) /\ Shadows(b, [blocks EXCEPT ![frame] = line])
    /\ b.history = berti.history
    /\ DOMAIN b.latency = DOMAIN berti.latency \ {line}
    /\ \A l \in DOMAIN b.latency : b.latency[l] = berti.latency[l]

LEMMA FrameShadowed ==
    ASSUME Tables(berti), Apart(berti), Shadows(berti, blocks), blocks \in [Frames -> Int],
           NEW frame \in Frames, NEW line \in Int, NEW pf \in BOOLEAN, NEW lat \in Nat,
           NEW b, b = ShadowAdd(LatencyDel(berti, line), frame, line, pf, lat)
    PROVE  Framed(b, frame, line)
<1>. DEFINE U == [l \in DOMAIN berti.latency \ {line} |-> berti.latency[l]]
            e == [line |-> line, pf |-> pf, lat |-> lat]
            W == [berti.shadow EXCEPT ![frame] = e]
            c == LatencyDel(berti, line)
            E == [blocks EXCEPT ![frame] = line]
<1>1. /\ berti.latency \in [DOMAIN berti.latency -> LatencyEntries]
      /\ berti.shadow \in [Frames -> ShadowEntries]
  BY DEF Tables
<1>2. c = [berti EXCEPT !.latency = U]
  BY DEF LatencyDel
<1>3. c = [latency |-> U, shadow |-> berti.shadow, history |-> berti.history,
           table |-> berti.table, fifo |-> berti.fifo, failed |-> berti.failed]
  <2>. HIDE DEF U, c
  <2>. QED BY <1>2 DEF Tables
<1>4. b = [c EXCEPT !.shadow[frame] = e]
  BY DEF ShadowAdd
<1>5. b = [c EXCEPT !.shadow = W]
  <2>1. c.shadow = berti.shadow
    <3>. HIDE DEF c, U
    <3>. QED BY <1>3
  <2>2. b = [c EXCEPT !.shadow = [c.shadow EXCEPT ![frame] = e]]
    <3>. HIDE DEF c, e
    <3>. QED BY <1>4
  <2>. HIDE DEF c, e
  <2>. QED BY <2>1, <2>2
<1>6. b = [latency |-> U, shadow |-> W, history |-> berti.history,
           table |-> berti.table, fifo |-> berti.fifo, failed |-> berti.failed]
  <2>. HIDE DEF c, U, W
  <2>. QED BY <1>3, <1>5
<1>7. e \in ShadowEntries /\ e.line = line
  BY DEF ShadowEntries
<1>. HIDE DEF e
<1>8. /\ W \in [Frames -> ShadowEntries]
      /\ \A f \in Frames : W[f] = IF f = frame THEN e ELSE berti.shadow[f]
  BY <1>1, <1>7
<1>9. \A f \in Frames : E[f] = IF f = frame THEN line ELSE blocks[f]
  OBVIOUS
<1>10. /\ U \in [DOMAIN U -> LatencyEntries] /\ DOMAIN U = DOMAIN berti.latency \ {line}
       /\ \A l \in DOMAIN U : U[l] = berti.latency[l]
  BY <1>1
<1>. HIDE DEF U, W, E
<1>11. b.latency = U /\ b.shadow = W /\ b.history = berti.history
  BY <1>6
<1>12. Tables(b)
  BY <1>6, <1>8, <1>10 DEF Tables
<1>13. Apart(b)
  BY <1>7, <1>8, <1>10, <1>11 DEF Apart
<1>14. Shadows(b, E)
  BY <1>7, <1>8, <1>9, <1>11 DEF Shadows
<1>. QED BY <1>10, <1>11, <1>12, <1>13, <1>14 DEF E, Framed

LEMMA FrameFilledKeeps ==
    ASSUME BertiIInv, FrameFilled
    PROVE  BertiIInv'
<1>1. PICK line \in DOMAIN mshr : \E way \in 1 .. LineWays :
        /\ blocks' = [blocks EXCEPT ![<<line % LineSets, way>>] = line]
        /\ mshr' = Without(mshr, {line})
        /\ CacheFill(<<line % LineSets, way>>, line, mshr[line])
        /\ UNCHANGED <<now, waiting, pq, program, seen>>
  BY DEF FrameFilled
<1>2. PICK way \in 1 .. LineWays :
        /\ blocks' = [blocks EXCEPT ![<<line % LineSets, way>>] = line]
        /\ mshr' = Without(mshr, {line})
        /\ CacheFill(<<line % LineSets, way>>, line, mshr[line])
        /\ UNCHANGED <<now, waiting, pq, program, seen>>
  BY <1>1
<1>. DEFINE frame == <<line % LineSets, way>>
            pf    == mshr[line]
            known == line \in DOMAIN berti.latency
            tag   == IF known THEN berti.latency[line].tag ELSE 0
            since == LatencyGet(berti, line)
            start == since % TimeMod
            lat   == Measured(start)
            b     == ShadowAdd(LatencyDel(berti, line), frame, line, pf, lat)
            u     == FindAndUpdate(b, lat, tag, start, line)
<1>3. /\ ClockAndLines /\ MissesOK(mshr) /\ RequestsOK(waiting)
      /\ BertiSound(berti, pq, Pending(mshr, waiting), seen) /\ program \in Seq(DemandsMade)
      /\ Timely(lesson, seen)
  BY DEF BertiIInv
<1>4. /\ Tables(berti) /\ QueueOK(pq) /\ Apart(berti) /\ Shadows(berti, blocks)
      /\ HistorySeen(berti.history, seen)
      /\ TimedIn(berti, Pending(mshr, waiting) \cup FillsOf(pq), now)
      /\ now \in Nat \ {0} /\ blocks \in [Frames -> Int] /\ SeenOK(seen, now)
  BY <1>3 DEF BertiSound, ClockAndLines
<1>5. line \in Int /\ pf \in BOOLEAN
  BY <1>3 DEF MissesOK
<1>6. frame \in Frames
  <2>1. LineSets \in Nat \ {0}
    BY BertiSizes
  <2>2. line % LineSets \in 0 .. LineSets - 1
    BY <1>5, <2>1
  <2>. QED BY <2>2 DEF Frames
<1>7. TimeMod \in Nat \ {0}
  BY BertiSizes
<1>8. known => /\ tag \in Int \ {0} /\ since \in Nat \ {0} /\ since <= now
               /\ now - since < TimeMod
  <2>1. berti.latency \in [DOMAIN berti.latency -> LatencyEntries]
    BY <1>4 DEF Tables
  <2>2. known => tag \in Int \ {0} /\ since \in Nat \ {0}
    BY <2>1 DEF LatencyEntries, LatencyGet
  <2>3. known => since \in 1 .. now /\ now - since < TimeMod
    BY <1>4 DEF LatencyGet, TimedIn
  <2>. QED BY <1>4, <2>2, <2>3
<1>9. ~known => since = 0
  BY DEF LatencyGet
<1>. HIDE DEF frame, pf, known, tag, since
<1>10. start \in Nat /\ now % TimeMod \in Nat
  <2>1. since \in Nat
    BY <1>8, <1>9
  <2>. QED BY <1>4, <1>7, <2>1
<1>. HIDE DEF start
<1>11. lat = IF start # 0 /\ now % TimeMod > start /\ (now % TimeMod) - start < LatMod
             THEN (now % TimeMod) - start ELSE 0
  BY DEF Measured
<1>12. lat \in Nat
  <2>. HIDE DEF lat
  <2>. QED BY <1>10, <1>11
<1>13. lat # 0 => /\ tag \in Int \ {0} /\ lat = now - since /\ since \in Nat
                  /\ lat = (now % TimeMod) - start
  <2>. HIDE DEF lat
  <2>. SUFFICES ASSUME lat # 0
                PROVE  /\ tag \in Int \ {0} /\ lat = now - since /\ since \in Nat
                       /\ lat = (now % TimeMod) - start
    OBVIOUS
  <2>1. start # 0 /\ start < now % TimeMod /\ lat = (now % TimeMod) - start
    BY <1>10, <1>11
  <2>2. known
    <3>1. ~known => start = 0
      BY <1>7, <1>9 DEF start
    <3>. QED BY <2>1, <3>1
  <2>3. since \in Nat /\ since <= now /\ now - since < TimeMod /\ since % TimeMod < now % TimeMod
    BY <1>8, <2>1, <2>2 DEF start
  <2>4. (now % TimeMod) - (since % TimeMod) = now - since
    BY <1>4, <1>7, <2>3, LooksAsLong
  <2>. QED BY <1>8, <2>1, <2>2, <2>3, <2>4 DEF start
<1>14. \/ berti' = b /\ lesson' = NoLesson
       \/ /\ lat # 0 /\ berti' \in u.outcomes
          /\ lesson' = [tag |-> tag, line |-> line, deltas |-> u.deltas,
                        by |-> since - (now - since)]
  BY <1>2 DEF CacheFill, frame, pf, known, tag, since, start
<1>15. blocks' = [blocks EXCEPT ![frame] = line] /\ mshr' = Without(mshr, {line})
       /\ UNCHANGED <<now, waiting, pq, program, seen>>
  BY <1>2 DEF frame
<1>. HIDE DEF lat
<1>16. /\ Tables(b) /\ Apart(b) /\ Shadows(b, [blocks EXCEPT ![frame] = line])
       /\ b.history = berti.history
       /\ DOMAIN b.latency = DOMAIN berti.latency \ {line}
       /\ \A l \in DOMAIN b.latency : b.latency[l] = berti.latency[l]
  <2>1. Framed(b, frame, line)
    BY <1>4, <1>5, <1>6, <1>12, FrameShadowed
  <2>. QED BY <2>1 DEF Framed
<1>. HIDE DEF b
<1>17. Tables(berti') /\ OnlyDeltas(berti', b) /\ Timely(lesson', seen)
  <2>1. CASE berti' = b /\ lesson' = NoLesson
    BY <1>16, <2>1, NothingLearned DEF OnlyDeltas
  <2>2. CASE /\ lat # 0 /\ berti' \in u.outcomes
             /\ lesson' = [tag |-> tag, line |-> line, deltas |-> u.deltas,
                           by |-> since - (now - since)]
    <3>. DEFINE l == lesson'
                early == lat + lat
    <3>1. /\ tag \in Int \ {0} /\ tag \in Int /\ lat \in Int /\ lat = now - since
          /\ since \in Nat /\ lat = (now % TimeMod) - start
      BY <1>12, <1>13, <2>2
    <3>2. u = FindAndUpdate(b, lat, tag, start, line)
      OBVIOUS
    <3>. HIDE DEF u
    <3>3. Tables(berti') /\ OnlyDeltas(berti', b)
      BY <1>5, <1>16, <2>2, <3>1, <3>2, FindAndUpdateIs
    <3>4. l.deltas = u.deltas /\ l.tag = tag /\ l.line = line /\ l.by = since - (now - since)
      BY <2>2
    <3>. HIDE DEF l
    <3>5. /\ early \in Int /\ start - lat = (now % TimeMod) - early /\ l.by = now - early
          /\ start \in Int /\ now \in Nat
      <4>. DEFINE looks == now % TimeMod
      <4>1. now \in Nat /\ looks \in Nat /\ start \in Nat /\ start \in Int
        BY <1>4, <1>10
      <4>2. /\ lat \in Int /\ lat = now - since /\ since \in Nat
            /\ lat = looks - start /\ l.by = since - (now - since)
        BY <3>1, <3>4
      <4>. HIDE DEF lat, looks
      <4>3. lat + lat \in Int /\ start - lat = looks - (lat + lat) /\ l.by = now - (lat + lat)
        BY <4>1, <4>2
      <4>. QED BY <4>1, <4>3 DEF looks
    <3>6. HistorySeen(b.history, seen)
      BY <1>4, <1>16
    <3>. HIDE DEF early
    <3>7. Timely(l, seen)
      BY <1>4, <1>5, <1>16, <3>1, <3>2, <3>4, <3>5, <3>6, LearnedInTime
    <3>. QED BY <3>3, <3>7 DEF l
  <2>. QED BY <1>14, <2>1, <2>2
<1>18. MissesOK(mshr') /\ DOMAIN mshr' = DOMAIN mshr \ {line}
  <2>. DEFINE D == DOMAIN mshr
  <2>1. mshr' \in [D \ {line} -> BOOLEAN] /\ DOMAIN mshr' = D \ {line}
    BY <1>3, <1>15 DEF Without, MissesOK
  <2>2. IsFiniteSet(D) /\ Cardinality(D) <= Misses /\ D \subseteq Int
    BY <1>3 DEF MissesOK
  <2>. HIDE DEF D
  <2>3. IsFiniteSet(D \ {line}) /\ Cardinality(D \ {line}) <= Cardinality(D)
    BY <2>2, FS_Subset
  <2>4. Cardinality(D \ {line}) \in Nat /\ Cardinality(D) \in Nat /\ Misses \in Nat
    BY <2>2, <2>3, FS_CardinalityType, BertiSizes
  <2>5. Cardinality(D \ {line}) <= Misses
    BY <2>2, <2>3, <2>4
  <2>. QED BY <2>1, <2>2, <2>3, <2>5 DEF MissesOK, D
<1>19. TimedIn(berti', Pending(mshr', waiting) \cup FillsOf(pq), now)
  BY <1>4, <1>16, <1>17, <1>18 DEF OnlyDeltas, TimedIn, Pending
<1>20. Apart(berti') /\ Shadows(berti', blocks') /\ HistorySeen((berti').history, seen)
  BY <1>4, <1>15, <1>16, <1>17 DEF OnlyDeltas, Apart, Shadows
<1>21. BertiSound(berti, pq, Pending(mshr, waiting), seen)'
  BY <1>4, <1>15, <1>17, <1>19, <1>20 DEF BertiSound
<1>22. ClockAndLines'
  BY <1>3, <1>5, <1>15 DEF ClockAndLines
<1>. QED BY <1>3, <1>15, <1>17, <1>18, <1>21, <1>22 DEF BertiIInv

LEMMA InitBertiIInv == BertiInit => BertiIInv
<1>. SUFFICES ASSUME BertiInit PROVE BertiIInv
  OBVIOUS
<1>1. /\ berti = NewBerti /\ now = FirstCycle /\ blocks = [f \in Frames |-> 0]
      /\ mshr = << >> /\ waiting = {} /\ pq = << >>
      /\ program \in Programs /\ seen = {} /\ lesson = NoLesson
  BY DEF BertiInit
<1>2. ClockAndLines
  BY <1>1, BertiAssumption DEF ClockAndLines, SeenOK
<1>3. IsFiniteSet({}) /\ Cardinality({}) = 0
  BY FS_EmptySet
<1>4. MissesOK(mshr)
  <2>1. DOMAIN mshr = {}
    BY <1>1
  <2>2. mshr \in [{} -> BOOLEAN]
    BY <1>1
  <2>. QED BY <1>3, <2>1, <2>2, BertiSizes DEF MissesOK
<1>5. RequestsOK(waiting)
  BY <1>1, <1>3, BertiSizes DEF RequestsOK
<1>6. program \in Seq(DemandsMade)
  <2>1. [tag : Tags, line : Lines] \subseteq DemandsMade
    BY BertiAssumption DEF DemandsMade
  <2>2. program \in Seq([tag : Tags, line : Lines])
    BY <1>1, BertiAssumption
  <2>. DEFINE D == [tag : Tags, line : Lines]
  <2>. HIDE DEF D
  <2>3. D \subseteq DemandsMade /\ program \in Seq(D)
    BY <2>1, <2>2 DEF D
  <2>. QED BY <2>3
<1>7. QueueOK(pq)
  BY <1>1, BertiSizes DEF QueueOK
<1>8. Tables(berti)
  <2>. DEFINE H == [s \in {0, 1} |->
                    [at |-> 1, entry |-> [k \in 1 .. HistoryWays |->
                                            [tag |-> 0, line |-> 0, time |-> 0]]]]
              W == [f \in Frames |-> [line |-> 0, pf |-> FALSE, lat |-> 0]]
  <2>1. berti = [latency |-> << >>, shadow |-> W, history |-> H,
                 table |-> << >>, fifo |-> << >>, failed |-> FALSE]
    BY <1>1 DEF NewBerti
  <2>2. [tag |-> 0, line |-> 0, time |-> 0] \in HistoryEntries
    BY DEF HistoryEntries
  <2>3. H \in [{0, 1} -> HistoryRings]
    BY <2>2, BertiSizes DEF HistoryRings
  <2>4. W \in [Frames -> ShadowEntries]
    BY DEF ShadowEntries
  <2>. HIDE DEF H, W
  <2>5. FifoOK(<< >>, << >>)
    BY BertiSizes DEF FifoOK
  <2>6. << >> \in [DOMAIN << >> -> LatencyEntries]
    OBVIOUS
  <2>. QED BY <2>1, <2>3, <2>4, <2>5, <2>6 DEF Tables
<1>9. /\ DOMAIN berti.latency = {}
      /\ \A f \in Frames : berti.shadow[f].line = 0
      /\ \A s \in {0, 1} : \A k \in 1 .. HistoryWays : berti.history[s].entry[k].tag = 0
  <2>. DEFINE H == [s \in {0, 1} |->
                    [at |-> 1, entry |-> [k \in 1 .. HistoryWays |->
                                            [tag |-> 0, line |-> 0, time |-> 0]]]]
              W == [f \in Frames |-> [line |-> 0, pf |-> FALSE, lat |-> 0]]
  <2>1. berti = [latency |-> << >>, shadow |-> W, history |-> H,
                 table |-> << >>, fifo |-> << >>, failed |-> FALSE]
    BY <1>1 DEF NewBerti
  <2>2. /\ \A f \in Frames : W[f].line = 0
        /\ \A s \in {0, 1} : \A k \in 1 .. HistoryWays : H[s].entry[k].tag = 0
    OBVIOUS
  <2>. HIDE DEF H, W
  <2>3. berti.latency = << >> /\ berti.shadow = W /\ berti.history = H
    BY <2>1
  <2>. QED BY <2>2, <2>3
<1>10. BertiSound(berti, pq, Pending(mshr, waiting), seen)
  BY <1>1, <1>7, <1>8, <1>9 DEF BertiSound, TimedIn, Apart, Shadows, HistorySeen, Recalled
<1>11. Timely(lesson, seen)
  BY <1>1, NothingLearned
<1>. QED BY <1>2, <1>4, <1>5, <1>6, <1>10, <1>11 DEF BertiIInv

LEMMA BertiAlways == BertiSpec => []BertiIInv
<1>1. BertiIInv /\ [BertiNext]_bertiVars => BertiIInv'
  <2>. SUFFICES ASSUME BertiIInv, [BertiNext]_bertiVars PROVE BertiIInv'
    OBVIOUS
  <2>1. CASE Arrive
    BY <2>1, ArriveKeeps
  <2>2. CASE Retry
    BY <2>2, RetryKeeps
  <2>3. CASE StartPrefetch
    BY <2>3, StartPrefetchKeeps
  <2>4. CASE FrameFilled
    BY <2>4, FrameFilledKeeps
  <2>5. CASE Tick
    BY <2>5, TickKeeps
  <2>6. CASE UNCHANGED bertiVars
    BY <2>6 DEF bertiVars, BertiIInv, ClockAndLines, BertiSound
  <2>. QED BY <2>1, <2>2, <2>3, <2>4, <2>5, <2>6 DEF BertiNext
<1>. QED BY InitBertiIInv, <1>1, PTL DEF BertiSpec

\* NothingLeaks: whatever the cache joins, keeps waiting, starts and fills, no assertion of
\* the prefetcher fails, every timed line belongs to a request that is still in the cache,
\* and the shadow cache holds the lines of the cache.
THEOREM BertiLeaksNothing == RunSpec => []NothingLeaks
<1>1. RunSpec => BertiSpec
  <2>1. RunInit => BertiInit
    BY DEF RunInit
  <2>2. RunNext => BertiNext \/ UNCHANGED bertiVars
    BY DEF RunNext
  <2>3. UNCHANGED <<part, bertiVars, sppVars, strideVars, ampmVars, replVars>>
            => UNCHANGED bertiVars
    OBVIOUS
  <2>4. [RunNext]_<<part, bertiVars, sppVars, strideVars, ampmVars, replVars>>
            => [BertiNext]_bertiVars
    BY <2>2, <2>3
  <2>. QED BY <2>1, <2>4, PTL DEF RunSpec, BertiSpec
<1>2. BertiIInv => NothingLeaks
  BY DEF BertiIInv, BertiSound, Tables, TimedIn, Shadows, Pending, LinesOf, FillsOf,
         NothingLeaks
<1>. QED BY <1>1, <1>2, BertiAlways, PTL

\* LearnsOnlyTimely: each delta that Berti learns leads back to an access of the same
\* instruction, as long before as the line took to come, although the tables keep times
\* only up to a turn of the clock.
THEOREM BertiLearnsOnlyTimely == RunSpec => []LearnsOnlyTimely
<1>1. RunSpec => BertiSpec
  <2>1. RunInit => BertiInit
    BY DEF RunInit
  <2>2. RunNext => BertiNext \/ UNCHANGED bertiVars
    BY DEF RunNext
  <2>3. UNCHANGED <<part, bertiVars, sppVars, strideVars, ampmVars, replVars>>
            => UNCHANGED bertiVars
    OBVIOUS
  <2>4. [RunNext]_<<part, bertiVars, sppVars, strideVars, ampmVars, replVars>>
            => [BertiNext]_bertiVars
    BY <2>2, <2>3
  <2>. QED BY <2>1, <2>4, PTL DEF RunSpec, BertiSpec
<1>2. BertiIInv => LearnsOnlyTimely
  BY DEF BertiIInv, Timely, LearnsOnlyTimely
<1>. QED BY <1>1, <1>2, BertiAlways, PTL

-----------------------------------------------------------------------------
(***************************************************************************)
(* The replacement policies                                                *)
(***************************************************************************)

\* The fields of repl; only the case and the ages matter here.
IsState(r) ==
    r = [case |-> r.case, age |-> r.age, bip |-> r.bip, psel |-> r.psel,
         shct |-> r.shct, sampler |-> r.sampler]

\* The ages of a set: the cycle of the last use for LRU, else a count up to MaxRrpv.
Ages == IF Policy = "lru" THEN 0 .. cycle ELSE 0 .. MaxRrpv

ReplacementTypeOK ==
    /\ IsState(repl)
    /\ repl.case \in CacheCases
    /\ cycle \in Nat
    /\ repl.age \in [CacheSets -> [WaysOfSet -> Ages]]
    /\ proven = [unhit |-> proven.unhit, fresh |-> proven.fresh, over |-> proven.over,
                 betrayed |-> proven.betrayed]
    /\ proven.unhit \in [CacheSets -> SUBSET WaysOfSet]
    /\ proven.fresh \in [CacheSets -> SUBSET WaysOfSet]
    /\ proven.over \subseteq CacheSets \X WaysOfSet \X WaysOfSet
    /\ held \in [CacheSets -> [WaysOfSet -> Nat]]

\* The victim is sought among the ways like u before those like w.
Sooner(s, u, w) ==
    IF Policy = "lru" THEN repl.age[s][u] < repl.age[s][w]
    ELSE repl.age[s][w] < repl.age[s][u]

\* A block never hit looks old, as soon as its cycle is over.
UnhitLooksOld ==
    \A s \in CacheSets : \A u \in proven.unhit[s] :
        IF Policy = "lru" THEN u \notin proven.fresh[s] => repl.age[s][u] < cycle
        ELSE repl.age[s][u] > 0

\* A block that was hit is held, and the victim after those it was hit over.
OverIsOrdered ==
    \A s \in CacheSets : \A w, u \in WaysOfSet :
        <<s, w, u>> \in proven.over => held[s][w] # 0 /\ Sooner(s, u, w)

IInv ==
    /\ ReplacementTypeOK
    /\ Policy # "drrip" => UnhitLooksOld /\ OverIsOrdered /\ KeepsProven

\* The first way whose value is the least.
LEMMA FirstLeast ==
    ASSUME NEW n \in Nat \ {0}, NEW a \in [1 .. n -> Nat]
    PROVE  \E w \in 1 .. n : \A v \in 1 .. n :
               a[w] < a[v] \/ (a[w] = a[v] /\ w <= v)
<1>. DEFINE V == {a[w] : w \in 1 .. n}
<1>1. PICK x \in V : \A y \in V : x <= y
  <2>1. V \subseteq Nat /\ a[1] \in V
    OBVIOUS
  <2>. HIDE DEF V
  <2>. QED BY <2>1, Least
<1>. DEFINE W == {w \in 1 .. n : a[w] = x}
<1>2. PICK w \in W : \A v \in W : w <= v
  <2>1. W \subseteq Nat /\ W # {}
    OBVIOUS
  <2>. HIDE DEF W
  <2>. QED BY <2>1, Least
<1>3. \A v \in 1 .. n : x <= a[v]
  BY <1>1
<1>4. ASSUME NEW v \in 1 .. n PROVE a[w] < a[v] \/ (a[w] = a[v] /\ w <= v)
  <2>1. a[w] = x /\ x \in Nat /\ a[v] \in Nat
    OBVIOUS
  <2>2. CASE a[v] = x
    BY <1>2, <2>1, <2>2
  <2>3. CASE a[v] # x
    BY <1>3, <2>1, <2>3
  <2>. QED BY <2>2, <2>3
<1>. QED BY <1>4

LEMMA OldestIsLeast ==
    ASSUME NEW n \in Nat \ {0}, NEW a \in [1 .. n -> Nat]
    PROVE  /\ Oldest(a) \in 1 .. n
           /\ \A v \in 1 .. n : \/ a[Oldest(a)] < a[v]
                                \/ a[Oldest(a)] = a[v] /\ Oldest(a) <= v
<1>1. DOMAIN a = 1 .. n
  OBVIOUS
<1>. QED BY <1>1, FirstLeast DEF Oldest

LEMMA FurthestIsMost ==
    ASSUME NEW n \in Nat \ {0}, NEW m \in Nat, NEW a \in [1 .. n -> 0 .. m]
    PROVE  /\ Furthest(a) \in 1 .. n
           /\ \A v \in 1 .. n : \/ a[v] < a[Furthest(a)]
                                \/ a[Furthest(a)] = a[v] /\ Furthest(a) <= v
<1>. DEFINE b == [w \in 1 .. n |-> m - a[w]]
<1>1. b \in [1 .. n -> Nat]
  OBVIOUS
<1>2. PICK w \in 1 .. n : \A v \in 1 .. n : b[w] < b[v] \/ (b[w] = b[v] /\ w <= v)
  <2>. HIDE DEF b
  <2>. QED BY <1>1, FirstLeast
<1>3. \A v \in 1 .. n : a[v] < a[w] \/ (a[w] = a[v] /\ w <= v)
  <2>1. SUFFICES ASSUME NEW v \in 1 .. n
        PROVE a[v] < a[w] \/ (a[w] = a[v] /\ w <= v)
    OBVIOUS
  <2>2. b[w] = m - a[w] /\ b[v] = m - a[v] /\ a[w] \in Int /\ a[v] \in Int
    OBVIOUS
  <2>3. b[w] < b[v] \/ (b[w] = b[v] /\ w <= v)
    BY <1>2
  <2>. HIDE DEF b
  <2>. QED BY <2>2, <2>3
<1>4. DOMAIN a = 1 .. n
  OBVIOUS
<1>. QED BY <1>3, <1>4 DEF Furthest

-----------------------------------------------------------------------------
\* What an update makes of the age of the way.
MayBecome(old, new, hit, write) ==
    \/ Policy = "lru"   /\ new = IF hit /\ write THEN old ELSE cycle
    \/ Policy = "srrip" /\ new = IF hit THEN 0 ELSE MaxRrpv - 1
    \/ Policy = "drrip" /\ new \in {old, 0, MaxRrpv - 1, MaxRrpv}
    \/ Policy = "ship"  /\ IF hit THEN new = IF write THEN old ELSE 0
                           ELSE new \in {MaxRrpv - 1, MaxRrpv}

\* q is r with another age for one way of a set.
OnlyAge(q, r, s, w, new) ==
    IsState(q) /\ q.case = r.case /\ q.age = [r.age EXCEPT ![s][w] = new]

LEMMA AgeChanged ==
    ASSUME NEW r, NEW x, IsState(x), x.case = r.case, x.age = r.age,
           NEW s, NEW w, NEW new
    PROVE  OnlyAge([x EXCEPT !.age[s][w] = new], r, s, w, new)
BY DEF IsState, OnlyAge

\* Nor does it matter what else was changed before.
LEMMA SampledKeepsAges ==
    ASSUME NEW r, IsState(r), NEW s, NEW region, NEW ip
    PROVE  /\ IsState(Sampled(r, s, region, ip))
           /\ Sampled(r, s, region, ip).case = r.case
           /\ Sampled(r, s, region, ip).age = r.age
BY DEF IsState, Sampled

LEMMA UpdatedAge ==
    ASSUME NEW r, IsState(r), r.case = repl.case, repl.case \in CacheCases,
           r.age \in [CacheSets -> [WaysOfSet -> Int]],
           NEW s \in CacheSets, NEW w \in WaysOfSet, NEW region, NEW ip,
           NEW hit \in BOOLEAN, NEW write \in BOOLEAN
    PROVE  \E new : /\ MayBecome(r.age[s][w], new, hit, write)
                    /\ OnlyAge(StateUpdated(r, s, w, region, ip, hit, write), r, s, w, new)
<1>. DEFINE old == r.age[s][w]
            q == StateUpdated(r, s, w, region, ip, hit, write)
            Becomes(new) == MayBecome(old, new, hit, write) /\ OnlyAge(q, r, s, w, new)
<1>. SUFFICES \E new : Becomes(new)
  OBVIOUS
<1>. HIDE DEF q
<1>0. OnlyAge(r, r, s, w, old)
  BY DEF OnlyAge, IsState
<1>1. CASE Policy = "lru"
  <2>1. CASE hit /\ write
    BY <1>0, <1>1, <2>1 DEF q, StateUpdated, LruUpdated, MayBecome
  <2>2. CASE ~(hit /\ write)
    <3>1. q = [r EXCEPT !.age[s][w] = cycle]
      BY <1>1, <2>2 DEF q, StateUpdated, LruUpdated
    <3>2. Becomes(cycle)
      BY <1>1, <2>2, <3>1, AgeChanged DEF MayBecome
    <3>. QED BY <3>2
  <2>. QED BY <2>1, <2>2
<1>2. CASE Policy = "srrip"
  <2>. DEFINE new == IF hit THEN 0 ELSE MaxRrpv - 1
  <2>1. q = [r EXCEPT !.age[s][w] = new]
    BY <1>2 DEF q, StateUpdated, SrripUpdated
  <2>2. Becomes(new)
    BY <1>2, <2>1, AgeChanged DEF MayBecome
  <2>. QED BY <2>2
<1>3. CASE Policy = "drrip"
  <2>0. q = DrripUpdated(r, s, w, hit, write)
    BY <1>3 DEF q, StateUpdated
  <2>1. ASSUME NEW x, IsState(x), x.case = r.case, x.age = r.age
        PROVE  \E new \in {MaxRrpv - 1, MaxRrpv} : OnlyAge(Bimodal(x, s, w), r, s, w, new)
    <3>. DEFINE new == IF x.bip + 1 = BipMax THEN MaxRrpv - 1 ELSE MaxRrpv
                y == [x EXCEPT !.bip = (@ + 1) % BipMax]
    <3>1. Bimodal(x, s, w) = [y EXCEPT !.age[s][w] = new]
      BY DEF Bimodal
    <3>2. IsState(y) /\ y.case = r.case /\ y.age = r.age
      BY <2>1 DEF IsState
    <3>3. new \in {MaxRrpv - 1, MaxRrpv}
      OBVIOUS
    <3>. HIDE DEF new, y
    <3>4. OnlyAge(Bimodal(x, s, w), r, s, w, new)
      <4>. DEFINE z == [y EXCEPT !.age[s][w] = new]
      <4>1. OnlyAge(z, r, s, w, new)
        BY ONLY <3>2, AgeChanged
      <4>. HIDE DEF z
      <4>. QED BY <3>1, <4>1 DEF z
    <3>. QED BY <3>3, <3>4
  <2>2. ASSUME NEW psel
        PROVE  LET x == [r EXCEPT !.psel = psel]
               IN  IsState(x) /\ x.case = r.case /\ x.age = r.age
    BY DEF IsState
  <2>3. CASE write \/ hit
    <3>. DEFINE new == IF write THEN MaxRrpv - 1 ELSE 0
    <3>1. q = [r EXCEPT !.age[s][w] = new]
      BY <2>0, <2>3 DEF DrripUpdated
    <3>2. Becomes(new)
      BY <1>3, <3>1, AgeChanged DEF MayBecome
    <3>. QED BY <3>2
  <2>4. CASE ~(write \/ hit)
    <3>1. RoleOf(s) \in DrripRoles
      BY <1>3, ReplacementAssumption DEF RoleOf, Policy, CacheSets
    <3>2. CASE RoleOf(s) = "bip leader"
      BY <1>3, <2>0, <2>1, <2>2, <2>4, <3>2 DEF DrripUpdated, MayBecome
    <3>3. CASE RoleOf(s) = "srrip leader"
      <4>. DEFINE x == [r EXCEPT !.psel = Increment(@)]
      <4>1. q = [x EXCEPT !.age[s][w] = MaxRrpv - 1]
        BY <2>0, <2>4, <3>3 DEF DrripUpdated
      <4>2. IsState(x) /\ x.case = r.case /\ x.age = r.age
        BY <2>2
      <4>. HIDE DEF x
      <4>3. OnlyAge(q, r, s, w, MaxRrpv - 1)
        BY <4>1, <4>2, AgeChanged
      <4>. QED BY <1>3, <4>3 DEF MayBecome
    <3>4. CASE RoleOf(s) = "leader"
      BY <1>0, <1>3, <2>0, <2>4, <3>4 DEF DrripUpdated, MayBecome
    <3>5. CASE RoleOf(s) = "follower"
      <4>1. CASE r.psel > PselMax \div 2
        BY <1>3, <2>0, <2>1, <2>4, <3>5, <4>1 DEF DrripUpdated, MayBecome
      <4>2. CASE ~(r.psel > PselMax \div 2)
        <5>1. q = [r EXCEPT !.age[s][w] = MaxRrpv - 1]
          BY <2>0, <2>4, <3>5, <4>2 DEF DrripUpdated
        <5>2. Becomes(MaxRrpv - 1)
          BY <1>3, <5>1, AgeChanged DEF MayBecome
        <5>. QED BY <5>2
      <4>. QED BY <4>1, <4>2
    <3>. QED BY <3>1, <3>2, <3>3, <3>4, <3>5 DEF DrripRoles
  <2>. QED BY <2>3, <2>4
<1>4. CASE Policy = "ship"
  <2>0. q = ShipUpdated(r, s, w, region, ip, hit, write)
    BY <1>4 DEF q, StateUpdated
  <2>1. CASE write /\ hit
    BY <1>0, <1>4, <2>0, <2>1 DEF ShipUpdated, MayBecome
  <2>2. CASE write /\ ~hit
    <3>1. q = [r EXCEPT !.age[s][w] = MaxRrpv - 1]
      BY <2>0, <2>2 DEF ShipUpdated
    <3>2. Becomes(MaxRrpv - 1)
      BY <1>4, <2>2, <3>1, AgeChanged DEF MayBecome
    <3>. QED BY <3>2
  <2>3. CASE ~write
    <3>. DEFINE x == Sampled(r, s, region, ip)
                new == IF hit THEN 0
                       ELSE IF x.shct[ip] = ShctMax THEN MaxRrpv ELSE MaxRrpv - 1
    <3>1. q = [x EXCEPT !.age[s][w] = new]
      BY <2>0, <2>3 DEF ShipUpdated
    <3>2. IsState(x) /\ x.case = r.case /\ x.age = r.age
      BY SampledKeepsAges
    <3>3. MayBecome(old, new, hit, write)
      BY <1>4, <2>3 DEF MayBecome
    <3>. HIDE DEF x, new
    <3>4. OnlyAge(q, r, s, w, new)
      BY <3>1, <3>2, AgeChanged
    <3>. QED BY <3>3, <3>4
  <2>. QED BY <2>1, <2>2, <2>3
<1>. QED BY <1>1, <1>2, <1>3, <1>4, ReplacementAssumption DEF Policy

-----------------------------------------------------------------------------
\* r is repl with the ways of s aged together.
AgedBy(r, s, d) ==
    /\ IsState(r) /\ r.case = repl.case
    /\ r.age \in [CacheSets -> [WaysOfSet -> Ages]]
    /\ d \in Nat
    /\ Policy # "drrip" =>
        \A t \in CacheSets : \A v \in WaysOfSet :
            r.age[t][v] = repl.age[t][v] + IF t = s /\ Policy # "lru" THEN d ELSE 0

LEMMA NotAged ==
    ASSUME ReplacementTypeOK, NEW s
    PROVE  AgedBy(repl, s, 0)
<1>1. \A t \in CacheSets : \A v \in WaysOfSet : repl.age[t][v] \in Int
  BY DEF ReplacementTypeOK, Ages
<1>. QED BY <1>1 DEF AgedBy, ReplacementTypeOK

\* What is known of the case and of the ages of a set.
LEMMA SetFacts ==
    ASSUME ReplacementTypeOK, NEW s \in CacheSets
    PROVE  /\ repl.case.ways \in Nat \ {0}
           /\ repl.age[s] \in [1 .. repl.case.ways -> Nat]
           /\ Policy # "lru" => repl.age[s] \in [1 .. repl.case.ways -> 0 .. MaxRrpv]
           /\ MaxRrpv \in Nat /\ MaxRrpv > 1 /\ cycle \in Nat
BY ReplacementAssumption DEF ReplacementTypeOK, Ages, WaysOfSet

LEMMA VictimIsWay ==
    ASSUME ReplacementTypeOK, NEW s \in CacheSets
    PROVE  Victim(s) \in WaysOfSet
BY SetFacts, OldestIsLeast, FurthestIsMost DEF Victim, WaysOfSet

\* A way that is sooner than another is not what the victim search returns.
LEMMA VictimIsSoonest ==
    ASSUME ReplacementTypeOK, NEW s \in CacheSets, NEW u \in WaysOfSet
    PROVE  ~Sooner(s, u, Victim(s))
<1>. DEFINE n == repl.case.ways
            a == repl.age[s]
<1>1. /\ n \in Nat \ {0} /\ WaysOfSet = 1 .. n /\ MaxRrpv \in Nat
      /\ a \in [1 .. n -> Nat]
      /\ Policy # "lru" => a \in [1 .. n -> 0 .. MaxRrpv]
  BY SetFacts DEF WaysOfSet
<1>2. /\ Victim(s) = IF Policy = "lru" THEN Oldest(a) ELSE Furthest(a)
      /\ Sooner(s, u, Victim(s)) <=> IF Policy = "lru" THEN a[u] < a[Victim(s)]
                                     ELSE a[Victim(s)] < a[u]
  BY DEF Victim, Sooner
<1>. HIDE DEF a, n
<1>3. a[u] \in Nat
  BY <1>1
<1>4. CASE Policy = "lru"
  <2>1. /\ Oldest(a) \in 1 .. n
        /\ \A v \in 1 .. n : \/ a[Oldest(a)] < a[v]
                             \/ a[Oldest(a)] = a[v] /\ Oldest(a) <= v
    BY <1>1, OldestIsLeast
  <2>. QED BY <1>1, <1>2, <1>3, <1>4, <2>1
<1>5. CASE Policy # "lru"
  <2>1. /\ Furthest(a) \in 1 .. n
        /\ \A v \in 1 .. n : \/ a[v] < a[Furthest(a)]
                             \/ a[Furthest(a)] = a[v] /\ Furthest(a) <= v
    BY <1>1, <1>5, FurthestIsMost
  <2>. QED BY <1>1, <1>2, <1>3, <1>5, <2>1
<1>. QED BY <1>4, <1>5

\* The search for a victim ages all ways by the same, and DRRIP some of them.
LEMMA VictimAges ==
    ASSUME ReplacementTypeOK, NEW s \in CacheSets
    PROVE  \E d : AgedBy(VictimsAged(s), s, d)
<1>. DEFINE a == repl.age[s]
            f == Furthest(a)
            d == MaxRrpv - a[f]
<1>1. CASE Policy = "lru"
  BY <1>1, NotAged DEF VictimsAged
<1>2. CASE Policy # "lru"
  <2>1. f \in WaysOfSet /\ \A v \in WaysOfSet : a[v] \in 0 .. MaxRrpv /\ a[v] <= a[f]
    <3>. DEFINE n == repl.case.ways
    <3>1. /\ n \in Nat \ {0} /\ WaysOfSet = 1 .. n /\ MaxRrpv \in Nat
          /\ a \in [1 .. n -> 0 .. MaxRrpv]
      BY <1>2, SetFacts DEF WaysOfSet
    <3>. HIDE DEF a, n
    <3>2. /\ f \in 1 .. n
          /\ \A v \in 1 .. n : a[v] < a[f] \/ (a[f] = a[v] /\ f <= v)
      BY <3>1, FurthestIsMost DEF f
    <3>. QED BY <3>1, <3>2
  <2>2. d \in Nat /\ \A v \in WaysOfSet : a[v] + d \in 0 .. MaxRrpv
    <3>1. MaxRrpv \in Nat /\ a[f] \in 0 .. MaxRrpv
      BY <2>1, SetFacts
    <3>. HIDE DEF a, f
    <3>. QED BY <2>1, <3>1
  <2>3. DOMAIN a = WaysOfSet /\ \A v \in WaysOfSet : a[v] + MaxRrpv - a[f] = a[v] + d
    <3>1. MaxRrpv \in Int /\ \A v \in WaysOfSet : a[v] \in Int
      BY <2>1, SetFacts
    <3>2. \A v \in WaysOfSet : a[v] + MaxRrpv - a[f] = a[v] + d
      <4>. HIDE DEF a
      <4>. QED BY <2>1, <3>1
    <3>3. DOMAIN a = WaysOfSet
      BY <2>1, SetFacts DEF WaysOfSet
    <3>. QED BY <3>2, <3>3
  <2>4. repl.age \in [CacheSets -> [WaysOfSet -> 0 .. MaxRrpv]]
    BY <1>2 DEF ReplacementTypeOK, Ages
  <2>5. IsState(repl) /\ a = repl.age[s]
    BY DEF ReplacementTypeOK
  <2>. HIDE DEF d, f, a
  <2>6. CASE Policy = "drrip"
    <3>. DEFINE b == AgedUpToVictim(a)
    <3>1. b \in [WaysOfSet -> 0 .. MaxRrpv]
      BY <2>1, <2>2, <2>3 DEF AgedUpToVictim, f
    <3>2. VictimsAged(s) = [repl EXCEPT !.age[s] = b]
      BY <2>5, <2>6 DEF VictimsAged
    <3>. HIDE DEF b
    <3>3. IsState(VictimsAged(s)) /\ VictimsAged(s).case = repl.case
          /\ VictimsAged(s).age = [repl.age EXCEPT ![s] = b]
      BY <2>5, <3>2 DEF IsState
    <3>4. AgedBy(VictimsAged(s), s, d)
      BY <1>2, <2>2, <2>4, <2>6, <3>1, <3>3 DEF AgedBy, Ages
    <3>. QED BY <3>4
  <2>7. CASE Policy # "drrip"
    <3>. DEFINE b == [v \in WaysOfSet |-> a[v] + d]
    <3>1. b \in [WaysOfSet -> 0 .. MaxRrpv]
      BY <2>2
    <3>2. AllAged(a) = b
      BY <2>3 DEF AllAged, f
    <3>3. VictimsAged(s) = [repl EXCEPT !.age[s] = b]
      BY <1>2, <2>5, <2>7, <3>2 DEF VictimsAged
    <3>4. \A v \in WaysOfSet : b[v] = a[v] + d
      OBVIOUS
    <3>. HIDE DEF b
    <3>5. IsState(VictimsAged(s)) /\ VictimsAged(s).case = repl.case
          /\ VictimsAged(s).age = [repl.age EXCEPT ![s] = b]
      BY <2>5, <3>3 DEF IsState
    <3>6. \A t \in CacheSets : \A v \in WaysOfSet :
            VictimsAged(s).age[t][v] = repl.age[t][v] + IF t = s THEN d ELSE 0
      BY <2>4, <2>5, <3>4, <3>5
    <3>7. VictimsAged(s).age \in [CacheSets -> [WaysOfSet -> Ages]]
      BY <1>2, <2>4, <3>1, <3>5 DEF Ages
    <3>8. AgedBy(VictimsAged(s), s, d)
      BY <1>2, <2>2, <3>5, <3>6, <3>7 DEF AgedBy
    <3>. QED BY <3>8
  <2>. QED BY <2>6, <2>7
<1>. QED BY <1>1, <1>2

-----------------------------------------------------------------------------
LEMMA InitIInv == ReplacementInit => IInv
<1>. SUFFICES ASSUME ReplacementInit PROVE IInv
  OBVIOUS
<1>1. PICK c \in CacheCases :
        /\ repl = NewReplacement(c)
        /\ held = [s \in DOMAIN c.roles |-> [w \in 1 .. c.ways |-> 0]]
        /\ proven = [unhit |-> [s \in DOMAIN c.roles |-> {}],
                     fresh |-> [s \in DOMAIN c.roles |-> {}], over |-> {}, betrayed |-> FALSE]
  BY DEF ReplacementInit
<1>2. /\ IsState(repl) /\ repl.case = c
      /\ repl.age = [s \in DOMAIN c.roles |->
                        [w \in 1 .. c.ways |->
                            IF c.policy \in {"srrip", "ship"} THEN MaxRrpv ELSE 0]]
  BY <1>1 DEF NewReplacement, IsState
<1>3. cycle = 1
  BY DEF ReplacementInit
<1>4. ReplacementTypeOK
  <2>1. MaxRrpv \in Nat
    BY ReplacementAssumption
  <2>2. repl.age \in [CacheSets -> [WaysOfSet -> Ages]]
    BY <1>2, <1>3, <2>1 DEF Ages, Policy, CacheSets, WaysOfSet
  <2>. QED BY <1>1, <1>2, <1>3, <2>2 DEF ReplacementTypeOK, CacheSets, WaysOfSet
<1>5. UnhitLooksOld /\ OverIsOrdered /\ KeepsProven
  BY <1>1, <1>2 DEF UnhitLooksOld, OverIsOrdered, KeepsProven, CacheSets
<1>. QED BY <1>4, <1>5 DEF IInv

\* A write that hits may leave everything as it is; any other hit, but those of
\* DRRIP, makes the block the last to go.
LEMMA HitKeepsIInv ==
    ASSUME IInv, NEW s \in CacheSets, NEW w \in WaysOfSet, NEW ip,
           NEW write \in BOOLEAN, Hit(s, w, ip, write)
    PROVE  IInv'
<1>1. PICK new : /\ MayBecome(repl.age[s][w], new, TRUE, write)
                 /\ OnlyAge(repl', repl, s, w, new)
  <2>1. repl.age \in [CacheSets -> [WaysOfSet -> Int]]
    BY DEF IInv, ReplacementTypeOK, Ages
  <2>. QED BY <2>1, UpdatedAge DEF Hit, IInv, ReplacementTypeOK
<1>2. /\ repl'.case = repl.case /\ IsState(repl)'
      /\ repl'.age = [repl.age EXCEPT ![s][w] = new]
      /\ UNCHANGED <<Policy, CacheSets, WaysOfSet, Ages, held, cycle>>
  BY <1>1 DEF OnlyAge, Hit, Policy, CacheSets, WaysOfSet, Ages, IsState
<1>3. /\ MaxRrpv \in Nat /\ MaxRrpv > 1 /\ cycle \in Nat
      /\ repl.age \in [CacheSets -> [WaysOfSet -> Ages]]
      /\ \A t \in CacheSets : \A v \in WaysOfSet : repl.age[t][v] \in Nat
  BY ReplacementAssumption DEF IInv, ReplacementTypeOK, Ages
<1>4. new \in Ages
  BY <1>1, <1>3 DEF MayBecome, Ages
<1>5. repl'.age \in [CacheSets -> [WaysOfSet -> Ages]]
  BY <1>2, <1>3, <1>4
<1>6. \A t \in CacheSets : \A v \in WaysOfSet :
        repl'.age[t][v] = IF t = s /\ v = w THEN new ELSE repl.age[t][v]
  BY <1>2, <1>3
<1>. DEFINE used == ~write \/ Policy = "srrip"
            more == {<<s, w, u>> : u \in (proven.unhit[s] \ proven.fresh[s]) \ {w}}
<1>7. CASE used
  <2>1. /\ proven' = [unhit |-> proven'.unhit, fresh |-> proven'.fresh, over |-> proven'.over,
                      betrayed |-> proven'.betrayed]
        /\ proven'.unhit = [proven.unhit EXCEPT ![s] = @ \ {w}]
        /\ proven'.over = {p \in proven.over : p[1] # s \/ p[3] # w} \cup more
        /\ proven'.fresh = proven.fresh /\ proven'.betrayed = proven.betrayed
    BY <1>7 DEF Hit, IInv, ReplacementTypeOK
  <2>2. ReplacementTypeOK'
    <3>1. more \subseteq CacheSets \X WaysOfSet \X WaysOfSet
      BY DEF IInv, ReplacementTypeOK
    <3>. HIDE DEF more
    <3>. QED BY <1>2, <1>5, <2>1, <3>1 DEF IInv, ReplacementTypeOK
  <2>. SUFFICES ASSUME Policy # "drrip" PROVE UnhitLooksOld' /\ OverIsOrdered' /\ KeepsProven'
    BY <1>2, <2>2 DEF IInv
  <2>3. UnhitLooksOld /\ OverIsOrdered /\ KeepsProven /\ ReplacementTypeOK
    BY DEF IInv
  <2>4. new = IF Policy = "lru" THEN cycle ELSE 0
    BY <1>1, <1>7 DEF MayBecome
  <2>5. \A t \in CacheSets : \A u \in proven'.unhit[t] :
            u \in proven.unhit[t] /\ u \in WaysOfSet /\ (t # s \/ u # w)
    BY <2>1, <2>3 DEF ReplacementTypeOK
  <2>6. UnhitLooksOld'
    BY <1>2, <1>6, <2>1, <2>3, <2>5 DEF UnhitLooksOld
  <2>7. ASSUME NEW t \in CacheSets, NEW x \in WaysOfSet, NEW u \in WaysOfSet,
               <<t, x, u>> \in proven'.over
        PROVE  held[t][x] # 0 /\ Sooner(t, u, x)'
    <3>1. CASE <<t, x, u>> \in proven.over /\ (t # s \/ u # w)
      <4>1. held[t][x] # 0 /\ Sooner(t, u, x)
        BY <2>3, <3>1 DEF OverIsOrdered
      <4>2. repl'.age[t][u] = repl.age[t][u] /\ repl.age[t][u] \in Ages
        BY <1>3, <1>6, <3>1
      <4>3. repl'.age[t][x] = IF t = s /\ x = w THEN new ELSE repl.age[t][x]
        BY <1>6
      <4>4. repl.age[t][x] \in Ages
        BY <1>3
      <4>. QED BY <1>2, <1>3, <2>4, <4>1, <4>2, <4>3, <4>4 DEF Sooner, Ages
    <3>2. CASE <<t, x, u>> \in more
      <4>1. t = s /\ x = w /\ u \in proven.unhit[s] /\ u \notin proven.fresh[s] /\ u # w
        BY <3>2
      <4>2. repl'.age[s][u] = repl.age[s][u] /\ repl'.age[s][w] = new
        BY <1>6, <4>1
      <4>3. IF Policy = "lru" THEN repl.age[s][u] < cycle ELSE repl.age[s][u] > 0
        BY <2>3, <4>1 DEF UnhitLooksOld
      <4>4. held[s][w] # 0
        BY DEF Hit
      <4>5. Sooner(t, u, x)' <=> IF Policy = "lru" THEN repl.age[s][u] < new
                                 ELSE new < repl.age[s][u]
        BY <1>2, <4>1, <4>2 DEF Sooner
      <4>. QED BY <1>3, <2>4, <4>1, <4>3, <4>4, <4>5
    <3>3. \/ <<t, x, u>> \in proven.over /\ (t # s \/ u # w)
          \/ <<t, x, u>> \in more
      <4>. HIDE DEF more
      <4>. QED BY <2>1, <2>7
    <3>. QED BY <3>1, <3>2, <3>3
  <2>8. OverIsOrdered'
    BY <1>2, <2>7 DEF OverIsOrdered
  <2>. QED BY <2>1, <2>3, <2>6, <2>8 DEF KeepsProven
<1>8. CASE ~used /\ Policy = "drrip"
  <2>1. /\ proven' = [unhit |-> proven'.unhit, fresh |-> proven'.fresh, over |-> proven'.over,
                      betrayed |-> proven'.betrayed]
        /\ proven'.unhit = proven.unhit /\ proven'.fresh = proven.fresh
        /\ proven'.over \subseteq proven.over
    BY <1>8 DEF Hit, IInv, ReplacementTypeOK
  <2>2. ReplacementTypeOK'
    BY <1>2, <1>5, <2>1 DEF IInv, ReplacementTypeOK
  <2>. QED BY <1>2, <1>8, <2>2 DEF IInv
<1>9. CASE ~used /\ Policy # "drrip"
  <2>1. proven' = proven
    BY <1>9 DEF Hit
  <2>2. new = repl.age[s][w]
    BY <1>1, <1>9 DEF MayBecome
  <2>3. repl'.age = repl.age
    BY <1>2, <1>3, <2>2
  <2>4. ReplacementTypeOK'
    BY <1>2, <1>5, <2>1 DEF IInv, ReplacementTypeOK
  <2>. QED BY <1>2, <1>9, <2>1, <2>3, <2>4
           DEF IInv, UnhitLooksOld, OverIsOrdered, KeepsProven, Sooner
<1>. QED BY <1>7, <1>8, <1>9

\* A fill of a way that was hit over no other, of a set that may have been aged.
LEMMA FilledKeepsIInv ==
    ASSUME IInv, NEW r, NEW d, NEW s \in CacheSets, AgedBy(r, s, d),
           NEW w \in WaysOfSet, NEW region \in Nat \ {0}, NEW ip, NEW write \in BOOLEAN,
           Filled(r, s, w, region, ip, write), UNCHANGED cycle,
           Policy # "drrip" => \A u \in WaysOfSet : <<s, w, u>> \notin proven.over
    PROVE  IInv'
<1>1. PICK new : /\ MayBecome(r.age[s][w], new, FALSE, write)
                 /\ OnlyAge(repl', r, s, w, new)
  <2>1. r.age \in [CacheSets -> [WaysOfSet -> Int]]
    BY DEF AgedBy, Ages, IInv, ReplacementTypeOK
  <2>. QED BY <2>1, UpdatedAge DEF Filled, AgedBy, IInv, ReplacementTypeOK
<1>2. /\ repl'.case = repl.case /\ IsState(repl)'
      /\ repl'.age = [r.age EXCEPT ![s][w] = new]
      /\ UNCHANGED <<Policy, CacheSets, WaysOfSet, Ages>>
  BY <1>1 DEF OnlyAge, AgedBy, Policy, CacheSets, WaysOfSet, Ages, IsState
<1>3. /\ MaxRrpv \in Nat /\ MaxRrpv > 1 /\ cycle \in Nat /\ d \in Nat
      /\ r.age \in [CacheSets -> [WaysOfSet -> Ages]]
      /\ \A t \in CacheSets : \A v \in WaysOfSet : repl.age[t][v] \in Nat
  BY ReplacementAssumption DEF IInv, ReplacementTypeOK, Ages, AgedBy
<1>4. new \in Ages
  BY <1>1, <1>3 DEF MayBecome, Ages
<1>5. repl'.age \in [CacheSets -> [WaysOfSet -> Ages]]
  BY <1>2, <1>3, <1>4
<1>6. /\ proven' = [unhit |-> proven'.unhit, fresh |-> proven'.fresh, over |-> proven'.over,
                    betrayed |-> proven'.betrayed]
      /\ proven'.unhit = [proven.unhit EXCEPT ![s] = @ \cup {w}]
      /\ proven'.fresh = [proven.fresh EXCEPT ![s] = @ \cup {w}]
      /\ proven'.over = {p \in proven.over : p[1] # s \/ w \notin {p[2], p[3]}}
      /\ proven'.betrayed = \E u \in WaysOfSet : <<s, w, u>> \in proven.over
      /\ held' = [held EXCEPT ![s][w] = region]
  BY DEF Filled, IInv, ReplacementTypeOK
<1>7. ReplacementTypeOK'
  <2>1. ReplacementTypeOK
    BY DEF IInv
  <2>2. /\ proven'.unhit \in [CacheSets -> SUBSET WaysOfSet]
        /\ proven'.fresh \in [CacheSets -> SUBSET WaysOfSet]
    BY <1>6, <2>1 DEF ReplacementTypeOK
  <2>3. proven'.over \subseteq CacheSets \X WaysOfSet \X WaysOfSet
    BY <1>6, <2>1 DEF ReplacementTypeOK
  <2>4. held' \in [CacheSets -> [WaysOfSet -> Nat]]
    BY <1>6, <2>1 DEF ReplacementTypeOK
  <2>5. repl'.case \in CacheCases /\ cycle' \in Nat
    BY <1>2, <2>1 DEF ReplacementTypeOK
  <2>6. (proven = [unhit |-> proven.unhit, fresh |-> proven.fresh, over |-> proven.over,
                   betrayed |-> proven.betrayed])'
    BY <1>6
  <2>. QED BY <1>2, <1>5, <2>2, <2>3, <2>4, <2>5, <2>6 DEF ReplacementTypeOK
<1>. SUFFICES ASSUME Policy # "drrip" PROVE UnhitLooksOld' /\ OverIsOrdered' /\ KeepsProven'
  BY <1>2, <1>7 DEF IInv
<1>8. UnhitLooksOld /\ OverIsOrdered /\ ReplacementTypeOK
  BY DEF IInv
<1>9. \A t \in CacheSets : \A v \in WaysOfSet :
        repl'.age[t][v] = IF t = s /\ v = w THEN new
                          ELSE repl.age[t][v] + IF t = s /\ Policy # "lru" THEN d ELSE 0
  BY <1>2, <1>3 DEF AgedBy
<1>10. UnhitLooksOld'
  <2>. SUFFICES ASSUME NEW t \in CacheSets, NEW u \in proven'.unhit[t]
       PROVE  IF Policy = "lru" THEN u \notin proven'.fresh[t] => repl'.age[t][u] < cycle
              ELSE repl'.age[t][u] > 0
    BY <1>2 DEF UnhitLooksOld
  <2>1. CASE t = s /\ u = w
    <3>1. w \in proven'.fresh[s]
      BY <1>6, <1>8 DEF ReplacementTypeOK
    <3>2. Policy # "lru" => new > 0
      BY <1>1, <1>3, ReplacementAssumption DEF MayBecome
    <3>. QED BY <1>9, <2>1, <3>1, <3>2
  <2>2. CASE ~(t = s /\ u = w)
    <3>1. u \in proven.unhit[t] /\ u \in WaysOfSet
      BY <1>6, <1>8, <2>2 DEF ReplacementTypeOK
    <3>2. u \notin proven'.fresh[t] => u \notin proven.fresh[t]
      BY <1>6, <1>8 DEF ReplacementTypeOK
    <3>3. repl'.age[t][u] = repl.age[t][u] + IF t = s /\ Policy # "lru" THEN d ELSE 0
      BY <1>9, <2>2, <3>1
    <3>. QED BY <1>3, <1>8, <3>1, <3>2, <3>3 DEF UnhitLooksOld
  <2>. QED BY <2>1, <2>2
<1>11. OverIsOrdered'
  <2>. SUFFICES ASSUME NEW t \in CacheSets, NEW x \in WaysOfSet, NEW u \in WaysOfSet,
                       <<t, x, u>> \in proven'.over
       PROVE  held'[t][x] # 0 /\ Sooner(t, u, x)'
    BY <1>2 DEF OverIsOrdered
  <2>1. <<t, x, u>> \in proven.over /\ ~(t = s /\ x = w) /\ ~(t = s /\ u = w)
    BY <1>6
  <2>2. held[t][x] # 0 /\ Sooner(t, u, x)
    BY <1>8, <2>1 DEF OverIsOrdered
  <2>3. held'[t][x] = held[t][x]
    BY <1>6, <1>8, <2>1 DEF ReplacementTypeOK
  <2>4. /\ repl'.age[t][x] = repl.age[t][x] + IF t = s /\ Policy # "lru" THEN d ELSE 0
        /\ repl'.age[t][u] = repl.age[t][u] + IF t = s /\ Policy # "lru" THEN d ELSE 0
    BY <1>9, <2>1
  <2>. QED BY <1>2, <1>3, <2>2, <2>3, <2>4 DEF Sooner
<1>12. KeepsProven'
  BY <1>6 DEF KeepsProven
<1>. QED BY <1>10, <1>11, <1>12

LEMMA NextIInv == IInv /\ [ReplacementNext]_replVars => IInv'
<1>. SUFFICES ASSUME IInv, [ReplacementNext]_replVars PROVE IInv'
  OBVIOUS
<1>0. /\ ReplacementTypeOK
      /\ \A region \in repl.case.regions : region \in Nat \ {0}
  BY ReplacementAssumption DEF IInv, ReplacementTypeOK
<1>1. ASSUME NEW s \in CacheSets, NEW w \in WaysOfSet, NEW ip, NEW write \in BOOLEAN,
             Hit(s, w, ip, write)
      PROVE  IInv'
  BY <1>1, HitKeepsIInv
<1>2. ASSUME NEW s \in CacheSets, NEW region \in repl.case.regions, NEW ip,
             NEW write \in BOOLEAN, FillFree(s, region, ip, write)
      PROVE  IInv'
  <2>1. PICK w \in WaysOfSet : held[s][w] = 0 /\ Filled(repl, s, w, region, ip, write)
    BY <1>2 DEF FillFree
  <2>2. Policy # "drrip" => \A u \in WaysOfSet : <<s, w, u>> \notin proven.over
    BY <2>1 DEF IInv, OverIsOrdered
  <2>3. AgedBy(repl, s, 0)
    BY <1>0, NotAged
  <2>. QED BY <1>0, <1>2, <2>1, <2>2, <2>3, FilledKeepsIInv DEF FillFree
<1>3. ASSUME NEW s \in CacheSets, NEW region \in repl.case.regions, NEW ip,
             NEW write \in BOOLEAN, FillVictim(s, region, ip, write)
      PROVE  IInv'
  <2>1. Victim(s) \in WaysOfSet
    BY <1>0, VictimIsWay
  <2>2. Policy # "drrip" => \A u \in WaysOfSet : <<s, Victim(s), u>> \notin proven.over
    BY <1>0, <2>1, VictimIsSoonest DEF IInv, OverIsOrdered
  <2>3. PICK d : AgedBy(VictimsAged(s), s, d)
    BY <1>0, VictimAges
  <2>. QED BY <1>0, <1>3, <2>1, <2>2, <2>3, FilledKeepsIInv DEF FillVictim
<1>4. ASSUME NEW s \in CacheSets, WritebackRefused(s) PROVE IInv'
  <2>1. PICK d : AgedBy(repl', s, d)
    BY <1>0, <1>4, VictimAges DEF WritebackRefused
  <2>2. UNCHANGED <<held, cycle, proven>>
    BY <1>4 DEF WritebackRefused
  <2>3. UNCHANGED <<Policy, CacheSets, WaysOfSet, Ages>>
    BY <2>1, <2>2 DEF AgedBy, Policy, CacheSets, WaysOfSet, Ages
  <2>4. ReplacementTypeOK'
    BY <1>0, <2>1, <2>2, <2>3 DEF ReplacementTypeOK, AgedBy, IsState
  <2>. SUFFICES ASSUME Policy # "drrip" PROVE UnhitLooksOld' /\ OverIsOrdered' /\ KeepsProven'
    BY <2>3, <2>4 DEF IInv
  <2>5. /\ \A t \in CacheSets : \A v \in WaysOfSet :
              /\ repl'.age[t][v] = repl.age[t][v] + IF t = s /\ Policy # "lru" THEN d ELSE 0
              /\ repl.age[t][v] \in Nat
        /\ d \in Nat
    BY <1>0, <2>1 DEF AgedBy, ReplacementTypeOK, Ages
  <2>6. \A t \in CacheSets : \A u, x \in WaysOfSet : Sooner(t, u, x) => Sooner(t, u, x)'
    BY <2>3, <2>5 DEF Sooner
  <2>7. OverIsOrdered'
    BY <2>2, <2>3, <2>6 DEF IInv, OverIsOrdered
  <2>8. UnhitLooksOld'
    <3>1. \A t \in CacheSets : \A u \in proven.unhit[t] : u \in WaysOfSet
      BY <1>0 DEF ReplacementTypeOK
    <3>. QED BY <2>2, <2>3, <2>5, <3>1 DEF IInv, UnhitLooksOld
  <2>. QED BY <2>2, <2>7, <2>8 DEF IInv, KeepsProven
<1>5. CASE CycleBegins
  <2>1. /\ UNCHANGED <<repl, held, Policy, CacheSets, WaysOfSet>>
        /\ cycle' = IF Policy \in {"lru", "ship"} THEN cycle + 1 ELSE cycle
    BY <1>5 DEF CycleBegins, Policy, CacheSets, WaysOfSet
  <2>2. /\ proven' = [unhit |-> proven.unhit, fresh |-> proven'.fresh, over |-> proven.over,
                      betrayed |-> proven.betrayed]
        /\ proven'.fresh = [s \in CacheSets |-> {}]
    BY <1>0, <1>5 DEF CycleBegins, ReplacementTypeOK
  <2>3. Ages \subseteq Ages' /\ cycle' \in Nat
    BY <1>0, <2>1 DEF ReplacementTypeOK, Ages
  <2>4. ReplacementTypeOK'
    <3>1. repl'.age \in [CacheSets' -> [WaysOfSet' -> Ages']]
      BY <1>0, <2>1, <2>3 DEF ReplacementTypeOK
    <3>. QED BY <1>0, <2>1, <2>2, <2>3, <3>1 DEF ReplacementTypeOK, IsState
  <2>5. UnhitLooksOld => UnhitLooksOld'
    <3>1. \A t \in CacheSets : \A u \in proven.unhit[t] :
            Policy = "lru" => repl.age[t][u] \in 0 .. cycle
      BY <1>0 DEF ReplacementTypeOK, Ages
    <3>2. cycle \in Nat
      BY <1>0 DEF ReplacementTypeOK
    <3>. QED BY <2>1, <2>2, <3>1, <3>2 DEF UnhitLooksOld
  <2>6. (OverIsOrdered => OverIsOrdered') /\ (KeepsProven => KeepsProven')
    BY <2>1, <2>2 DEF OverIsOrdered, Sooner, KeepsProven
  <2>. QED BY <2>1, <2>4, <2>5, <2>6 DEF IInv
<1>6. CASE UNCHANGED replVars
  BY <1>6 DEF replVars, IInv, ReplacementTypeOK, UnhitLooksOld, OverIsOrdered, KeepsProven,
              IsState, Policy, CacheSets, WaysOfSet, Ages, Sooner
<1>. QED BY <1>1, <1>2, <1>3, <1>4, <1>5, <1>6 DEF ReplacementNext

LEMMA SpecIInv == ReplacementSpec => []IInv
BY InitIInv, NextIInv, PTL DEF ReplacementSpec

-----------------------------------------------------------------------------
\* For every number of ways and blocks, LRU, SRRIP and SHiP keep a block that was
\* hit while one that was there before the hit, and never hit itself, stays: the ages
\* of find_victim order the two however often the search ages the set.
THEOREM ScansAreResisted == ReplacementSpec => []ScanResistant
<1>1. IInv => ScanResistant
  BY DEF IInv, ScanResistant
<1>. QED BY <1>1, SpecIInv, PTL

-----------------------------------------------------------------------------
\* There is but one way that is further than all others.
LEMMA FurthestIsOnly ==
    ASSUME NEW n \in Nat \ {0}, NEW m \in Nat, NEW a \in [1 .. n -> 0 .. m], NEW w \in 1 .. n,
           \A v \in 1 .. n : a[v] < a[w] \/ (a[w] = a[v] /\ w <= v)
    PROVE  Furthest(a) = w
<1>1. /\ Furthest(a) \in 1 .. n
      /\ \A v \in 1 .. n : \/ a[v] < a[Furthest(a)]
                           \/ a[Furthest(a)] = a[v] /\ Furthest(a) <= v
  BY FurthestIsMost
<1>2. a[w] \in Int /\ a[Furthest(a)] \in Int
  BY <1>1
<1>. QED BY <1>1, <1>2

\* A victim whose writeback finds no place below is picked again when the fill is
\* tried again (handle_fill, find_victim): the search ages the set, but not the order.
RefusedVictimStays ==
    [][\A s \in CacheSets : WritebackRefused(s) => Victim(s)' = Victim(s)]_replVars

\* For all four policies, whatever the ages.
THEOREM VictimsArePickedAgain == ReplacementSpec => RefusedVictimStays
<1>1. ASSUME IInv, NEW s \in CacheSets, WritebackRefused(s)
      PROVE  Victim(s)' = Victim(s)
  <2>. DEFINE n == repl.case.ways
              a == repl.age[s]
              b == repl'.age[s]
              f == Furthest(a)
  <2>0. ReplacementTypeOK /\ repl' = VictimsAged(s)
    BY <1>1 DEF IInv, WritebackRefused
  <2>1. PICK d : AgedBy(repl', s, d)
    BY <2>0, VictimAges
  <2>2. Policy' = Policy /\ IsState(repl)
    BY <2>0, <2>1 DEF AgedBy, Policy, ReplacementTypeOK
  <2>3. CASE Policy = "lru"
    BY <2>0, <2>2, <2>3 DEF Victim, VictimsAged
  <2>4. CASE Policy # "lru"
    <3>1. /\ n \in Nat \ {0} /\ WaysOfSet = 1 .. n /\ MaxRrpv \in Nat
          /\ a \in [1 .. n -> 0 .. MaxRrpv] /\ b \in [1 .. n -> 0 .. MaxRrpv]
      BY <1>1, <2>0, <2>1, <2>4, SetFacts DEF WaysOfSet, AgedBy, Ages
    <3>2. Victim(s) = f /\ Victim(s)' = Furthest(b)
      BY <2>2, <2>4 DEF Victim
    <3>3. Policy # "drrip" => d \in Nat /\ \A v \in 1 .. n : b[v] = a[v] + d
      BY <1>1, <2>1, <2>4, <3>1 DEF AgedBy
    <3>4. Policy = "drrip" =>
            \A v \in 1 .. n : b[v] = IF v <= f THEN a[v] + MaxRrpv - a[f] ELSE a[v]
      <4>1. DOMAIN a = 1 .. n
        BY <3>1
      <4>2. Policy = "drrip" => b = AgedUpToVictim(a)
        <5>. HIDE DEF n
        <5>1. repl.age \in [CacheSets -> [WaysOfSet -> Ages]]
          BY <2>0 DEF ReplacementTypeOK
        <5>. QED BY <1>1, <2>0, <2>2, <5>1 DEF VictimsAged, IsState
      <4>. QED BY <4>1, <4>2 DEF AgedUpToVictim
    <3>. HIDE DEF n, a, b
    <3>5. /\ f \in 1 .. n
          /\ \A v \in 1 .. n : a[v] < a[f] \/ (a[f] = a[v] /\ f <= v)
      BY <3>1, FurthestIsMost
    <3>. HIDE DEF f
    <3>6. \A v \in 1 .. n : b[v] < b[f] \/ (b[f] = b[v] /\ f <= v)
      <4>. SUFFICES ASSUME NEW v \in 1 .. n PROVE b[v] < b[f] \/ (b[f] = b[v] /\ f <= v)
        OBVIOUS
      <4>1. /\ a[v] \in 0 .. MaxRrpv /\ a[f] \in 0 .. MaxRrpv
            /\ b[v] \in 0 .. MaxRrpv /\ b[f] \in 0 .. MaxRrpv
            /\ v \in Nat /\ f \in Nat
        BY <3>1, <3>5
      <4>2. a[v] < a[f] \/ (a[f] = a[v] /\ f <= v)
        BY <3>5
      <4>3. CASE Policy = "drrip"
        <5>1. b[f] = MaxRrpv
          BY <3>1, <3>4, <3>5, <4>1, <4>3
        <5>2. b[v] = IF v <= f THEN a[v] + MaxRrpv - a[f] ELSE a[v]
          BY <3>4, <4>3
        <5>0. MaxRrpv \in Nat
          BY <3>1
        <5>3. CASE v <= f
          <6>1. b[v] = a[v] + MaxRrpv - a[f]
            BY <5>2, <5>3
          <6>. QED BY <4>1, <4>2, <5>0, <5>1, <5>3, <6>1
        <5>4. CASE ~(v <= f)
          <6>1. b[v] = a[v] /\ f <= v
            BY <4>1, <5>2, <5>4
          <6>. QED BY <4>1, <5>0, <5>1, <6>1
        <5>. QED BY <5>3, <5>4
      <4>4. CASE Policy # "drrip"
        <5>1. d \in Nat /\ b[v] = a[v] + d /\ b[f] = a[f] + d
          BY <3>3, <3>5, <4>4
        <5>. QED BY <4>1, <4>2, <5>1
      <4>. QED BY <4>3, <4>4
    <3>7. Furthest(b) = f
      BY <3>1, <3>5, <3>6, FurthestIsOnly
    <3>. QED BY <3>2, <3>7
  <2>. QED BY <2>3, <2>4
<1>2. IInv /\ [ReplacementNext]_replVars =>
        [\A s \in CacheSets : WritebackRefused(s) => Victim(s)' = Victim(s)]_replVars
  BY <1>1
<1>. QED BY <1>2, SpecIInv, PTL DEF ReplacementSpec, RefusedVictimStays

-----------------------------------------------------------------------------
(***************************************************************************)
(* The signature path prefetcher: sums of counters, and its two tables     *)
(***************************************************************************)

WayOK(e) == /\ DOMAIN e = {"valid", "page", "last", "sig", "lru"}
            /\ e.valid \in BOOLEAN /\ e.lru \in 0 .. StWays - 1

\* Every age is some way's, and a page has one way.
SignaturesOK(st) ==
    /\ DOMAIN st = 1 .. StWays
    /\ \A w \in 1 .. StWays : WayOK(st[w])
    /\ \A a \in 0 .. StWays - 1 : \E w \in 1 .. StWays : st[w].lru = a
    /\ \A v, w \in 1 .. StWays : st[v].valid /\ st[w].valid /\ v # w => st[v].page # st[w].page

\* A pattern never counted has no stride: what updates it is a new one.
PatternShape(p) ==
    /\ DOMAIN p = {"sig", "way"} /\ p.sig \in Nat
    /\ DOMAIN p.way = 1 .. PtWays
    /\ \A w \in 1 .. PtWays : /\ DOMAIN p.way[w] = {"delta", "count"} /\ p.way[w].count \in Nat
                              /\ p.sig = 0 => p.way[w].delta = 0

PatternOK(p) ==
    /\ PatternShape(p)
    /\ p.sig <= CSigMax
    /\ IF p.sig = 0 THEN SumOf(p) = 0 ELSE SumOf(p) < p.sig

StateFields == {"st", "pt", "filter", "ghr", "issued", "useful", "failed"}

SppIInv ==
    /\ DOMAIN spp = StateFields
    /\ SignaturesOK(spp.st)
    /\ DOMAIN spp.pt = 0 .. PtSets - 1
    /\ \A s \in 0 .. PtSets - 1 : PatternOK(spp.pt[s])
-----------------------------------------------------------------------------
(* Sums of counters *)

SumStep(par, acc, e) == acc + e

\* The sums of the first elements
Partial(s, k, P) ==
    /\ P \in [0 .. k -> Int] /\ P[0] = 0
    /\ \A j \in 0 .. k - 1 : P[j + 1] = P[j] + s[j + 1]

SumInv(par, k, acc) == \E P : Partial(par, k, P) /\ P[k] = acc

SumLoop == INSTANCE FoldInduction WITH Op <- SumStep, Inv <- SumInv

Total(s) == FoldLeft(LAMBDA n, c : n + c, 0, s)

LEMMA TotalIsPartial ==
    ASSUME NEW n \in Nat, NEW s \in [1 .. n -> Int]
    PROVE  \E P : Partial(s, n, P) /\ Total(s) = P[n]
<1>1. SumInv(s, 0, 0)
  <2>1. Partial(s, 0, [k \in 0 .. 0 |-> 0])
    BY DEF Partial
  <2>. QED BY <2>1 DEF SumInv
<1>2. ASSUME NEW k \in 1 .. n, NEW acc, SumInv(s, k - 1, acc)
      PROVE  SumInv(s, k, SumStep(s, acc, s[k]))
  <2>1. PICK P : Partial(s, k - 1, P) /\ P[k - 1] = acc
    BY <1>2 DEF SumInv
  <2>. DEFINE Q == [j \in 0 .. k |-> IF j = k THEN acc + s[k] ELSE P[j]]
  <2>2. k - 1 \in Nat /\ s[k] \in Int /\ acc \in Int
    BY <2>1 DEF Partial
  <2>3. Q \in [0 .. k -> Int]
    BY <2>1, <2>2 DEF Partial
  <2>4. Q[0] = 0 /\ Q[k] = acc + s[k]
    BY <2>1, <2>2 DEF Partial
  <2>5. ASSUME NEW j \in 0 .. k - 1 PROVE Q[j + 1] = Q[j] + s[j + 1]
    <3>1. CASE j = k - 1
      BY <2>1, <2>2, <2>4, <3>1
    <3>2. CASE j # k - 1
      <4>1. j \in 0 .. k - 1 - 1
        BY <3>2
      <4>2. P[j + 1] = P[j] + s[j + 1]
        BY <2>1, <4>1 DEF Partial
      <4>. QED BY <4>1, <4>2
    <3>. QED BY <3>1, <3>2
  <2>6. Partial(s, k, Q) /\ Q[k] = acc + s[k]
    <3>. HIDE DEF Q
    <3>. QED BY <2>3, <2>4, <2>5 DEF Partial
  <2>. QED BY <2>6 DEF SumInv, SumStep
<1>3. SumLoop!KeepsTo(s, s, n)
  BY <1>2 DEF SumLoop!KeepsTo
<1>4. Total(s) = SumLoop!Fold(s, 0, s)
  BY DEF Total, SumLoop!Fold, SumStep, FoldLeft, SumLoop!FoldLeft, MapThenFoldSet,
         SumLoop!MapThenFoldSet, Max, SumLoop!Max
<1>5. DOMAIN s = 1 .. n
  OBVIOUS
<1>6. SumInv(s, n, SumLoop!Fold(s, 0, s))
  BY <1>1, <1>3, <1>5, SumLoop!FoldKeepsTo
<1>. QED BY <1>4, <1>6 DEF SumInv

\* Induction over 0 .. n
LEMMA UpTo ==
    ASSUME NEW n \in Nat, NEW T, 0 \in T, \A k \in 0 .. n - 1 : k \in T => k + 1 \in T
    PROVE  n \in T
<1>. DEFINE U == {k \in Nat : k <= n => k \in T}
<1>1. 0 \in U /\ \A k \in Nat : k \in U => k + 1 \in U
  OBVIOUS
<1>2. Nat \subseteq U
  <2>. HIDE DEF U
  <2>. QED BY <1>1, SumLoop!SetInduction
<1>. QED BY <1>2

\* A sum changes by as much as one of its elements.
LEMMA TotalChanged ==
    ASSUME NEW n \in Nat, NEW s \in [1 .. n -> Int], NEW i \in 1 .. n, NEW v \in Int
    PROVE  Total([s EXCEPT ![i] = v]) = Total(s) + v - s[i]
<1>. DEFINE t == [s EXCEPT ![i] = v]
<1>1. PICK P : Partial(s, n, P) /\ Total(s) = P[n]
  BY TotalIsPartial
<1>2. t \in [1 .. n -> Int]
  OBVIOUS
<1>3. PICK Q : Partial(t, n, Q) /\ Total(t) = Q[n]
  BY <1>2, TotalIsPartial
<1>. DEFINE T == {k \in 0 .. n : Q[k] = P[k] + (IF k >= i THEN v - s[i] ELSE 0)}
<1>4. 0 \in T
  BY <1>1, <1>3 DEF Partial
<1>5. ASSUME NEW k \in 0 .. n - 1, k \in T PROVE k + 1 \in T
  <2>1. Q[k + 1] = Q[k] + t[k + 1] /\ P[k + 1] = P[k] + s[k + 1]
    BY <1>1, <1>3 DEF Partial
  <2>2. t[k + 1] = IF k + 1 = i THEN v ELSE s[k + 1]
    OBVIOUS
  <2>3. P[k] \in Int /\ P[k + 1] \in Int /\ s[k + 1] \in Int /\ s[i] \in Int
    BY <1>1 DEF Partial
  <2>4. Q[k] = P[k] + (IF k >= i THEN v - s[i] ELSE 0)
    BY <1>5
  <2>. HIDE DEF t
  <2>5. Q[k + 1] = P[k + 1] + (IF k + 1 >= i THEN v - s[i] ELSE 0)
    BY <2>1, <2>2, <2>3, <2>4
  <2>. QED BY <2>5
<1>6. n \in T
  <2>. HIDE DEF T
  <2>. QED BY <1>4, <1>5, UpTo
<1>7. P[n] \in Int /\ s[i] \in Int
  BY <1>1 DEF Partial
<1>8. Total(t) = Total(s) + v - s[i]
  <2>1. Q[n] = P[n] + (v - s[i])
    BY <1>6
  <2>. HIDE DEF t
  <2>. QED BY <1>1, <1>3, <1>7, <2>1
<1>. QED BY <1>8

LEMMA Halves ==
    ASSUME NEW a \in Nat, NEW b \in Nat, NEW c \in Nat, NEW d \in Nat, 2 * a <= b, 2 * c <= d
    PROVE  2 * (a + c) <= b + d /\ a + c \in Nat /\ b + d \in Nat
OBVIOUS

\* Halves rounded down sum up to at most the half.
LEMMA TotalHalved ==
    ASSUME NEW n \in Nat, NEW s \in [1 .. n -> Nat]
    PROVE  /\ 2 * Total([k \in 1 .. n |-> s[k] \div 2]) <= Total(s)
           /\ Total([k \in 1 .. n |-> s[k] \div 2]) \in Nat /\ Total(s) \in Nat
<1>. DEFINE t == [k \in 1 .. n |-> s[k] \div 2]
<1>1. PICK P : Partial(s, n, P) /\ Total(s) = P[n]
  BY TotalIsPartial
<1>2. ASSUME NEW k \in 1 .. n PROVE t[k] \in Nat /\ 2 * t[k] <= s[k]
  <2>1. s[k] \in Nat
    OBVIOUS
  <2>. QED BY <2>1
<1>3. t \in [1 .. n -> Int]
  BY <1>2
<1>4. PICK Q : Partial(t, n, Q) /\ Total(t) = Q[n]
  BY <1>3, TotalIsPartial
<1>. HIDE DEF t
<1>. DEFINE T == {k \in 0 .. n : 2 * Q[k] <= P[k] /\ Q[k] \in Nat /\ P[k] \in Nat}
<1>5. 0 \in T
  BY <1>1, <1>4 DEF Partial
<1>6. ASSUME NEW k \in 0 .. n - 1, k \in T PROVE k + 1 \in T
  <2>1. Q[k + 1] = Q[k] + t[k + 1] /\ P[k + 1] = P[k] + s[k + 1]
    BY <1>1, <1>4 DEF Partial
  <2>2. t[k + 1] \in Nat /\ 2 * t[k + 1] <= s[k + 1] /\ s[k + 1] \in Nat
    BY <1>2
  <2>3. 2 * Q[k] <= P[k] /\ Q[k] \in Nat /\ P[k] \in Nat
    BY <1>6
  <2>4. 2 * Q[k + 1] <= P[k + 1] /\ Q[k + 1] \in Nat /\ P[k + 1] \in Nat
    <3>1. /\ 2 * (Q[k] + t[k + 1]) <= P[k] + s[k + 1]
          /\ Q[k] + t[k + 1] \in Nat /\ P[k] + s[k + 1] \in Nat
      BY <2>2, <2>3, Halves
    <3>. QED BY <2>1, <3>1
  <2>. QED BY <2>4
<1>7. n \in T
  <2>. HIDE DEF T
  <2>. QED BY <1>5, <1>6, UpTo
<1>8. 2 * Total(t) <= Total(s) /\ Total(t) \in Nat /\ Total(s) \in Nat
  BY <1>1, <1>4, <1>7
<1>. QED BY <1>8 DEF t

\* A sum of nothing but zeros
LEMMA TotalOfNone ==
    ASSUME NEW n \in Nat, NEW s \in [1 .. n -> Nat], \A k \in 1 .. n : s[k] = 0
    PROVE  Total(s) = 0
<1>1. PICK P : Partial(s, n, P) /\ Total(s) = P[n]
  BY TotalIsPartial
<1>. DEFINE T == {k \in 0 .. n : P[k] = 0}
<1>2. 0 \in T
  BY <1>1 DEF Partial
<1>3. ASSUME NEW k \in 0 .. n - 1, k \in T PROVE k + 1 \in T
  <2>1. P[k + 1] = P[k] + s[k + 1] /\ s[k + 1] = 0
    BY <1>1 DEF Partial
  <2>. QED BY <1>3, <2>1
<1>4. n \in T
  <2>. HIDE DEF T
  <2>. QED BY <1>2, <1>3, UpTo
<1>. QED BY <1>1, <1>4
-----------------------------------------------------------------------------
(* The pattern table *)

Counts(p) == [w \in 1 .. PtWays |-> p.way[w].count]

LEMMA SppConstants ==
    /\ StWays \in Nat \ {0} /\ PtSets \in Nat \ {0} /\ PtWays \in Nat \ {0} /\ PtWays > 1
    /\ CSigMax \in Nat \ {0} /\ CSigMax % 2 = 1
BY SppAssumption

LEMMA SumIsTotal == \A p : SumOf(p) = Total(Counts(p))
BY DEF SumOf, Total, Counts

LEMMA CountsAre == ASSUME NEW p, PatternShape(p) PROVE Counts(p) \in [1 .. PtWays -> Nat]
BY DEF PatternShape, Counts

LEMMA SumIsNat == ASSUME NEW p, PatternShape(p) PROVE SumOf(p) \in Nat
<1>1. Counts(p) \in [1 .. PtWays -> Nat] /\ PtWays \in Nat
  BY CountsAre, SppConstants
<1>2. Total(Counts(p)) \in Nat
  BY <1>1, TotalHalved
<1>. QED BY <1>2, SumIsTotal

\* Way i of a pattern counts v in the other one.
OneCount(p, q, i, v) ==
    /\ PatternShape(p) /\ i \in 1 .. PtWays /\ v \in Nat
    /\ Counts(q) = [Counts(p) EXCEPT ![i] = v]

SumMoves(p, q, i, v) == SumOf(q) = SumOf(p) + v - Counts(p)[i]

LEMMA SumChanged ==
    ASSUME NEW p, NEW q, NEW i, NEW v, OneCount(p, q, i, v)
    PROVE  SumMoves(p, q, i, v)
<1>. USE DEF OneCount
<1>1. Counts(p) \in [1 .. PtWays -> Int] /\ PtWays \in Nat /\ v \in Int
  BY CountsAre, SppConstants
<1>2. Total([Counts(p) EXCEPT ![i] = v]) = Total(Counts(p)) + v - Counts(p)[i]
  BY <1>1, TotalChanged
<1>. QED BY <1>2, SumIsTotal DEF SumMoves

LEMMA HalfOfEven ==
    ASSUME NEW n \in Nat, n % 2 = 1
    PROVE  (n + 1) \div 2 \in Nat \ {0} /\ 2 * ((n + 1) \div 2) = n + 1 /\ (n + 1) \div 2 <= n
OBVIOUS

LEMMA FirstIn ==
    ASSUME NEW S \in SUBSET Nat, S # {}
    PROVE  FirstWhere(S) \in S
<1>1. \E m \in S : \A y \in S : m <= y
  BY Least
<1>. QED BY <1>1 DEF FirstWhere, Min

\* Halving the counters when that of the signature runs over keeps the sum below it:
\* the counter that runs over is even.
LEMMA AgedOK ==
    ASSUME NEW p, PatternShape(p), p.sig # 0, p.sig <= CSigMax + 1, SumOf(p) < p.sig
    PROVE  PatternOK(Aged(p))
<1>. USE SppConstants
<1>1. CASE p.sig <= CSigMax
  <2>1. Aged(p) = p
    BY <1>1 DEF Aged, PatternShape
  <2>. QED BY <1>1, <2>1 DEF PatternOK
<1>2. CASE ~(p.sig <= CSigMax)
  <2>. DEFINE h == Halved(p)
  <2>1. Aged(p) = h /\ p.sig = CSigMax + 1
    BY <1>2 DEF Aged, PatternShape
  <2>2. h.sig \in Nat /\ h.sig # 0 /\ 2 * h.sig = p.sig /\ h.sig <= CSigMax
    <3>1. h.sig = p.sig \div 2
      BY DEF Halved
    <3>. HIDE DEF h
    <3>. QED BY <2>1, <3>1, HalfOfEven
  <2>3. \A w \in 1 .. PtWays : h.way[w].count = p.way[w].count \div 2
    BY DEF Halved, PatternShape
  <2>4. Counts(h) = [w \in 1 .. PtWays |-> Counts(p)[w] \div 2]
    BY <2>3 DEF Counts
  <2>5. /\ 2 * SumOf(h) <= SumOf(p) /\ SumOf(h) \in Nat /\ SumOf(p) \in Nat
    BY <2>4, CountsAre, SumIsTotal, TotalHalved
  <2>6. SumOf(h) < h.sig
    <3>. HIDE DEF h
    <3>. QED BY <2>2, <2>5
  <2>7. PatternShape(h)
    <3>1. DOMAIN h = {"sig", "way"} /\ DOMAIN h.way = 1 .. PtWays
      BY DEF Halved
    <3>2. \A w \in 1 .. PtWays : /\ DOMAIN h.way[w] = {"delta", "count"} /\ h.way[w].count \in Nat
      BY <2>3 DEF Halved, PatternShape
    <3>. QED BY <2>2, <3>1, <3>2 DEF PatternShape
  <2>. QED BY <2>1, <2>2, <2>6, <2>7 DEF PatternOK
<1>. QED BY <1>1, <1>2

\* update_pattern
LEMMA PatternUpdatedOK ==
    ASSUME NEW p, PatternOK(p), NEW delta, delta # 0
    PROVE  PatternOK(PatternUpdated(p, delta))
<1>. DEFINE same == {w \in 1 .. PtWays : p.way[w].delta = delta}
            low  == {w \in 1 .. PtWays : \A v \in 1 .. PtWays : p.way[w].count <= p.way[v].count}
<1>. USE SppConstants
<1>1. PatternShape(p) /\ Counts(p) \in [1 .. PtWays -> Nat] /\ SumOf(p) \in Int
  <2>1. PatternShape(p) /\ Counts(p) \in [1 .. PtWays -> Nat]
    BY CountsAre DEF PatternOK
  <2>. QED BY <2>1, SumIsNat
<1>2. CASE same # {}
  <2>. DEFINE i == FirstWhere(same)
              q == [p EXCEPT !.way[i].count = @ + 1, !.sig = @ + 1]
  <2>1. i \in same
    <3>1. same \in SUBSET Nat
      OBVIOUS
    <3>. HIDE DEF same
    <3>. QED BY <1>2, <3>1, FirstIn
  <2>2. PatternUpdated(p, delta) = Aged(q)
    BY <1>2 DEF PatternUpdated
  <2>3. i \in 1 .. PtWays /\ p.sig # 0
    BY <1>1, <2>1 DEF PatternShape
  <2>. HIDE DEF i
  <2>4. /\ DOMAIN q = {"sig", "way"} /\ q.sig = p.sig + 1
        /\ q.way = [p.way EXCEPT ![i].count = @ + 1]
    BY <1>1 DEF PatternShape
  <2>5. \A w \in 1 .. PtWays : q.way[w].count = IF w = i THEN p.way[i].count + 1 ELSE p.way[w].count
    BY <1>1, <2>3, <2>4 DEF PatternShape
  <2>6. PatternShape(q)
    BY <1>1, <2>3, <2>4 DEF PatternShape
  <2>7. Counts(q) = [Counts(p) EXCEPT ![i] = Counts(p)[i] + 1]
    BY <2>3, <2>5 DEF Counts
  <2>8. SumOf(q) = SumOf(p) + (Counts(p)[i] + 1) - Counts(p)[i]
    <3>1. Counts(p)[i] + 1 \in Nat
      BY <1>1, <2>3
    <3>. HIDE DEF q
    <3>2. OneCount(p, q, i, Counts(p)[i] + 1)
      BY <1>1, <2>3, <2>7, <3>1 DEF OneCount
    <3>3. SumMoves(p, q, i, Counts(p)[i] + 1)
      BY <3>2, SumChanged
    <3>. QED BY <3>3 DEF SumMoves
  <2>9. Counts(p)[i] \in Nat
    BY <1>1, <2>3
  <2>10. p.sig \in Nat /\ p.sig <= CSigMax /\ SumOf(p) < p.sig
    BY <2>3 DEF PatternOK, PatternShape
  <2>. HIDE DEF q
  <2>11. SumOf(q) < q.sig /\ q.sig # 0 /\ q.sig <= CSigMax + 1
    BY <1>1, <2>4, <2>8, <2>9, <2>10
  <2>. QED BY <2>2, <2>6, <2>11, AgedOK
<1>3. CASE same = {}
  <2>. DEFINE i == VictimWay(p)
              q == [p EXCEPT !.way[i] = [delta |-> delta, count |-> 0], !.sig = @ + 1]
  <2>1. i \in 1 .. PtWays
    <3>1. low \in SUBSET Nat
      OBVIOUS
    <3>2. low # {}
      <4>. DEFINE C == {p.way[w].count : w \in 1 .. PtWays}
      <4>1. C \in SUBSET Nat /\ C # {}
        BY <1>1 DEF PatternShape
      <4>2. PICK c \in C : \A d \in C : c <= d
        <5>. HIDE DEF C
        <5>. QED BY <4>1, Least
      <4>. QED BY <4>2
    <3>3. i = FirstWhere(low)
      BY DEF VictimWay
    <3>4. low \subseteq 1 .. PtWays
      OBVIOUS
    <3>. HIDE DEF low
    <3>. QED BY <3>1, <3>2, <3>3, <3>4, FirstIn
  <2>2. PatternUpdated(p, delta) = Aged(q)
    BY <1>3 DEF PatternUpdated
  <2>. HIDE DEF i
  <2>4. /\ DOMAIN q = {"sig", "way"} /\ q.sig = p.sig + 1
        /\ q.way = [p.way EXCEPT ![i] = [delta |-> delta, count |-> 0]]
    BY <1>1 DEF PatternShape
  <2>6. PatternShape(q)
    BY <1>1, <2>1, <2>4 DEF PatternShape
  <2>7. Counts(q) = [Counts(p) EXCEPT ![i] = 0]
    BY <1>1, <2>1, <2>4 DEF Counts, PatternShape
  <2>8. SumOf(q) = SumOf(p) + 0 - Counts(p)[i]
    <3>. HIDE DEF q
    <3>2. OneCount(p, q, i, 0)
      BY <1>1, <2>1, <2>7 DEF OneCount
    <3>3. SumMoves(p, q, i, 0)
      BY <3>2, SumChanged
    <3>. QED BY <3>3 DEF SumMoves
  <2>9. Counts(p)[i] \in Nat
    BY <1>1, <2>1
  <2>10. p.sig \in Nat /\ p.sig <= CSigMax /\ SumOf(p) <= p.sig
    BY <1>1 DEF PatternOK, PatternShape
  <2>. HIDE DEF q
  <2>11. SumOf(q) < q.sig /\ q.sig # 0 /\ q.sig <= CSigMax + 1
    BY <1>1, <2>4, <2>8, <2>9, <2>10
  <2>. QED BY <2>2, <2>6, <2>11, AgedOK
<1>. QED BY <1>2, <1>3
-----------------------------------------------------------------------------
(* The signature table *)

LEMMA WayForIn ==
    ASSUME NEW st, SignaturesOK(st), NEW page
    PROVE  /\ WayFor(st, page) \in 1 .. StWays
           /\ \A v \in 1 .. StWays : v # WayFor(st, page) /\ st[v].valid => st[v].page # page
<1>. USE SppConstants
<1>. DEFINE own     == {w \in 1 .. StWays : st[w].valid /\ st[w].page = page}
            invalid == {w \in 1 .. StWays : ~st[w].valid}
            oldest  == {w \in 1 .. StWays : st[w].lru = StWays - 1}
<1>1. own \in SUBSET Nat /\ invalid \in SUBSET Nat /\ oldest \in SUBSET Nat
  OBVIOUS
<1>2. oldest # {}
  <2>1. StWays - 1 \in 0 .. StWays - 1
    OBVIOUS
  <2>. QED BY <2>1 DEF SignaturesOK
<1>3. WayFor(st, page) = IF own # {} THEN FirstWhere(own)
                         ELSE IF invalid # {} THEN FirstWhere(invalid) ELSE FirstWhere(oldest)
  BY DEF WayFor
<1>4. WayFor(st, page) \in 1 .. StWays /\ (own # {} => WayFor(st, page) \in own)
  <2>1. own \subseteq 1 .. StWays /\ invalid \subseteq 1 .. StWays /\ oldest \subseteq 1 .. StWays
    OBVIOUS
  <2>. HIDE DEF own, invalid, oldest
  <2>. QED BY <1>1, <1>2, <1>3, <2>1, FirstIn
<1>5. ASSUME NEW v \in 1 .. StWays, v # WayFor(st, page), st[v].valid PROVE st[v].page # page
  <2>1. CASE own # {}
    BY <1>4, <1>5, <2>1 DEF SignaturesOK
  <2>2. CASE own = {}
    BY <1>5, <2>2
  <2>. QED BY <2>1, <2>2
<1>. QED BY <1>4, <1>5

LEMMA PromotedOK ==
    ASSUME NEW st, SignaturesOK(st), NEW w \in 1 .. StWays
    PROVE  SignaturesOK(Promoted(st, w))
<1>. USE SppConstants
<1>. DEFINE t == Promoted(st, w)
            Age(v) == IF v = w THEN 0 ELSE IF st[v].lru < st[w].lru THEN st[v].lru + 1
                                           ELSE st[v].lru
<1>1. DOMAIN t = 1 .. StWays
  BY DEF Promoted
<1>2. \A v \in 1 .. StWays : /\ t[v].lru = Age(v)
                             /\ DOMAIN t[v] = {"valid", "page", "last", "sig", "lru"}
                             /\ t[v].valid = st[v].valid /\ t[v].page = st[v].page
  BY DEF Promoted, SignaturesOK, WayOK
<1>. HIDE DEF t
<1>3. \A v \in 1 .. StWays : st[v].lru \in 0 .. StWays - 1
  BY DEF SignaturesOK, WayOK
<1>4. \A v \in 1 .. StWays : Age(v) \in 0 .. StWays - 1
  BY <1>3
<1>5. \A v \in 1 .. StWays : WayOK(t[v])
  BY <1>2, <1>4 DEF WayOK, SignaturesOK
<1>6. ASSUME NEW a \in 0 .. StWays - 1 PROVE \E v \in 1 .. StWays : t[v].lru = a
  <2>1. CASE a = 0
    BY <1>2, <2>1
  <2>2. CASE a # 0 /\ a <= st[w].lru
    <3>1. a - 1 \in 0 .. StWays - 1
      BY <2>2
    <3>2. PICK v \in 1 .. StWays : st[v].lru = a - 1
      BY <3>1 DEF SignaturesOK
    <3>3. v # w /\ Age(v) = a
      BY <1>3, <2>2, <3>2
    <3>. QED BY <1>2, <3>3
  <2>3. CASE a > st[w].lru
    <3>1. PICK v \in 1 .. StWays : st[v].lru = a
      BY DEF SignaturesOK
    <3>2. v # w /\ Age(v) = a
      BY <1>3, <2>3, <3>1
    <3>. QED BY <1>2, <3>2
  <2>. QED BY <1>3, <2>1, <2>2, <2>3
<1>7. \A v, u \in 1 .. StWays : t[v].valid /\ t[u].valid /\ v # u => t[v].page # t[u].page
  BY <1>2 DEF SignaturesOK
<1>8. SignaturesOK(t)
  BY <1>1, <1>5, <1>6, <1>7 DEF SignaturesOK
<1>. QED BY <1>8 DEF t

LEMMA ClaimedOK ==
    ASSUME NEW st, SignaturesOK(st), NEW page, NEW offset, NEW sig
    PROVE  SignaturesOK(Claimed(st, WayFor(st, page), page, offset, sig))
<1>. DEFINE w == WayFor(st, page)
            t == Claimed(st, w, page, offset, sig)
<1>1. /\ w \in 1 .. StWays
      /\ \A v \in 1 .. StWays : v # w /\ st[v].valid => st[v].page # page
  BY WayForIn
<1>. HIDE DEF w
<1>2. DOMAIN t = 1 .. StWays
  BY DEF Claimed, SignaturesOK
<1>3. \A v \in 1 .. StWays : v # w => t[v] = st[v]
  BY DEF Claimed, SignaturesOK
<1>4. /\ DOMAIN t[w] = {"valid", "page", "last", "sig", "lru"}
      /\ t[w].valid = TRUE /\ t[w].page = page /\ t[w].lru = st[w].lru
  BY <1>1 DEF Claimed, SignaturesOK, WayOK
<1>. HIDE DEF t
<1>5. \A v \in 1 .. StWays : WayOK(t[v]) /\ t[v].lru = st[v].lru
  BY <1>1, <1>3, <1>4 DEF SignaturesOK, WayOK
<1>6. \A v, u \in 1 .. StWays : t[v].valid /\ t[u].valid /\ v # u => t[v].page # t[u].page
  BY <1>1, <1>3, <1>4 DEF SignaturesOK
<1>7. SignaturesOK(t)
  BY <1>2, <1>5, <1>6 DEF SignaturesOK
<1>. QED BY <1>7 DEF t, w

\* What is learnt is a stride, never 0.
LEMMA ReadAndUpdateSigOK ==
    ASSUME NEW g, DOMAIN g = StateFields, SignaturesOK(g.st), NEW page, NEW offset,
           NEW r, r = ReadAndUpdateSig(g, page, offset)
    PROVE  /\ DOMAIN r.g = StateFields /\ SignaturesOK(r.g.st) /\ r.g.pt = g.pt
           /\ r.last # 0 => r.delta # 0
<1>. DEFINE w == WayFor(g.st, page)
<1>1. w \in 1 .. StWays
  BY WayForIn
<1>2. PICK sig : r.g = [g EXCEPT !.st = Promoted(Claimed(@, w, page, offset, sig), w)]
  BY DEF ReadAndUpdateSig
<1>3. /\ DOMAIN r.g = StateFields /\ r.g.pt = g.pt
      /\ r.g.st = Promoted(Claimed(g.st, w, page, offset, sig), w)
  BY <1>2 DEF StateFields
<1>4. SignaturesOK(r.g.st)
  BY <1>1, <1>3, ClaimedOK, PromotedOK
<1>5. r.last # 0 => r.delta # 0
  BY DEF ReadAndUpdateSig
<1>. QED BY <1>3, <1>4, <1>5
-----------------------------------------------------------------------------
(* What a demand does after it learnt leaves the tables alone. *)

Leaves(g, h) == DOMAIN h = StateFields /\ h.st = g.st /\ h.pt = g.pt

LEMMA FilterLeaves ==
    ASSUME NEW g, NEW h, Leaves(g, h), NEW line, NEW conf
    PROVE  /\ Leaves(g, Demanded(h, line))
           /\ Leaves(g, FilteredPrefetch(h, line, conf))
           /\ Leaves(g, Evicted(h, line))
<1>1. Leaves(g, Demanded(h, line))
  BY DEF Leaves, Demanded, StateFields
<1>2. Leaves(g, Evicted(h, line))
  BY DEF Leaves, Evicted, StateFields
<1>3. ASSUME NEW x, Leaves(g, x) PROVE Leaves(g, Issued(x))
  BY <1>3 DEF Leaves, Issued, StateFields
<1>4. ASSUME NEW v PROVE Leaves(g, [h EXCEPT !.filter[FilterSet(line)] = v])
  BY DEF Leaves, StateFields
<1>5. Leaves(g, FilteredPrefetch(h, line, conf))
  BY <1>3, <1>4 DEF FilteredPrefetch
<1>. QED BY <1>1, <1>2, <1>5

LEMMA GhrLeaves ==
    ASSUME NEW g, NEW h, Leaves(g, h), NEW sig, NEW conf, NEW offset, NEW delta
    PROVE  Leaves(g, GhrUpdated(h, sig, conf, offset, delta))
<1>1. ASSUME NEW i, NEW v PROVE Leaves(g, [h EXCEPT !.ghr[i] = v])
  BY DEF Leaves, StateFields
<1>2. ASSUME NEW v PROVE Leaves(g, [h EXCEPT !.failed = v])
  BY DEF Leaves, StateFields
<1>. QED BY <1>1, <1>2 DEF GhrUpdated

WalkFields == {"g", "sig", "base", "look", "depth", "way", "queue", "head", "again"}

Walks(g, s) ==
    /\ DOMAIN s = WalkFields /\ Leaves(g, s.g)
    /\ \E E : s.queue \in Seq(E)
    /\ s.head \in Int

ConfidentStep(par, q, w) ==
    IF w \in par.ways THEN Append(q, [delta |-> par.p.way[w].delta,
                                      conf |-> Confidence(par.p, w, par.accuracy, par.look, par.depth)])
    ELSE q

ConfidentInv(par, k, q) == \E E : q \in Seq(E)

ConfidentLoop == INSTANCE FoldInduction WITH Op <- ConfidentStep, Inv <- ConfidentInv

LEMMA Appended ==
    ASSUME NEW q, NEW E, q \in Seq(E), NEW e
    PROVE  \E F : Append(q, e) \in Seq(F)
<1>1. q \in Seq(E \cup {e})
  BY ElementOfSeq, LenProperties, IsASeq
<1>. QED BY <1>1, AppendProperties

LEMMA ConfidentIsSeq ==
    ASSUME NEW par, NEW q, NEW E, q \in Seq(E)
    PROVE  \E F : ConfidentLoop!Fold(par, q, [w \in 1 .. PtWays |-> w]) \in Seq(F)
<1>. DEFINE s == [w \in 1 .. PtWays |-> w]
<1>1. PtWays \in Nat /\ DOMAIN s = 1 .. PtWays
  BY SppConstants
<1>2. ConfidentInv(par, 0, q)
  BY DEF ConfidentInv
<1>3. ASSUME NEW k \in 1 .. PtWays, NEW acc, ConfidentInv(par, k - 1, acc)
      PROVE  ConfidentInv(par, k, ConfidentStep(par, acc, s[k]))
  <2>1. PICK F : acc \in Seq(F)
    BY <1>3 DEF ConfidentInv
  <2>. QED BY <2>1, Appended DEF ConfidentInv, ConfidentStep
<1>4. ConfidentLoop!KeepsTo(par, s, PtWays)
  BY <1>3 DEF ConfidentLoop!KeepsTo
<1>. HIDE DEF s
<1>5. ConfidentInv(par, PtWays, ConfidentLoop!Fold(par, q, s))
  BY <1>1, <1>2, <1>4, ConfidentLoop!FoldKeepsTo
<1>. QED BY <1>5 DEF ConfidentInv, s

\* read_pattern
LEMMA ReadPatternWalks ==
    ASSUME NEW g, NEW s, Walks(g, s), NEW accuracy
    PROVE  Walks(g, ReadPattern(s, accuracy))
<1>. DEFINE p    == s.g.pt[s.sig % PtSets]
            ways == {w \in 1 .. PtWays :
                        Confidence(p, w, accuracy, s.look, s.depth) >= PfThreshold}
            look == s.look
            depth == s.depth
            par  == [p |-> p, ways |-> ways, accuracy |-> accuracy, look |-> look,
                     depth |-> depth]
            added == FoldLeft(LAMBDA q, w : IF w \in ways
                          THEN Append(q, [delta |-> p.way[w].delta,
                                          conf |-> Confidence(p, w, accuracy, look, depth)])
                          ELSE q, s.queue, [w \in 1 .. PtWays |-> w])
<1>1. added = ConfidentLoop!Fold(par, s.queue, [w \in 1 .. PtWays |-> w])
  <2>. HIDE DEF ways, p, look, depth
  <2>. QED BY DEF ConfidentLoop!Fold, ConfidentStep, FoldLeft, ConfidentLoop!FoldLeft, MapThenFoldSet,
         ConfidentLoop!MapThenFoldSet, Max, ConfidentLoop!Max
<1>. DEFINE best == Max({0} \cup {Confidence(p, w, accuracy, look, depth) : w \in ways})
            gap  == [delta |-> 0, conf |-> IF added = << >> THEN 100 ELSE 0]
            deep == IF best >= PfThreshold THEN depth + 1 ELSE depth
            way  == IF ways = {} THEN 0
                    ELSE FirstWhere({w \in ways : Confidence(p, w, accuracy, look, depth) = best})
<1>2. ReadPattern(s, accuracy) =
         IF p.sig = 0 THEN [s EXCEPT !.way = 0]
         ELSE [s EXCEPT !.queue = Append(added, gap), !.look = best, !.depth = deep,
                        !.way = way]
  BY DEF ReadPattern
<1>. HIDE DEF gap, best, deep, way, par, p
<1>3. PICK E : added \in Seq(E)
  <2>. HIDE DEF added
  <2>. QED BY <1>1, ConfidentIsSeq DEF Walks
<1>. HIDE DEF added
<1>5. \E F : Append(added, gap) \in Seq(F)
  BY <1>3, Appended
<1>6. Walks(g, [s EXCEPT !.queue = Append(added, gap), !.look = best, !.depth = deep,
                         !.way = way])
  BY <1>5 DEF Walks, WalkFields
<1>7. Walks(g, [s EXCEPT !.way = 0])
  BY DEF Walks, WalkFields
<1>. QED BY <1>2, <1>6, <1>7

LEMMA PrefetchWalks ==
    ASSUME NEW g, NEW s, Walks(g, s), NEW line, NEW e
    PROVE  Walks(g, Prefetch(s, line, e))
<1>1. PICK h : /\ Leaves(g, h)
               /\ \/ Prefetch(s, line, e) = s
                  \/ Prefetch(s, line, e) = [s EXCEPT !.g = h, !.head = @ + 1, !.again = TRUE]
  BY FilterLeaves, GhrLeaves DEF Prefetch, Walks
<1>2. Walks(g, [s EXCEPT !.g = h, !.head = @ + 1, !.again = TRUE])
  BY <1>1 DEF Walks, WalkFields
<1>. QED BY <1>1, <1>2

PathStep(par, s, e) == Prefetch(s, par.line, e)
PathInv(par, k, s) == Walks(par.g, s)

PathLoop == INSTANCE FoldInduction WITH Op <- PathStep, Inv <- PathInv

LEMMA PathWalks ==
    ASSUME NEW par, NEW s, Walks(par.g, s), NEW E, NEW q \in Seq(E)
    PROVE  Walks(par.g, PathLoop!Fold(par, s, q))
<1>1. PathLoop!Keeps(par, q)
  BY PrefetchWalks DEF PathLoop!Keeps, PathInv, PathStep
<1>. QED BY <1>1, PathLoop!FoldKeeps DEF PathInv

LEMMA LookaheadTurnWalks ==
    ASSUME NEW g, NEW s, Walks(g, s), NEW line, NEW accuracy
    PROVE  Walks(g, LookaheadTurn(s, line, accuracy))
<1>. DEFINE r   == ReadPattern(s, accuracy)
            q   == SubSeq(r.queue, r.head, Len(r.queue))
            par == [line |-> line, g |-> g]
            p   == PathLoop!Fold(par, [r EXCEPT !.again = FALSE], q)
<1>1. Walks(g, r)
  BY ReadPatternWalks
<1>2. p = FoldLeft(LAMBDA x, e : Prefetch(x, line, e), [r EXCEPT !.again = FALSE], q)
  BY DEF PathLoop!Fold, PathStep, FoldLeft, PathLoop!FoldLeft, MapThenFoldSet,
         PathLoop!MapThenFoldSet, Max, PathLoop!Max
<1>3. \E E : q \in Seq(E)
  <2>1. PICK E : r.queue \in Seq(E)
    BY <1>1 DEF Walks
  <2>2. r.head \in Int
    BY <1>1 DEF Walks
  <2>. HIDE DEF r
  <2>3. Len(r.queue) \in Nat
    BY <2>1
  <2>. DEFINE F == {r.queue[i] : i \in r.head .. Len(r.queue)}
  <2>4. \A i \in r.head .. Len(r.queue) : r.queue[i] \in F
    OBVIOUS
  <2>5. q \in Seq(F)
    <3>. HIDE DEF F
    <3>. QED BY <2>2, <2>3, <2>4, SubSeqProperties
  <2>. QED BY <2>5
<1>4. Walks(g, [r EXCEPT !.again = FALSE])
  <2>. HIDE DEF r
  <2>. QED BY <1>1 DEF Walks, WalkFields
<1>5. Walks(g, p)
  <2>. HIDE DEF r, q
  <2>. QED BY <1>3, <1>4, PathWalks
<1>6. Walks(g, [r EXCEPT !.g.failed = "the queue overflows", !.again = FALSE])
  <2>. HIDE DEF r
  <2>. QED BY <1>1 DEF Walks, WalkFields, Leaves, StateFields
<1>7. Walks(g, Followed(p))
  <2>. HIDE DEF p
  <2>. QED BY <1>5 DEF Walks, WalkFields, Followed
<1>8. LookaheadTurn(s, line, accuracy) =
         IF Len(r.queue) > QueueSize
         THEN [r EXCEPT !.g.failed = "the queue overflows", !.again = FALSE]
         ELSE Followed(p)
  <2>. HIDE DEF p
  <2>. QED BY <1>2 DEF LookaheadTurn
<1>. HIDE DEF p, r
<1>. QED BY <1>6, <1>7, <1>8

TurnStep(par, s, k) == IF s.again THEN LookaheadTurn(s, par.line, par.accuracy) ELSE s
TurnInv(par, k, s) == Walks(par.g, s)

TurnLoop == INSTANCE FoldInduction WITH Op <- TurnStep, Inv <- TurnInv

LEMMA LookaheadLeaves ==
    ASSUME NEW g, DOMAIN g = StateFields, NEW line, NEW sig, NEW accuracy
    PROVE  Leaves(g, Lookahead(g, line, sig, accuracy))
<1>. DEFINE par  == [g |-> g, line |-> line, accuracy |-> accuracy]
            base == [g |-> g, sig |-> sig, base |-> line, look |-> 100, depth |-> 0, way |-> 0,
                     queue |-> << >>, head |-> 1, again |-> TRUE]
            n    == QueueSize + 2
            turns == [k \in 1 .. n |-> k]
<1>1. Lookahead(g, line, sig, accuracy) = TurnLoop!Fold(par, base, turns).g
  BY DEF Lookahead, TurnLoop!Fold, TurnStep, FoldLeft, TurnLoop!FoldLeft, MapThenFoldSet,
         TurnLoop!MapThenFoldSet, Max, TurnLoop!Max
<1>2. TurnInv(par, 0, base)
  <2>1. << >> \in Seq({})
    BY EmptySeq
  <2>. QED BY <2>1 DEF TurnInv, Walks, WalkFields, Leaves
<1>3. TurnLoop!KeepsTo(par, turns, n)
  BY LookaheadTurnWalks DEF TurnLoop!KeepsTo, TurnInv, TurnStep
<1>4. n \in Nat /\ DOMAIN turns = 1 .. n
  BY SppAssumption
<1>. HIDE DEF base, turns, n
<1>5. TurnInv(par, n, TurnLoop!Fold(par, base, turns))
  BY <1>2, <1>3, <1>4, TurnLoop!FoldKeepsTo
<1>. QED BY <1>1, <1>5 DEF TurnInv, Walks
-----------------------------------------------------------------------------
LEMMA LearntOK ==
    ASSUME NEW g, DOMAIN g = StateFields, SignaturesOK(g.st),
           DOMAIN g.pt = 0 .. PtSets - 1, \A s \in 0 .. PtSets - 1 : PatternOK(g.pt[s]),
           NEW r, r.last # 0 => r.delta # 0
    PROVE  /\ DOMAIN Learnt(g, r) = StateFields /\ SignaturesOK(Learnt(g, r).st)
           /\ DOMAIN Learnt(g, r).pt = 0 .. PtSets - 1
           /\ \A s \in 0 .. PtSets - 1 : PatternOK(Learnt(g, r).pt[s])
<1>1. CASE r.last = 0
  BY <1>1 DEF Learnt
<1>2. CASE r.last # 0
  <2>. DEFINE n == r.last % PtSets
              x == Learnt(g, r)
  <2>1. x = [g EXCEPT !.pt[n] = PatternUpdated(@, r.delta)]
    BY <1>2 DEF Learnt
  <2>2. DOMAIN x = StateFields /\ x.st = g.st
        /\ x.pt = [g.pt EXCEPT ![n] = PatternUpdated(@, r.delta)]
    BY <2>1 DEF StateFields
  <2>3. \A s \in 0 .. PtSets - 1 : PatternOK(PatternUpdated(g.pt[s], r.delta))
    BY <1>2, PatternUpdatedOK
  <2>. HIDE DEF x, n
  <2>4. DOMAIN x.pt = 0 .. PtSets - 1
    BY <2>2
  <2>5. \A s \in 0 .. PtSets - 1 : PatternOK(x.pt[s])
    BY <2>2, <2>3
  <2>6. /\ DOMAIN x = StateFields /\ SignaturesOK(x.st)
        /\ DOMAIN x.pt = 0 .. PtSets - 1
        /\ \A s \in 0 .. PtSets - 1 : PatternOK(x.pt[s])
    BY <2>2, <2>4, <2>5
  <2>. QED BY <2>6 DEF x
<1>. QED BY <1>1, <1>2

LEMMA InitSppIInv == SppInit => SppIInv
<1>. SUFFICES ASSUME SppInit PROVE SppIInv
  OBVIOUS
<1>. USE SppConstants
<1>1. /\ DOMAIN spp = StateFields
      /\ spp.pt = [s \in 0 .. PtSets - 1 |-> NoPattern]
      /\ spp.st = [w \in 1 .. StWays |->
                     [valid |-> FALSE, page |-> 0, last |-> 0, sig |-> 0, lru |-> w - 1]]
  BY DEF SppInit, NewSpp, StateFields
<1>2. SignaturesOK(spp.st)
  <2>1. \A w \in 1 .. StWays : WayOK(spp.st[w]) /\ spp.st[w].valid = FALSE /\ spp.st[w].lru = w - 1
    <3>1. ASSUME NEW w \in 1 .. StWays PROVE w - 1 \in 0 .. StWays - 1
      OBVIOUS
    <3>3. ASSUME NEW w \in 1 .. StWays
          PROVE  /\ DOMAIN spp.st[w] = {"valid", "page", "last", "sig", "lru"}
                 /\ spp.st[w].valid = FALSE /\ spp.st[w].lru = w - 1
      <4>1. spp.st[w] = [valid |-> FALSE, page |-> 0, last |-> 0, sig |-> 0, lru |-> w - 1]
        BY <1>1
      <4>2. DOMAIN spp.st[w] = {"valid", "page", "last", "sig", "lru"}
        BY <4>1
      <4>3. spp.st[w].lru = w - 1
        BY <4>1
      <4>4. spp.st[w].valid = FALSE
        BY <4>1
      <4>. QED BY <4>2, <4>3, <4>4
    <3>. QED BY <3>1, <3>3 DEF WayOK
  <2>2. ASSUME NEW a \in 0 .. StWays - 1 PROVE \E w \in 1 .. StWays : spp.st[w].lru = a
    <3>1. a + 1 \in 1 .. StWays /\ (a + 1) - 1 = a
      OBVIOUS
    <3>. QED BY <2>1, <3>1
  <2>3. DOMAIN spp.st = 1 .. StWays
    BY <1>1
  <2>. QED BY <2>1, <2>2, <2>3 DEF SignaturesOK
<1>3. PatternOK(NoPattern)
  <2>1. PatternShape(NoPattern)
    BY DEF PatternShape, NoPattern
  <2>2. \A w \in 1 .. PtWays : Counts(NoPattern)[w] = 0
    BY DEF Counts, NoPattern
  <2>3. SumOf(NoPattern) = 0
    BY <2>1, <2>2, CountsAre, SumIsTotal, TotalOfNone
  <2>. QED BY <2>1, <2>3 DEF PatternOK, NoPattern
<1>. QED BY <1>1, <1>2, <1>3 DEF SppIInv

LEMMA NextSppIInv == SppIInv /\ [SppNext]_sppVars => SppIInv'
<1>. SUFFICES ASSUME SppIInv, [SppNext]_sppVars PROVE SppIInv'
  OBVIOUS
<1>. USE DEF SppIInv
<1>1. ASSUME NEW page \in SppPages, NEW offset \in 0 .. PageLines - 1, Demand(page, offset)
      PROVE  SppIInv'
  <2>. DEFINE line == page * PageLines + offset
              r    == ReadAndUpdateSig(spp, page, offset)
              h    == Demanded(r.g, line)
              g    == Learnt(h, r)
  <2>1. PICK accuracy : spp' = Lookahead(g, line, r.curr, accuracy)
    BY <1>1 DEF Demand
  <2>2. /\ DOMAIN r.g = StateFields /\ SignaturesOK(r.g.st) /\ r.g.pt = spp.pt
        /\ r.last # 0 => r.delta # 0
    BY ReadAndUpdateSigOK
  <2>. HIDE DEF r
  <2>3. Leaves(r.g, r.g)
    BY <2>2 DEF Leaves
  <2>4. Leaves(r.g, h)
    BY <2>3, FilterLeaves
  <2>5. /\ DOMAIN h = StateFields /\ SignaturesOK(h.st)
        /\ DOMAIN h.pt = 0 .. PtSets - 1 /\ \A s \in 0 .. PtSets - 1 : PatternOK(h.pt[s])
    <3>. HIDE DEF h
    <3>. QED BY <2>2, <2>4 DEF Leaves
  <2>. HIDE DEF h
  <2>6. /\ DOMAIN g = StateFields /\ SignaturesOK(g.st)
        /\ DOMAIN g.pt = 0 .. PtSets - 1 /\ \A s \in 0 .. PtSets - 1 : PatternOK(g.pt[s])
    BY <2>2, <2>5, LearntOK
  <2>. HIDE DEF g
  <2>7. Leaves(g, spp')
    BY <2>1, <2>6, LookaheadLeaves
  <2>. QED BY <2>6, <2>7 DEF Leaves
<1>2. ASSUME NEW line, Fill(line) PROVE SppIInv'
  <2>1. Leaves(spp, spp)
    BY DEF Leaves
  <2>2. Leaves(spp, spp')
    BY <1>2, <2>1, FilterLeaves DEF Fill
  <2>. QED BY <2>2 DEF Leaves
<1>3. CASE UNCHANGED sppVars
  BY <1>3 DEF sppVars
<1>. QED BY <1>1, <1>2, <1>3 DEF SppNext

LEMMA SppAlways == SppSpec => []SppIInv
<1>. QED BY InitSppIInv, NextSppIInv, PTL DEF SppSpec

LEMMA IInvImpliesSpp == SppIInv => PatternCountersAgree /\ SignatureTableSound
<1>. SUFFICES ASSUME SppIInv PROVE PatternCountersAgree /\ SignatureTableSound
  OBVIOUS
<1>. USE SppConstants
<1>1. PatternCountersAgree
  BY DEF SppIInv, PatternCountersAgree, PatternOK
<1>2. {spp.st[w].lru : w \in 1 .. StWays} = 0 .. StWays - 1
  <2>1. \A w \in 1 .. StWays : spp.st[w].lru \in 0 .. StWays - 1
    BY DEF SppIInv, SignaturesOK, WayOK
  <2>2. \A a \in 0 .. StWays - 1 : \E w \in 1 .. StWays : spp.st[w].lru = a
    BY DEF SppIInv, SignaturesOK
  <2>. QED BY <2>1, <2>2
<1>3. SignatureTableSound
  BY <1>2 DEF SppIInv, SignaturesOK, SignatureTableSound
<1>. QED BY <1>1, <1>3

\* SppTablesSound, of the prefetcher among the others: the counters of a pattern sum up to
\* less than that of its signature, also after they were halved, the ages of the signature
\* table stay a permutation, and no page has two entries.
THEOREM SppTablesStaySound == RunSpec => []SppTablesSound
<1>1. RunSpec => SppSpec
  <2>1. RunInit => SppInit
    BY DEF RunInit
  <2>2. RunNext => SppNext \/ UNCHANGED sppVars
    BY DEF RunNext
  <2>3. UNCHANGED <<part, bertiVars, sppVars, strideVars, ampmVars, replVars>>
            => UNCHANGED sppVars
    OBVIOUS
  <2>4. [RunNext]_<<part, bertiVars, sppVars, strideVars, ampmVars, replVars>>
            => [SppNext]_sppVars
    BY <2>2, <2>3
  <2>. QED BY <2>1, <2>4, PTL DEF RunSpec, SppSpec
<1>. QED BY <1>1, SppAlways, IInvImpliesSpp, PTL DEF SppTablesSound
=============================================================================
