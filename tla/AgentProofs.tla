---------------------------- MODULE AgentProofs ----------------------------
(***************************************************************************)
(* Proofs about AgentRuntime and Spans, for any number of acts, agents,    *)
(* names and tools and any limits: what an act may ask of the models is    *)
(* bounded, and what the studio shows of a turn is what happened in it.    *)
(***************************************************************************)
EXTENDS AgentRuntime, WellFoundedInduction, TLAPS

Call  == [n : Nat, tool : Tools \cup Names \cup {NoAgent}, agent : Agents \cup {NoAgent}]
Level == [cfg : Config, left : 0..MaxRounds, todo : Nat, call : Call]
Made  == [parent : Nat, fate : {"open", "ok", "failed", "refused", "cut"}]

\* The types of the runtime.
RuntimeTypes ==
  /\ live \in Lists /\ streams \subseteq Chats
  /\ pc \in [Acts -> {"idle", "enter", "run", "finish", "close", "ended", "gone", "dead"}]
  /\ stack \in [Acts -> Seq(Level)] /\ opened \in [Acts -> Nat] /\ tries \in [Acts -> Nat]
  /\ queued \in Nat /\ asked \in [Acts -> Nat] /\ made \in [Acts -> Seq(Made)]
  /\ mishaps \in Nat

\* Agents wait for those they called, and only for a call of a round.
Nested(s) ==
  /\ Len(s) <= MaxDepth + 1
  /\ \A i \in DOMAIN s : s[i].call # NoCall => s[i].todo > 0
  /\ \A i \in DOMAIN s : i < Len(s) => s[i].call # NoCall

\* What a call of the agent at level i costs at most, and what the agent of frame
\* f may still set off there with n calls to come in this round.
Under(i)        == Cost[MaxDepth + 1 - i]
ToCome(f, n, i) == f.left + 1 + (f.left * MaxBatch + n) * Under(i)

\* `room[i]` bounds what has been asked when the agent at level i is done.
Fits(s, n, room) ==
  /\ room \in Seq(Nat) /\ Len(room) = Len(s)
  /\ \A i \in 1..Len(s) : room[i] <= Most
  /\ \A i \in 1..Len(s) - 1 : room[i + 1] + ToCome(s[i], s[i].todo - 1, i) <= room[i]
  /\ n + ToCome(s[Len(s)], s[Len(s)].todo, Len(s)) <= room[Len(s)]

Room(s, n) == \E room \in Seq(Nat) : Fits(s, n, room)

\* A stack whose act is at p and has asked n times.
Fit(p, s, n) == Nested(s) /\ n <= Most /\ ((p = "run" /\ s # <<>>) => Room(s, n))

WorkIInv == \A a \in Acts : Fit(pc[a], stack[a], asked[a])

-----------------------------------------------------------------------------
(* Bounded work *)

\* A nonempty set of numbers has a least element.
LEMMA Least ==
  ASSUME NEW N \in SUBSET Nat, N # {}
  PROVE  \E n \in N : \A m \in N : n <= m
<1> DEFINE R == OpToRel(<, Nat)
<1>1. IsWellFoundedOn(R, Nat) BY NatLessThanWellFounded
<1>2. R = {p \in Nat \X Nat : p[1] < p[2]} BY DEF OpToRel
<1> HIDE DEF R
<1>3. PICK n \in N : \A m \in N : <<m, n>> \notin R BY <1>1, WFMin
<1>4. ASSUME NEW m \in N PROVE n <= m
  <2>1. <<m, n>> \in Nat \X Nat OBVIOUS
  <2> QED BY <1>2, <1>3, <2>1
<1> QED BY <1>3, <1>4

\* One step of the cost, from the cost one level down.
Deeper(g, k) == IF k = 0 THEN 0 ELSE MaxRounds + 1 + MaxRounds * MaxBatch * g[k - 1]

\* The recursive definition of the cost has a solution.
LEMMA CostDefined ==
  ASSUME NEW D \in Nat
  PROVE  \E g : g = [k \in 0..D |-> Deeper(g, k)]
<1> DEFINE Fine(n, g) == \A k \in 0..D : k <= n => g[k] = Deeper(g, k)
           Bad == {n \in Nat : \A g : ~Fine(n, g)}
<1>1. Bad = {}
  <2> SUFFICES ASSUME Bad # {} PROVE FALSE OBVIOUS
  <2>1. PICK n \in Bad : \A m \in Bad : n <= m
    <3>1. Bad \in SUBSET Nat OBVIOUS
    <3> HIDE DEF Bad
    <3> QED BY <3>1, Least
  <2>2. n \in Nat /\ (n = 0 \/ (n - 1 \in Nat /\ \E g : Fine(n - 1, g)))
    <3>1. n = 0 \/ (n - 1 \in Nat /\ n - 1 \notin Bad) BY <2>1
    <3> QED BY <3>1
  <2>3. CASE n = 0
    <3> DEFINE g == [k \in 0..D |-> 0]
    <3>1. Fine(0, g) BY DEF Deeper
    <3> QED BY <2>3, <3>1
  <2>4. CASE n # 0
    <3>1. PICK g : Fine(n - 1, g) BY <2>2, <2>4
    <3> DEFINE h == [k \in 0..D |-> Deeper(g, k)]
    <3>2. ASSUME NEW k \in 0..D, k <= n PROVE h[k] = Deeper(h, k)
      <4>1. CASE k = 0 BY <4>1 DEF Deeper
      <4>2. CASE k # 0
        <5>1. k - 1 \in 0..D /\ k - 1 <= n - 1 BY <2>2, <3>2, <4>2
        <5>2. g[k - 1] = h[k - 1] BY <3>1, <5>1
        <5> QED BY <3>2, <4>2, <5>2 DEF Deeper
      <4> QED BY <4>1, <4>2
    <3>3. Fine(n, h) BY <3>2
    <3> QED BY <3>3
  <2> QED BY <2>3, <2>4
<1>2. PICK g : Fine(D, g) BY <1>1
<1> DEFINE h == [k \in 0..D |-> g[k]]
<1>3. \A k \in 0..D : h[k] = Deeper(h, k)
  <2> SUFFICES ASSUME NEW k \in 0..D PROVE h[k] = Deeper(h, k) OBVIOUS
  <2>1. g[k] = Deeper(g, k) BY <1>2
  <2>2. k # 0 => k - 1 \in 0..D OBVIOUS
  <2> QED BY <2>1, <2>2 DEF Deeper
<1>4. h = [k \in 0..D |-> Deeper(h, k)]
  <2>1. h = [k \in 0..D |-> h[k]] OBVIOUS
  <2> HIDE DEF h
  <2>2. [k \in 0..D |-> h[k]] = [k \in 0..D |-> Deeper(h, k)] BY <1>3
  <2> QED BY <2>1, <2>2
<1> QED BY <1>4

LEMMA CostFacts ==
  /\ \A k \in 0..(MaxDepth + 1) : Cost[k] \in Nat
  /\ Cost[0] = 0
  /\ \A k \in 1..(MaxDepth + 1) : Cost[k] = MaxRounds + 1 + MaxRounds * MaxBatch * Cost[k - 1]
<1> USE RuntimeAssumption
<1> DEFINE D == MaxDepth + 1
           g == CHOOSE h : h = [k \in 0..D |-> Deeper(h, k)]
<1>1. Cost = g BY DEF Cost, Deeper
<1>2. g = [k \in 0..D |-> Deeper(g, k)] BY CostDefined
<1> HIDE DEF g
<1>3. \A k \in 0..D : Cost[k] = Deeper(Cost, k) BY <1>1, <1>2
<1>4. Cost[0] = 0 BY <1>3 DEF Deeper
<1>5. \A k \in 1..D : Cost[k] = MaxRounds + 1 + MaxRounds * MaxBatch * Cost[k - 1]
  BY <1>3 DEF Deeper
<1> DEFINE Bad == {k \in 0..D : Cost[k] \notin Nat}
<1>6. Bad = {}
  <2> SUFFICES ASSUME Bad # {} PROVE FALSE OBVIOUS
  <2>1. PICK k \in Bad : \A m \in Bad : k <= m
    <3>1. Bad \in SUBSET Nat OBVIOUS
    <3> HIDE DEF Bad
    <3> QED BY <3>1, Least
  <2>2. k # 0 BY <1>4, <2>1
  <2>3. k \in 1..D /\ k - 1 \in 0..D /\ k - 1 \notin Bad BY <2>1, <2>2
  <2>4. Cost[k - 1] \in Nat BY <2>3
  <2>5. MaxRounds * MaxBatch * Cost[k - 1] \in Nat BY <2>4
  <2> QED BY <1>5, <2>1, <2>3, <2>5
<1> QED BY <1>4, <1>5, <1>6

LEMMA Monotone ==
  ASSUME NEW a \in Nat, NEW b \in Nat, NEW c \in Nat, a <= b
  PROVE  a * c \in Nat /\ b * c \in Nat /\ a * c <= b * c
OBVIOUS

LEMMA UnderNat ==
  ASSUME NEW i \in 1..(MaxDepth + 1) PROVE Under(i) \in Nat
<1>1. MaxDepth + 1 - i \in 0..(MaxDepth + 1) BY RuntimeAssumption
<1> QED BY <1>1, CostFacts DEF Under

LEMMA ToComeNat ==
  ASSUME NEW f \in Level, NEW n \in Nat, NEW i \in 1..(MaxDepth + 1)
  PROVE  ToCome(f, n, i) \in Nat /\ ToCome(f, n, i) >= 1
<1>1. f.left \in Nat BY RuntimeAssumption DEF Level
<1>2. PICK u \in Nat : u = Under(i) BY UnderNat
<1>3. PICK p \in Nat : p = f.left * MaxBatch BY <1>1, RuntimeAssumption
<1>4. (p + n) * u \in Nat BY Monotone
<1> QED BY <1>1, <1>2, <1>3, <1>4 DEF ToCome

\* One call costs what a call costs.
LEMMA OneCall ==
  ASSUME NEW f \in Level, NEW n \in Nat, n > 0, NEW i \in 1..(MaxDepth + 1)
  PROVE  ToCome(f, n, i) = ToCome(f, n - 1, i) + Under(i)
<1>1. f.left \in Nat BY RuntimeAssumption DEF Level
<1>2. PICK u \in Nat : u = Under(i) BY UnderNat
<1>3. PICK p \in Nat : p = f.left * MaxBatch BY <1>1, RuntimeAssumption
<1>4. (p + n) * u = (p + (n - 1)) * u + u BY <1>2, <1>3
<1>5. (p + n) * u \in Nat /\ (p + (n - 1)) * u \in Nat BY Monotone
<1> QED BY <1>1, <1>2, <1>3, <1>4, <1>5 DEF ToCome

\* A round costs no more than its share.
LEMMA OneRound ==
  ASSUME NEW f \in Level, NEW g \in Level, f.left > 0, g.left = f.left - 1,
         NEW n \in 1..MaxBatch, NEW i \in 1..(MaxDepth + 1)
  PROVE  ToCome(g, n, i) + 1 <= ToCome(f, 0, i)
<1>1. f.left \in Nat /\ MaxBatch \in Nat BY RuntimeAssumption DEF Level
<1>2. PICK u \in Nat : u = Under(i) BY UnderNat
<1>3. PICK p \in Nat : p = f.left * MaxBatch BY <1>1
<1>4. PICK q \in Nat : q = g.left * MaxBatch BY <1>1
<1>5. p = q + MaxBatch BY <1>1, <1>3, <1>4
<1>6. (q + n) * u \in Nat /\ (p + 0) * u \in Nat /\ (q + n) * u <= (p + 0) * u
  BY <1>1, <1>5, Monotone
<1> QED BY <1>1, <1>2, <1>3, <1>4, <1>6 DEF ToCome

\* An agent that has just been entered stays within what a call may cost.
LEMMA FreshFits ==
  ASSUME NEW f \in Level, NEW i \in 1..(MaxDepth + 1)
  PROVE  ToCome(f, 0, i) <= Cost[MaxDepth + 2 - i]
<1>1. f.left \in Nat /\ f.left <= MaxRounds /\ MaxRounds \in Nat /\ MaxBatch \in Nat /\ MaxDepth \in Nat
  BY RuntimeAssumption DEF Level
<1>2. PICK u \in Nat : u = Under(i) BY UnderNat
<1>3. PICK p \in Nat : p = f.left * MaxBatch BY <1>1
<1>4. PICK q \in Nat : q = MaxRounds * MaxBatch BY <1>1
<1>5. p <= q BY <1>1, <1>3, <1>4, Monotone
<1>6. (p + 0) * u <= q * u /\ (p + 0) * u \in Nat /\ q * u \in Nat BY <1>5, Monotone
<1>7. Cost[MaxDepth + 2 - i] = MaxRounds + 1 + q * u
  <2>1. PICK k : k = MaxDepth + 2 - i OBVIOUS
  <2>2. k \in 1..(MaxDepth + 1) /\ k - 1 = MaxDepth + 1 - i BY <1>1, <2>1
  <2>3. Cost[k] = MaxRounds + 1 + MaxRounds * MaxBatch * Cost[k - 1] BY <2>2, CostFacts
  <2> QED BY <1>2, <1>4, <2>1, <2>2, <2>3 DEF Under
<1> QED BY <1>1, <1>2, <1>3, <1>6, <1>7 DEF ToCome

\* The level on top of a stack.
LEMMA TopLevel ==
  ASSUME NEW s \in Seq(Level), s # <<>>
  PROVE  /\ Len(s) \in Nat \ {0} /\ s[Len(s)] \in Level
         /\ s[Len(s)].todo \in Nat /\ s[Len(s)].left \in Nat
         /\ \A i \in 1..Len(s) : s[i] \in Level /\ s[i].todo \in Nat
<1>1. Len(s) \in Nat \ {0} OBVIOUS
<1>2. \A i \in 1..Len(s) : s[i] \in Level OBVIOUS
<1>3. \A f \in Level : f.todo \in Nat /\ f.left \in Nat BY RuntimeAssumption DEF Level
<1> QED BY <1>1, <1>2, <1>3

\* The rooms of a stack, one by one.
LEMMA Rooms ==
  ASSUME NEW s \in Seq(Level), NEW n \in Nat, NEW room, Fits(s, n, room)
  PROVE  \A i \in 1..Len(s) : room[i] \in Nat /\ room[i] <= Most
BY DEF Fits

\* The agent on top goes on within what it had.
LEMMA FitsTop ==
  ASSUME NEW s \in Seq(Level), s # <<>>, Len(s) <= MaxDepth + 1, NEW n \in Nat, NEW room, Fits(s, n, room),
         NEW t \in Seq(Level), Len(t) = Len(s), \A i \in 1..Len(s) - 1 : t[i] = s[i], NEW m \in Nat,
         m + ToCome(t[Len(s)], t[Len(s)].todo, Len(s)) <= n + ToCome(s[Len(s)], s[Len(s)].todo, Len(s))
  PROVE  Fits(t, m, room) /\ m <= Most
<1>1. PICK k : k = Len(s) OBVIOUS
<1>2. k \in 1..(MaxDepth + 1) /\ k \in 1..k BY <1>1, TopLevel, RuntimeAssumption
<1>3. t # <<>> BY <1>1, <1>2
<1>4. PICK c \in Nat : c = ToCome(s[k], s[k].todo, k) BY <1>1, <1>2, TopLevel, ToComeNat
<1>5. PICK d \in Nat : d = ToCome(t[k], t[k].todo, k) BY <1>1, <1>2, <1>3, TopLevel, ToComeNat
<1>6. PICK r \in Nat : r = room[k] /\ r <= Most BY <1>1, <1>2, Rooms
<1>7. n + c <= r BY <1>1, <1>4, <1>6 DEF Fits
<1>8. m + d <= n + c BY <1>1, <1>4, <1>5
<1>9. m + d <= r BY <1>7, <1>8
<1>10. m <= Most
  <2>1. Most \in Nat BY CostFacts, RuntimeAssumption DEF Most
  <2> QED BY <1>6, <1>9, <2>1
<1>11. Fits(t, m, room)
  <2>1. /\ room \in Seq(Nat) /\ Len(room) = k /\ \A i \in 1..k : room[i] <= Most BY <1>1 DEF Fits
  <2>2. \A i \in 1..k - 1 : room[i + 1] + ToCome(t[i], t[i].todo - 1, i) <= room[i]
    BY <1>1 DEF Fits
  <2> QED BY <1>1, <1>5, <1>6, <1>9, <2>1, <2>2 DEF Fits
<1> QED BY <1>10, <1>11

\* An agent that is entered takes its room from its caller's.
LEMMA FitsPush ==
  ASSUME NEW s \in Seq(Level), s # <<>>, Len(s) <= MaxDepth, NEW n \in Nat, NEW room, Fits(s, n, room),
         s[Len(s)].todo > 0, NEW f \in Level, f.todo = 0
  PROVE  Room(Append(s, f), n)
<1>1. PICK k : k = Len(s) OBVIOUS
<1>2. k \in 1..(MaxDepth + 1) /\ k + 1 \in 1..(MaxDepth + 1) /\ k \in 1..k
  BY <1>1, TopLevel, RuntimeAssumption
<1>3. PICK t : t = Append(s, f) OBVIOUS
<1>0. s[k] \in Level /\ s[k].todo \in Nat /\ s[k].todo > 0 /\ s[k].todo - 1 \in Nat BY <1>1, TopLevel
<1>4. Len(t) = k + 1 /\ t[k + 1] = f /\ \A i \in 1..k : t[i] = s[i] BY <1>1, <1>3
<1>5. PICK c \in Nat : c = ToCome(s[k], s[k].todo, k) BY <1>1, <1>2, TopLevel, ToComeNat
<1>6. PICK d \in Nat : d = ToCome(s[k], s[k].todo - 1, k) BY <1>0, <1>2, ToComeNat
<1>7. PICK u \in Nat : u = Under(k) BY <1>2, UnderNat
<1>8. c = d + u
  <2>1. PICK m \in Nat : m = s[k].todo /\ m > 0 BY <1>0
  <2>2. PICK g \in Level : g = s[k] BY <1>0
  <2>3. ToCome(g, m, k) = ToCome(g, m - 1, k) + Under(k) BY <1>2, <2>1, OneCall
  <2> QED BY <1>5, <1>6, <1>7, <2>1, <2>2, <2>3
<1>9. PICK e \in Nat : e = ToCome(f, f.todo, k + 1) BY <1>2, ToComeNat
<1>10. e <= u
  <2>1. MaxDepth + 2 - (k + 1) = MaxDepth + 1 - k BY <1>2, RuntimeAssumption
  <2> QED BY <1>2, <1>7, <1>9, <2>1, FreshFits DEF Under
<1>11. PICK r \in Nat : r = room[k] /\ r <= Most BY <1>1, <1>2, Rooms
<1>12. n + c <= r BY <1>1, <1>5, <1>11 DEF Fits
<1>13. PICK q : q = Append(room, r - d) OBVIOUS
<1>14. r - d \in Nat /\ n + e <= r - d /\ (r - d) + d <= r BY <1>8, <1>10, <1>12
<1>15. room \in Seq(Nat) /\ Len(room) = k BY <1>1 DEF Fits
<1>16. q \in Seq(Nat) /\ Len(q) = k + 1 /\ q[k + 1] = r - d /\ \A i \in 1..k : q[i] = room[i]
  BY <1>2, <1>13, <1>14, <1>15
<1>17. \A i \in 1..k + 1 : q[i] <= Most
  <2>1. Most \in Nat BY CostFacts, RuntimeAssumption DEF Most
  <2>2. r - d <= Most BY <1>11, <2>1
  <2>3. \A i \in 1..k : room[i] <= Most BY <1>1 DEF Fits
  <2> QED BY <1>2, <1>16, <2>2, <2>3
<1>18. \A i \in 1..k : q[i + 1] + ToCome(t[i], t[i].todo - 1, i) <= q[i]
  <2> SUFFICES ASSUME NEW i \in 1..k PROVE q[i + 1] + ToCome(t[i], t[i].todo - 1, i) <= q[i] OBVIOUS
  <2>1. CASE i = k BY <1>4, <1>6, <1>11, <1>14, <1>16, <2>1
  <2>2. CASE i # k
    <3>1. i \in 1..k - 1 /\ i + 1 \in 1..k BY <1>2, <2>2
    <3>2. room[i + 1] + ToCome(s[i], s[i].todo - 1, i) <= room[i] BY <1>1, <3>1 DEF Fits
    <3> QED BY <1>4, <1>16, <3>1, <3>2
  <2> QED BY <2>1, <2>2
<1>19. Fits(t, n, q)
  <2>1. Len(t) - 1 = k BY <1>2, <1>4
  <2> QED BY <1>4, <1>9, <1>14, <1>16, <1>17, <1>18, <2>1 DEF Fits
<1> QED BY <1>3, <1>16, <1>19 DEF Room

\* An agent that answers, or fails, has asked once more; its caller goes on.
LEMMA FitsReturn ==
  ASSUME NEW s \in Seq(Level), Len(s) <= MaxDepth + 1, Len(s) > 1, NEW n \in Nat, NEW room, Fits(s, n, room),
         s[Len(s) - 1].todo > 0,
         NEW t \in Seq(Level), Len(t) = Len(s) - 1, \A i \in 1..Len(s) - 2 : t[i] = s[i],
         t[Len(s) - 1].left = s[Len(s) - 1].left, t[Len(s) - 1].todo = s[Len(s) - 1].todo - 1
  PROVE  Room(t, n + 1) /\ n + 1 <= Most
<1>0. s # <<>> OBVIOUS
<1>1. PICK k : k = Len(s) - 1 OBVIOUS
<1>2. k \in 1..(MaxDepth + 1) /\ k + 1 \in 1..(MaxDepth + 1) /\ k \in 1..k /\ Len(s) = k + 1
  BY <1>1, RuntimeAssumption
<1>4. s[k] \in Level /\ s[k + 1] \in Level /\ s[k].todo \in Nat /\ s[k + 1].todo \in Nat
  BY <1>0, <1>2, TopLevel
<1>5. PICK c \in Nat : c = ToCome(s[k + 1], s[k + 1].todo, k + 1) /\ c >= 1 BY <1>2, <1>4, ToComeNat
<1>3. s[k].todo - 1 \in Nat BY <1>1, <1>4
<1>6. PICK d \in Nat : d = ToCome(s[k], s[k].todo - 1, k) BY <1>2, <1>3, <1>4, ToComeNat
<1>7. PICK r \in Nat : r = room[k] /\ r <= Most BY <1>2, Rooms
<1>8. PICK p \in Nat : p = room[k + 1] BY <1>2, Rooms
<1>9. n + c <= p BY <1>2, <1>5, <1>8 DEF Fits
<1>10. p + d <= r BY <1>2, <1>6, <1>7, <1>8 DEF Fits
<1>11. (n + 1) + d <= r BY <1>5, <1>9, <1>10
<1>12. n + 1 <= Most
  <2>1. Most \in Nat BY CostFacts, RuntimeAssumption DEF Most
  <2> QED BY <1>7, <1>11, <2>1
<1>13. PICK q : q = SubSeq(room, 1, k) OBVIOUS
<1>14. room \in Seq(Nat) /\ Len(room) = k + 1 BY <1>2 DEF Fits
<1>15. q \in Seq(Nat) /\ Len(q) = k /\ \A i \in 1..k : q[i] = room[i]
  BY <1>2, <1>13, <1>14
<1>16. \A i \in 1..k : q[i] <= Most BY <1>2, <1>15 DEF Fits
<1>17. \A i \in 1..k - 1 : q[i + 1] + ToCome(t[i], t[i].todo - 1, i) <= q[i]
  <2> SUFFICES ASSUME NEW i \in 1..k - 1 PROVE q[i + 1] + ToCome(t[i], t[i].todo - 1, i) <= q[i] OBVIOUS
  <2>1. i \in 1..k /\ i + 1 \in 1..k BY <1>2
  <2>2. room[i + 1] + ToCome(s[i], s[i].todo - 1, i) <= room[i] BY <1>2, <2>1 DEF Fits
  <2>3. t[i] = s[i] BY <1>1, <1>2
  <2> QED BY <1>15, <2>1, <2>2, <2>3
<1>18. ToCome(t[k], t[k].todo, k) = d BY <1>1, <1>6 DEF ToCome
<1>19. Fits(t, n + 1, q)
  <2>1. Len(t) = k BY <1>1
  <2> QED BY <1>2, <1>7, <1>11, <1>15, <1>16, <1>17, <1>18, <2>1 DEF Fits
<1> QED BY <1>12, <1>15, <1>19 DEF Room

LEMMA FitsEnter ==
  ASSUME NEW f \in Level, f.todo = 0 PROVE Room(<<f>>, 0)
<1>1. PICK m \in Nat : m = Most BY CostFacts, RuntimeAssumption DEF Most
<1>2. PICK s : s = <<f>> OBVIOUS
<1>3. Len(s) = 1 /\ s[1] = f BY <1>2
<1>4. PICK q : q = <<m>> OBVIOUS
<1>5. q \in Seq(Nat) /\ Len(q) = 1 /\ q[1] = m BY <1>4
<1>6. ToCome(f, 0, 1) <= m /\ ToCome(f, 0, 1) \in Nat
  <2>1. 1 \in 1..(MaxDepth + 1) /\ MaxDepth + 2 - 1 = MaxDepth + 1 BY RuntimeAssumption
  <2> QED BY <1>1, <2>1, FreshFits, ToComeNat DEF Most
<1>7. Fits(s, 0, q) BY <1>1, <1>3, <1>5, <1>6 DEF Fits
<1> QED BY <1>2, <1>5, <1>7 DEF Room

-----------------------------------------------------------------------------
(* What the operations do to a stack *)

LEMMA Configured ==
  ASSUME live \in Lists, NEW g \in Agents, live[g] # NoAgent
  PROVE  Frame(g) \in Level /\ Frame(g).todo = 0
<1>1. live[g] \in Config BY RuntimeAssumption
<1>2. NoCall \in Call BY DEF NoCall, Call
<1>3. live[g].rounds \in 0..MaxRounds BY <1>1 DEF Config
<1> QED BY <1>1, <1>2, <1>3 DEF Frame, Level

LEMMA Prefix ==
  ASSUME NEW s \in Seq(Level), NEW k \in Nat, k <= Len(s), NEW t, t = SubSeq(s, 1, k)
  PROVE  t \in Seq(Level) /\ Len(t) = k /\ \A i \in 1..k : t[i] = s[i]
OBVIOUS

LEMMA SetShape ==
  ASSUME NEW s \in Seq(Level), s # <<>>, NEW f \in Level, NEW t, t = Append(SubSeq(s, 1, Len(s) - 1), f)
  PROVE  /\ t \in Seq(Level) /\ Len(t) = Len(s) /\ t[Len(s)] = f
         /\ \A i \in 1..Len(s) - 1 : t[i] = s[i]
<1>1. Len(s) \in Nat /\ Len(s) > 0 OBVIOUS
<1>2. PICK r : r = SubSeq(s, 1, Len(s) - 1) OBVIOUS
<1>6. PICK k \in Nat : k = Len(s) - 1 /\ k <= Len(s) BY <1>1
<1>3. r \in Seq(Level) /\ Len(r) = Len(s) - 1 /\ \A i \in 1..Len(s) - 1 : r[i] = s[i]
  BY <1>2, <1>6, Prefix
<1>4. t = Append(r, f) BY <1>2
<1>5. t \in Seq(Level) /\ Len(t) = Len(r) + 1 /\ t[Len(r) + 1] = f /\ \A i \in 1..Len(r) : t[i] = r[i]
  BY <1>3, <1>4
<1> QED BY <1>1, <1>3, <1>5

LEMMA PopShape ==
  ASSUME NEW s \in Seq(Level), s # <<>>, NEW t, t = SubSeq(s, 1, Len(s) - 1)
  PROVE  /\ t \in Seq(Level) /\ Len(t) = Len(s) - 1
         /\ \A i \in 1..Len(s) - 1 : t[i] = s[i]
<1>1. Len(s) \in Nat /\ Len(s) > 0 OBVIOUS
<1>2. PICK k \in Nat : k = Len(s) - 1 /\ k <= Len(s) BY <1>1
<1> QED BY <1>2, Prefix

\* The frame whose call has ended.
Back(f) == [f EXCEPT !.call = NoCall, !.todo = @ - 1]
\* A stack whose top has ended its call.
Ended(s) == [s EXCEPT ![Len(s)].call = NoCall, ![Len(s)].todo = @ - 1]

LEMMA EndShape ==
  ASSUME NEW s \in Seq(Level), s # <<>>, s[Len(s)].todo > 0, NEW t, t = Ended(s)
  PROVE  /\ t \in Seq(Level) /\ Len(t) = Len(s)
         /\ t[Len(s)].left = s[Len(s)].left /\ t[Len(s)].todo = s[Len(s)].todo - 1
         /\ t[Len(s)].call = NoCall
         /\ \A i \in 1..Len(s) - 1 : t[i] = s[i]
<1>1. PICK k : k = Len(s) OBVIOUS
<1>2. k \in 1..k /\ s[k] \in Level /\ s[k].todo \in Nat /\ s[k].todo > 0 BY <1>1, TopLevel
<1>3. PICK g : g = Back(s[k]) OBVIOUS
<1>4. g \in Level /\ g.left = s[k].left /\ g.todo = s[k].todo - 1 /\ g.call = NoCall
  <2>1. NoCall \in Call BY DEF NoCall, Call
  <2>2. s[k].todo - 1 \in Nat BY <1>2
  <2> QED BY <1>2, <1>3, <2>1, <2>2 DEF Back, Level
<1>5. t = [s EXCEPT ![k] = g]
  <2>1. DOMAIN t = DOMAIN s BY <1>1 DEF Ended
  <2>2. t[k] = g BY <1>1, <1>2, <1>3 DEF Ended, Back, Level
  <2> QED BY <1>1, <1>3 DEF Ended, Back
<1>6. t \in Seq(Level) /\ Len(t) = k BY <1>1, <1>4, <1>5
<1>9. k \in Nat /\ DOMAIN s = 1..k BY <1>1
<1>7. t[k] = g BY <1>2, <1>5, <1>9
<1>8. \A i \in 1..k - 1 : t[i] = s[i] BY <1>5, <1>9
<1> QED BY <1>1, <1>4, <1>6, <1>7, <1>8

LEMMA NestedTop ==
  ASSUME NEW s \in Seq(Level), s # <<>>, Nested(s), NEW t \in Seq(Level), Len(t) = Len(s),
         \A i \in 1..Len(s) - 1 : t[i] = s[i], (t[Len(s)].call # NoCall) => t[Len(s)].todo > 0
  PROVE  Nested(t)
<1>1. PICK k \in Nat : k = Len(s) OBVIOUS
<1>2. DOMAIN s = 1..k /\ DOMAIN t = 1..k BY <1>1
<1>3. \A i \in 1..k : i = k \/ i \in 1..k - 1 OBVIOUS
<1>4. Len(t) <= MaxDepth + 1 BY DEF Nested
<1>5. \A i \in 1..k - 1 : i < k /\ i \in 1..k BY <1>1
<1>6. \A i \in 1..k : t[i].call # NoCall => t[i].todo > 0 BY <1>1, <1>2, <1>3, <1>5 DEF Nested
<1>7. \A i \in 1..k : i < k => t[i].call # NoCall
  <2>1. ~(k < k) BY <1>1
  <2> QED BY <1>1, <1>2, <1>3, <1>5, <2>1 DEF Nested
<1> QED BY <1>1, <1>2, <1>4, <1>6, <1>7 DEF Nested

LEMMA NestedPush ==
  ASSUME NEW s \in Seq(Level), s # <<>>, Nested(s), Len(s) <= MaxDepth, s[Len(s)].call # NoCall,
         NEW f \in Level, f.call = NoCall
  PROVE  Nested(Append(s, f))
<1>1. PICK t : t = Append(s, f) OBVIOUS
<1>2. Len(s) \in Nat /\ DOMAIN s = 1..Len(s) OBVIOUS
<1>3. Len(t) = Len(s) + 1 /\ DOMAIN t = 1..Len(s) + 1 /\ t[Len(s) + 1] = f /\ \A i \in 1..Len(s) : t[i] = s[i]
  BY <1>1
<1>4. \A i \in 1..Len(s) + 1 : i = Len(s) + 1 \/ i \in 1..Len(s) BY <1>2
<1>5. \A i \in 1..Len(s) : s[i].call # NoCall
  <2>0. PICK k \in Nat : k = Len(s) BY <1>2
  <2>2. \A i \in 1..k : i = k \/ i < k BY <2>0
  <2>1. \A i \in 1..Len(s) : i = Len(s) \/ i < Len(s) BY <2>0, <2>2
  <2> QED BY <1>2, <2>1 DEF Nested
<1>6. Len(t) <= MaxDepth + 1 BY <1>2, <1>3, RuntimeAssumption
<1>7. \A i \in DOMAIN t : t[i].call # NoCall => t[i].todo > 0 BY <1>2, <1>3, <1>4 DEF Nested
<1>8. \A i \in DOMAIN t : i < Len(t) => t[i].call # NoCall BY <1>2, <1>3, <1>4, <1>5
<1> QED BY <1>1, <1>6, <1>7, <1>8 DEF Nested

LEMMA NestedPop ==
  ASSUME NEW s \in Seq(Level), s # <<>>, Nested(s)
  PROVE  Nested(SubSeq(s, 1, Len(s) - 1))
<1>1. PICK t : t = SubSeq(s, 1, Len(s) - 1) OBVIOUS
<1>2. Len(s) \in Nat /\ Len(s) > 0 /\ DOMAIN s = 1..Len(s) OBVIOUS
<1>3. t \in Seq(Level) /\ Len(t) = Len(s) - 1 /\ \A i \in 1..Len(s) - 1 : t[i] = s[i] BY <1>1, PopShape
<1>4. DOMAIN t = 1..Len(s) - 1 BY <1>3
<1>5. Len(t) <= MaxDepth + 1 BY <1>2, <1>3, RuntimeAssumption DEF Nested
<1>6. \A i \in 1..Len(s) - 1 : i \in DOMAIN s /\ i < Len(s) BY <1>2
<1>7. \A i \in DOMAIN t : t[i].call # NoCall => t[i].todo > 0 BY <1>3, <1>4, <1>6 DEF Nested
<1>8. \A i \in DOMAIN t : i < Len(t) => t[i].call # NoCall BY <1>3, <1>4, <1>6 DEF Nested
<1> QED BY <1>1, <1>5, <1>7, <1>8 DEF Nested

-----------------------------------------------------------------------------
(* What the operations do to the room of a stack *)

\* An agent has room for one answer more.
LEMMA FitLast ==
  ASSUME NEW s \in Seq(Level), Len(s) = 1, NEW n \in Nat, Fit("run", s, n)
  PROVE  n + 1 <= Most
<1>1. s # <<>> OBVIOUS
<1>2. PICK room : Fits(s, n, room) BY <1>1 DEF Fit, Room
<1>3. 1 \in 1..Len(s) /\ 1 \in 1..(MaxDepth + 1) BY RuntimeAssumption
<1>4. PICK r \in Nat : r = room[1] /\ r <= Most BY <1>2, <1>3, Rooms
<1>5. s[1] \in Level /\ s[1].todo \in Nat BY <1>1, <1>3, TopLevel
<1>6. PICK c \in Nat : c = ToCome(s[1], s[1].todo, 1) /\ c >= 1 BY <1>3, <1>5, ToComeNat
<1>7. n + c <= r BY <1>2, <1>4, <1>6 DEF Fits
<1>8. Most \in Nat BY CostFacts, RuntimeAssumption DEF Most
<1> QED BY <1>4, <1>6, <1>7, <1>8

LEMMA FitTop ==
  ASSUME NEW s \in Seq(Level), s # <<>>, NEW n \in Nat, Fit("run", s, n),
         NEW t \in Seq(Level), Len(t) = Len(s), \A i \in 1..Len(s) - 1 : t[i] = s[i], NEW m \in Nat,
         (t[Len(s)].call # NoCall) => t[Len(s)].todo > 0,
         m + ToCome(t[Len(s)], t[Len(s)].todo, Len(s)) <= n + ToCome(s[Len(s)], s[Len(s)].todo, Len(s))
  PROVE  Fit("run", t, m)
<1>1. Nested(s) /\ Len(s) <= MaxDepth + 1 BY DEF Fit, Nested
<1>2. PICK room : Fits(s, n, room) BY DEF Fit, Room
<1>3. Fits(t, m, room) /\ m <= Most BY <1>1, <1>2, FitsTop
<1>4. Nested(t) BY <1>1, NestedTop
<1>5. room \in Seq(Nat) BY <1>2 DEF Fits
<1> QED BY <1>3, <1>4, <1>5 DEF Fit, Room

\* A call ends, of an agent that goes on.
LEMMA FitBack ==
  ASSUME NEW s \in Seq(Level), s # <<>>, NEW n \in Nat, Fit("run", s, n), s[Len(s)].call # NoCall,
         NEW t, t = Ended(s)
  PROVE  t \in Seq(Level) /\ Fit("run", t, n)
<1>1. PICK k : k = Len(s) OBVIOUS
<1>2. k \in DOMAIN s /\ k \in 1..(MaxDepth + 1) BY <1>1, RuntimeAssumption DEF Fit, Nested
<1>3. s[k].todo > 0 BY <1>1, <1>2 DEF Fit, Nested
<1>4. /\ t \in Seq(Level) /\ Len(t) = k /\ t[k].left = s[k].left /\ t[k].todo = s[k].todo - 1
      /\ t[k].call = NoCall /\ \A i \in 1..k - 1 : t[i] = s[i]
  <2>1. s[Len(s)].todo > 0 BY <1>1, <1>3
  <2>2. /\ t \in Seq(Level) /\ Len(t) = Len(s)
        /\ t[Len(s)].left = s[Len(s)].left /\ t[Len(s)].todo = s[Len(s)].todo - 1
        /\ t[Len(s)].call = NoCall
        /\ \A i \in 1..Len(s) - 1 : t[i] = s[i]
    BY <2>1, EndShape
  <2> QED BY <1>1, <2>2
<1>5. s[k] \in Level /\ s[k].todo \in Nat /\ s[k].todo - 1 \in Nat BY <1>1, <1>3, TopLevel
<1>6. PICK c \in Nat : c = ToCome(s[k], s[k].todo, k) BY <1>2, <1>5, ToComeNat
<1>7. PICK d \in Nat : d = ToCome(s[k], s[k].todo - 1, k) BY <1>2, <1>5, ToComeNat
<1>8. PICK u \in Nat : u = Under(k) BY <1>2, UnderNat
<1>9. c = d + u
  <2>1. PICK m \in Nat : m = s[k].todo /\ m > 0 BY <1>3, <1>5
  <2>2. PICK g \in Level : g = s[k] BY <1>5
  <2>3. ToCome(g, m, k) = ToCome(g, m - 1, k) + Under(k) BY <1>2, <2>1, OneCall
  <2> QED BY <1>6, <1>7, <1>8, <2>1, <2>2, <2>3
<1>10. ToCome(t[k], t[k].todo, k) = d BY <1>4, <1>7 DEF ToCome
<1>11. n + d <= n + c BY <1>9
<1>12. n + ToCome(t[k], t[k].todo, k) <= n + ToCome(s[k], s[k].todo, k) BY <1>6, <1>10, <1>11
<1> QED BY <1>1, <1>4, <1>12, FitTop

\* The agent on top has asked once more, and returns to its caller.
LEMMA FitLeave ==
  ASSUME NEW s \in Seq(Level), s # <<>>, Len(s) # 1, NEW n \in Nat, Fit("run", s, n),
         NEW r, r = SubSeq(s, 1, Len(s) - 1),
         NEW t, t = Ended(r)
  PROVE  t \in Seq(Level) /\ Fit("run", t, n + 1)
<1>0. PICK l \in Nat : l = Len(s) /\ l # 0 OBVIOUS
<1>1. PICK k \in Nat : k = Len(s) /\ k > 1
  <2>1. l > 1 BY <1>0
  <2> QED BY <1>0, <2>1
<1>2. PICK j \in Nat : j = k - 1 /\ j > 0 BY <1>1
<1>3. r \in Seq(Level) /\ Len(r) = j /\ \A i \in 1..j : r[i] = s[i] BY <1>1, <1>2, PopShape
<1>4. Nested(r) BY NestedPop DEF Fit
<1>5. j \in DOMAIN s /\ j < Len(s) /\ j \in 1..j BY <1>1, <1>2
<1>6. s[j].call # NoCall /\ s[j].todo > 0 BY <1>5 DEF Fit, Nested
<1>7. r # <<>> /\ r[Len(r)] = s[j]
  <2>1. r[j] = s[j] BY <1>3, <1>5
  <2>2. Len(r) # 0 BY <1>2, <1>3
  <2>3. r # <<>> BY <2>2
  <2> QED BY <1>3, <2>1, <2>3
<1>8. /\ t \in Seq(Level) /\ Len(t) = j /\ t[j].left = s[j].left /\ t[j].todo = s[j].todo - 1
      /\ t[j].call = NoCall /\ \A i \in 1..j - 1 : t[i] = r[i]
  <2>1. r \in Seq(Level) /\ r # <<>> /\ r[Len(r)].todo > 0 BY <1>3, <1>6, <1>7
  <2>2. /\ t \in Seq(Level) /\ Len(t) = Len(r)
        /\ t[Len(r)].left = r[Len(r)].left /\ t[Len(r)].todo = r[Len(r)].todo - 1
        /\ t[Len(r)].call = NoCall
        /\ \A i \in 1..Len(r) - 1 : t[i] = r[i]
    BY <2>1, EndShape
  <2>3. Len(r) = j /\ r[j] = s[j] BY <1>3, <1>7
  <2> QED BY <2>2, <2>3
<1>9. \A i \in 1..Len(s) - 2 : t[i] = s[i]
  <2>1. \A i \in 1..k - 2 : i \in 1..j - 1 /\ i \in 1..j BY <1>2
  <2> QED BY <1>1, <1>3, <1>8, <2>1
<1>10. Nested(t)
  <2>1. r \in Seq(Level) /\ r # <<>> /\ Len(r) = j BY <1>3, <1>7
  <2>2. Len(t) = Len(r) /\ (\A i \in 1..Len(r) - 1 : t[i] = r[i]) /\ t[Len(r)].call = NoCall BY <1>8, <2>1
  <2> QED BY <1>4, <1>8, <2>1, <2>2, NestedTop
<1>11. PICK room : Fits(s, n, room) BY DEF Fit, Room
<1>12. Room(t, n + 1) /\ n + 1 <= Most
  <2>1. Len(s) <= MaxDepth + 1 BY DEF Fit, Nested
  <2>2. Len(s) > 1 /\ Len(s) - 1 = j BY <1>1, <1>2
  <2> QED BY <1>6, <1>8, <1>9, <1>11, <2>1, <2>2, FitsReturn
<1> QED BY <1>8, <1>10, <1>12 DEF Fit

\* Away from "run" a stack only has to be nested.
LEMMA FitAway ==
  ASSUME NEW p, NEW q, NEW s, NEW n, Fit(p, s, n), q # "run" \/ q = p
  PROVE  Fit(q, s, n)
BY DEF Fit

-----------------------------------------------------------------------------
(* The steps of an act *)

Phases == {"idle", "enter", "run", "finish", "close", "ended", "gone", "dead"}
Fates  == {"open", "ok", "failed", "refused", "cut"}

\* What act a does leaves the other acts alone, but for the replays it starts.
Kept(a) ==
  /\ RuntimeTypes' /\ Fit(pc[a], stack[a], asked[a])'
  /\ \A b \in Acts \ {a} :
       stack'[b] = stack[b] /\ asked'[b] = asked[b] /\ (pc'[b] = pc[b] \/ pc'[b] = "enter")

LEMMA KeptAll ==
  ASSUME WorkIInv, NEW a \in Acts, Kept(a) PROVE WorkIInv'
<1> SUFFICES ASSUME NEW b \in Acts PROVE Fit(pc'[b], stack'[b], asked'[b]) BY DEF WorkIInv
<1>1. CASE b = a BY <1>1 DEF Kept
<1>2. CASE b # a
  <2>1. Fit(pc[b], stack[b], asked[b]) BY DEF WorkIInv
  <2>2. /\ stack'[b] = stack[b] /\ asked'[b] = asked[b]
        /\ pc'[b] # "run" \/ pc'[b] = pc[b]
    BY <1>2 DEF Kept
  <2> QED BY <2>1, <2>2, FitAway
<1> QED BY <1>1, <1>2

\* The parts of the type invariant of one act.
LEMMA ActTypes ==
  ASSUME RuntimeTypes, NEW a \in Acts
  PROVE  /\ stack[a] \in Seq(Level) /\ opened[a] \in Nat /\ tries[a] \in Nat
         /\ asked[a] \in Nat /\ made[a] \in Seq(Made) /\ pc[a] \in Phases
BY DEF RuntimeTypes, Phases

LEMMA AroundNat ==
  ASSUME RuntimeTypes, NEW a \in Acts, stack[a] # <<>>
  PROVE  Around(a) \in Nat
<1>1. PICK s \in Seq(Level) : s = stack[a] /\ s # <<>> BY ActTypes
<1>2. CASE Len(s) = 1 BY <1>1, <1>2 DEF Around, Root
<1>3. CASE Len(s) # 1
  <2>1. PICK k \in Nat : k = Len(s) /\ k # 0 BY <1>1
  <2>2. k - 1 \in 1..k BY <1>3, <2>1
  <2>3. s[k - 1] \in Level BY <1>1, <2>1, <2>2, TopLevel
  <2>4. s[k - 1].call.n \in Nat BY <2>3 DEF Level, Call
  <2> QED BY <1>1, <1>3, <2>1, <2>4 DEF Around
<1> QED BY <1>2, <1>3

\* A span opens.
LEMMA MadeMore ==
  ASSUME RuntimeTypes, NEW a \in Acts, NEW p \in Nat, made' = [made EXCEPT ![a] = Append(@, Span(p))]
  PROVE  made' \in [Acts -> Seq(Made)]
<1>1. Span(p) \in Made BY DEF Span, Made
<1>2. Append(made[a], Span(p)) \in Seq(Made) BY <1>1, ActTypes
<1> QED BY <1>2 DEF RuntimeTypes

\* A span closes.
LEMMA MadeOver ==
  ASSUME RuntimeTypes, NEW a \in Acts, NEW n, NEW how \in Fates,
         made' = [made EXCEPT ![a][n].fate = how]
  PROVE  made' \in [Acts -> Seq(Made)]
<1>1. PICK m \in Seq(Made) : m = made[a] BY ActTypes
<1>2. PICK t : t = [m EXCEPT ![n].fate = how] OBVIOUS
<1>3. made' = [made EXCEPT ![a] = t] BY <1>1, <1>2
<1>4. \A r \in Made : [r EXCEPT !.fate = how] \in Made BY DEF Made, Fates
<1>5. t \in Seq(Made)
  <2>1. DOMAIN m = 1..Len(m) /\ Len(m) \in Nat /\ \A i \in 1..Len(m) : m[i] \in Made OBVIOUS
  <2>2. \A i \in 1..Len(m) : t[i] = IF i = n THEN [m[i] EXCEPT !.fate = how] ELSE m[i]
    BY <1>2, <2>1
  <2>3. \A i \in 1..Len(m) : t[i] \in Made BY <1>4, <2>1, <2>2
  <2>4. t \in [1..Len(m) -> Made] BY <1>2, <2>1, <2>3
  <2> QED BY <2>1, <2>4
<1> QED BY <1>3, <1>5 DEF RuntimeTypes

\* The stack of act a becomes s, and all else has its type.
LEMMA SameTypes ==
  ASSUME RuntimeTypes, NEW a \in Acts, NEW s \in Seq(Level), stack' = [stack EXCEPT ![a] = s],
         live' \in Lists, streams' = streams, UNCHANGED tries, queued' \in Nat, mishaps' \in Nat,
         NEW w \in Phases, pc' = [pc EXCEPT ![a] = w],
         opened' \in [Acts -> Nat], NEW m \in Nat, asked' = [asked EXCEPT ![a] = m],
         made' \in [Acts -> Seq(Made)], Fit(w, s, m)
  PROVE  Kept(a)
<1>1. RuntimeTypes' BY DEF RuntimeTypes, Phases
<1>2. stack'[a] = s /\ asked'[a] = m /\ pc'[a] = w BY DEF RuntimeTypes
<1>3. \A b \in Acts \ {a} : stack'[b] = stack[b] /\ asked'[b] = asked[b] /\ pc'[b] = pc[b]
  BY DEF RuntimeTypes
<1> QED BY <1>1, <1>2, <1>3 DEF Kept

LEMMA Doing ==
  ASSUME RuntimeTypes, WorkIInv, NEW a \in Acts, Running(a)
  PROVE  /\ pc[a] = "run" /\ stack[a] \in Seq(Level) /\ stack[a] # <<>> /\ asked[a] \in Nat
         /\ Fit("run", stack[a], asked[a]) /\ Len(stack[a]) \in 1..(MaxDepth + 1)
         /\ Top(a) = stack[a][Len(stack[a])] /\ Top(a) \in Level /\ Top(a).todo \in Nat
         /\ pc' = pc => pc' = [pc EXCEPT ![a] = "run"]
         /\ asked' = asked => asked' = [asked EXCEPT ![a] = asked[a]]
<1>1. pc[a] = "run" /\ stack[a] # <<>> BY DEF Running
<1>2. stack[a] \in Seq(Level) /\ asked[a] \in Nat BY ActTypes
<1>3. Fit("run", stack[a], asked[a]) BY <1>1 DEF WorkIInv
<1>4. PICK k \in Nat : k = Len(stack[a]) /\ k # 0 BY <1>1, <1>2
<1>5. Len(stack[a]) \in 1..(MaxDepth + 1)
  <2>1. k <= MaxDepth + 1 BY <1>3, <1>4 DEF Fit, Nested
  <2> QED BY <1>4, <2>1, RuntimeAssumption
<1>6. Top(a) = stack[a][Len(stack[a])] /\ Top(a) \in Level /\ Top(a).todo \in Nat
  BY <1>1, <1>2, TopLevel DEF Top
<1>7. pc = [pc EXCEPT ![a] = "run"] /\ asked = [asked EXCEPT ![a] = asked[a]]
  BY <1>1 DEF RuntimeTypes
<1> QED BY <1>1, <1>2, <1>3, <1>5, <1>6, <1>7

LEMMA EndStep ==
  ASSUME RuntimeTypes, WorkIInv, NEW a \in Acts, Waiting(a), NEW told, NEW how \in Fates,
         EndCall(a, stack[a], told, how), UNCHANGED <<live, streams, pc, opened, tries, asked>>,
         queued' \in Nat, mishaps' \in Nat
  PROVE  Kept(a)
<1>1. Running(a) /\ Top(a).call # NoCall BY DEF Waiting
<1>2. PICK s \in Seq(Level) : s = stack[a] /\ s # <<>> BY <1>1, Doing
<1>3. PICK t : t = Ended(s) OBVIOUS
<1>4. stack' = [stack EXCEPT ![a] = t] BY <1>2, <1>3 DEF EndCall, Ended
<1>5. s[Len(s)].call # NoCall BY <1>1, <1>2, Doing
<1>6. PICK m \in Nat : m = asked[a] BY <1>1, Doing
<1>7. Fit("run", s, m) BY <1>1, <1>2, <1>6, Doing
<1>8. t \in Seq(Level) /\ Fit("run", t, m) BY <1>2, <1>3, <1>5, <1>7, FitBack
<1>9. made' \in [Acts -> Seq(Made)] BY MadeOver DEF EndCall
<1>10. live' \in Lists /\ opened' \in [Acts -> Nat] /\ "run" \in Phases BY DEF RuntimeTypes, Phases
<1>11. pc' = [pc EXCEPT ![a] = "run"] /\ asked' = [asked EXCEPT ![a] = m] BY <1>1, <1>6, Doing
<1> QED BY <1>4, <1>8, <1>9, <1>10, <1>11, SameTypes

LEMMA LeaveStep ==
  ASSUME RuntimeTypes, WorkIInv, NEW a \in Acts, Thinking(a), NEW told, NEW how \in Fates,
         NEW where \in {"finish", "close"}, Leave(a, told, how, where),
         asked' = [asked EXCEPT ![a] = @ + 1],
         UNCHANGED <<live, streams, opened, tries, queued>>, mishaps' \in Nat
  PROVE  Kept(a)
<1>1. Running(a) BY DEF Thinking
<1>2. PICK s \in Seq(Level) : s = stack[a] /\ s # <<>> BY <1>1, Doing
<1>3. PICK m \in Nat : m = asked[a] BY <1>1, Doing
<1>4. Fit("run", s, m) BY <1>1, <1>2, <1>3, Doing
<1>5. m + 1 \in Nat /\ asked' = [asked EXCEPT ![a] = m + 1] BY <1>3
<1>6. live' \in Lists /\ opened' \in [Acts -> Nat] /\ queued' \in Nat BY DEF RuntimeTypes
<1>7. CASE Len(s) = 1
  <2>1. stack' = [stack EXCEPT ![a] = <<>>] /\ pc' = [pc EXCEPT ![a] = where] /\ UNCHANGED made
    BY <1>2, <1>7 DEF Leave, Goto
  <2>2. m + 1 <= Most BY <1>3, <1>4, <1>7, FitLast
  <2>3. <<>> \in Seq(Level) /\ Nested(<<>>) BY RuntimeAssumption DEF Nested
  <2>4. Fit(where, <<>>, m + 1) BY <2>2, <2>3 DEF Fit
  <2>5. made' \in [Acts -> Seq(Made)] /\ where \in Phases BY <2>1 DEF RuntimeTypes, Phases
  <2> QED BY <1>5, <1>6, <2>1, <2>3, <2>4, <2>5, SameTypes
<1>8. CASE Len(s) # 1
  <2>1. EndCall(a, Below(a), told, how) /\ UNCHANGED pc BY <1>2, <1>8 DEF Leave
  <2>2. PICK r : r = SubSeq(s, 1, Len(s) - 1) OBVIOUS
  <2>3. PICK t : t = Ended(r) OBVIOUS
  <2>4. stack' = [stack EXCEPT ![a] = t] BY <1>2, <2>1, <2>2, <2>3 DEF EndCall, Ended, Below
  <2>5. t \in Seq(Level) /\ Fit("run", t, m + 1) BY <1>2, <1>3, <1>4, <1>8, <2>2, <2>3, FitLeave
  <2>6. made' \in [Acts -> Seq(Made)]
    <3>1. PICK n : n = Below(a)[Len(Below(a))].call.n OBVIOUS
    <3>2. made' = [made EXCEPT ![a][n].fate = how] BY <2>1, <3>1 DEF EndCall
    <3> QED BY <3>2, MadeOver
  <2>7. pc' = [pc EXCEPT ![a] = "run"] /\ "run" \in Phases BY <1>1, <2>1, Doing DEF Phases
  <2> QED BY <1>5, <1>6, <2>4, <2>5, <2>6, <2>7, SameTypes
<1> QED BY <1>7, <1>8

LEMMA OpenStep ==
  ASSUME RuntimeTypes, WorkIInv, NEW a \in Acts, Choosing(a), NEW tool \in Tools \cup Names,
         NEW agent \in Agents \cup {NoAgent}, Open(a, tool, agent),
         UNCHANGED <<live, streams, pc, tries, queued, asked, mishaps>>
  PROVE  Kept(a)
<1>1. Running(a) /\ Top(a).todo > 0 BY DEF Choosing
<1>2. PICK s \in Seq(Level) : s = stack[a] /\ s # <<>> BY <1>1, Doing
<1>3. PICK m \in Nat : m = asked[a] BY <1>1, Doing
<1>4. Fit("run", s, m) BY <1>1, <1>2, <1>3, Doing
<1>5. PICK f \in Level : f = Top(a) /\ f = s[Len(s)] BY <1>1, <1>2, Doing
<1>6. PICK c : c = [n |-> opened[a] + 1, tool |-> tool, agent |-> agent] OBVIOUS
<1>7. c \in Call BY <1>6, ActTypes DEF Call
<1>8. PICK g : g = [f EXCEPT !.call = c] OBVIOUS
<1>9. g \in Level /\ g.left = f.left /\ g.todo = f.todo BY <1>7, <1>8 DEF Level
<1>10. PICK t : t = Append(SubSeq(s, 1, Len(s) - 1), g) OBVIOUS
<1>11. stack' = [stack EXCEPT ![a] = t] BY <1>2, <1>5, <1>6, <1>8, <1>10 DEF Open, SetTop, Below
<1>12. t \in Seq(Level) /\ Len(t) = Len(s) /\ t[Len(s)] = g /\ \A i \in 1..Len(s) - 1 : t[i] = s[i]
  BY <1>2, <1>9, <1>10, SetShape
<1>13. ToCome(g, g.todo, Len(s)) = ToCome(f, f.todo, Len(s)) BY <1>9 DEF ToCome
<1>14. Fit("run", t, m)
  <2>1. t[Len(s)].todo > 0 BY <1>1, <1>5, <1>9, <1>12
  <2>2. PICK d \in Nat : d = m + ToCome(f, f.todo, Len(s))
    <3>1. f.todo \in Nat /\ Len(s) \in 1..(MaxDepth + 1) BY <1>1, <1>2, <1>5, Doing
    <3>2. ToCome(f, f.todo, Len(s)) \in Nat BY <3>1, ToComeNat
    <3> QED BY <3>2
  <2>3. m + ToCome(t[Len(s)], t[Len(s)].todo, Len(s)) <= m + ToCome(s[Len(s)], s[Len(s)].todo, Len(s))
    BY <1>5, <1>12, <1>13, <2>2
  <2> QED BY <1>2, <1>4, <1>12, <2>1, <2>3, FitTop
<1>15. made' \in [Acts -> Seq(Made)]
  <2>1. Around(a) \in Nat BY <1>2, AroundNat
  <2> QED BY <2>1, MadeMore DEF Open
<1>16. opened' \in [Acts -> Nat] BY DEF Open, RuntimeTypes
<1>17. pc' = [pc EXCEPT ![a] = "run"] /\ asked' = [asked EXCEPT ![a] = m] /\ "run" \in Phases
  BY <1>1, <1>3, Doing DEF Phases
<1>18. live' \in Lists /\ queued' \in Nat /\ mishaps' \in Nat BY DEF RuntimeTypes
<1> QED BY <1>11, <1>12, <1>14, <1>15, <1>16, <1>17, <1>18, SameTypes

\* Steps that run no agent, and may start replays.
LEMMA AwayStep ==
  ASSUME RuntimeTypes, WorkIInv, NEW a \in Acts, UNCHANGED <<live, stack, asked>>, streams' \subseteq Chats,
         tries' \in [Acts -> Nat], queued' \in Nat, mishaps' \in Nat,
         opened' \in [Acts -> Nat], made' \in [Acts -> Seq(Made)],
         NEW w \in Phases \ {"run"},
         \/ pc' = [pc EXCEPT ![a] = w]
         \/ \E S \in SUBSET Shadows :
              pc' = [x \in Acts |-> IF x = a THEN w ELSE IF x \in S THEN "enter" ELSE pc[x]]
  PROVE  Kept(a)
<1>1. /\ pc' \in [Acts -> Phases] /\ pc'[a] = w
      /\ \A b \in Acts \ {a} : pc'[b] = pc[b] \/ pc'[b] = "enter"
  BY DEF RuntimeTypes, Phases
<1>2. RuntimeTypes' BY <1>1 DEF RuntimeTypes, Phases
<1>3. Fit(pc[a], stack[a], asked[a]) BY DEF WorkIInv
<1>4. Fit(pc'[a], stack'[a], asked'[a])
  <2>1. pc'[a] # "run" BY <1>1
  <2> QED BY <1>3, <2>1, FitAway
<1> QED BY <1>1, <1>2, <1>4 DEF Kept

LEMMA BeginKeeps == ASSUME RuntimeTypes, WorkIInv, NEW a \in Acts, Begin(a) PROVE Kept(a)
<1>1. /\ streams' \subseteq Chats /\ tries' \in [Acts -> Nat] /\ opened' \in [Acts -> Nat]
      /\ made' \in [Acts -> Seq(Made)] /\ mishaps' \in Nat /\ UNCHANGED <<live, stack, asked>>
  BY DEF Begin, RuntimeTypes
<1>2. queued' \in Nat BY DEF Begin, RuntimeTypes
<1>3. \/ pc' = [pc EXCEPT ![a] = "enter"]
      \/ \E S \in SUBSET Shadows :
           pc' = [x \in Acts |-> IF x = a THEN "enter" ELSE IF x \in S THEN "enter" ELSE pc[x]]
  BY DEF Begin, Launch, Goto
<1>4. "enter" \in Phases \ {"run"} BY DEF Phases
<1> QED BY <1>1, <1>2, <1>3, <1>4, AwayStep

LEMMA EnterKeeps == ASSUME RuntimeTypes, WorkIInv, NEW a \in Acts, Enter(a) PROVE Kept(a)
<1>1. Start[a] \in Agents /\ live \in Lists BY RuntimeAssumption DEF RuntimeTypes
<1>2. PICK f \in Level : f = Frame(Start[a]) /\ f.todo = 0 /\ f.call = NoCall
  BY <1>1, Configured DEF Enter, Frame
<1>3. <<f>> \in Seq(Level) /\ <<f>>[1] = f /\ Len(<<f>>) = 1 OBVIOUS
<1>4. Room(<<f>>, 0) BY <1>2, FitsEnter
<1>5. Nested(<<f>>)
  <2>1. 1 <= MaxDepth + 1 BY RuntimeAssumption
  <2>2. DOMAIN <<f>> = {1} OBVIOUS
  <2> QED BY <1>2, <1>3, <2>1, <2>2 DEF Nested
<1>6. 0 <= Most /\ 0 \in Nat BY CostFacts, RuntimeAssumption DEF Most
<1>7. Fit("run", <<f>>, 0) BY <1>4, <1>5, <1>6 DEF Fit
<1>8. stack' = [stack EXCEPT ![a] = <<f>>] /\ asked' = [asked EXCEPT ![a] = 0] /\ pc' = [pc EXCEPT ![a] = "run"]
  BY <1>2 DEF Enter, Goto
<1>9. /\ live' \in Lists /\ queued' \in Nat /\ mishaps' \in Nat /\ opened' \in [Acts -> Nat]
      /\ made' \in [Acts -> Seq(Made)] /\ streams' = streams /\ UNCHANGED tries /\ "run" \in Phases
  BY DEF Enter, RuntimeTypes, Phases
<1> QED BY <1>3, <1>6, <1>7, <1>8, <1>9, SameTypes

LEMMA AskKeeps == ASSUME RuntimeTypes, WorkIInv, NEW a \in Acts, Ask(a) PROVE Kept(a)
<1>1. Running(a) /\ Top(a).todo = 0 /\ Top(a).left > 0 /\ Top(a).call = NoCall BY DEF Ask, Thinking
<1>2. PICK s \in Seq(Level) : s = stack[a] /\ s # <<>> BY <1>1, Doing
<1>3. PICK n \in Nat : n = asked[a] BY <1>1, Doing
<1>4. PICK f \in Level : f = Top(a) /\ f = s[Len(s)] BY <1>1, <1>2, Doing
<1>5. PICK j \in 1..MaxBatch : SetTop(a, [Top(a) EXCEPT !.left = @ - 1, !.todo = j]) BY DEF Ask
<1>6. PICK g : g = [f EXCEPT !.left = @ - 1, !.todo = j] OBVIOUS
<1>7. g \in Level /\ g.left = f.left - 1 /\ g.todo = j /\ g.call = NoCall /\ j \in Nat
  <2>1. f.left - 1 \in 0..MaxRounds BY <1>1, <1>4, RuntimeAssumption DEF Level
  <2>2. j \in Nat OBVIOUS
  <2> QED BY <1>1, <1>4, <1>6, <2>1, <2>2 DEF Level
<1>8. PICK t : t = Append(SubSeq(s, 1, Len(s) - 1), g) OBVIOUS
<1>9. stack' = [stack EXCEPT ![a] = t] BY <1>2, <1>4, <1>5, <1>6, <1>8 DEF SetTop, Below
<1>10. t \in Seq(Level) /\ Len(t) = Len(s) /\ t[Len(s)] = g /\ \A i \in 1..Len(s) - 1 : t[i] = s[i]
  BY <1>2, <1>7, <1>8, SetShape
<1>11. PICK k \in 1..(MaxDepth + 1) : k = Len(s) BY <1>1, <1>2, Doing
<1>12. PICK c \in Nat : c = ToCome(f, 0, k) BY ToComeNat
<1>13. PICK d \in Nat : d = ToCome(g, j, k) BY <1>7, ToComeNat
<1>14. d + 1 <= c BY <1>1, <1>4, <1>7, <1>12, <1>13, OneRound
<1>15. Fit("run", t, n + 1)
  <2>1. Fit("run", s, n) BY <1>1, <1>2, <1>3, Doing
  <2>2. (n + 1) + d <= n + c BY <1>14
  <2>3. (n + 1) + ToCome(t[Len(s)], t[Len(s)].todo, Len(s)) <= n + ToCome(s[Len(s)], s[Len(s)].todo, Len(s))
    BY <1>1, <1>4, <1>7, <1>10, <1>11, <1>12, <1>13, <2>2
  <2>4. t[Len(s)].call = NoCall BY <1>7, <1>10
  <2>5. PICK m \in Nat : m = n + 1 OBVIOUS
  <2>6. m + ToCome(t[Len(s)], t[Len(s)].todo, Len(s)) <= n + ToCome(s[Len(s)], s[Len(s)].todo, Len(s))
    BY <2>3, <2>5
  <2>7. Fit("run", t, m) BY <1>2, <1>10, <2>1, <2>4, <2>6, FitTop
  <2> QED BY <2>5, <2>7
<1>16. pc' = [pc EXCEPT ![a] = "run"] /\ asked' = [asked EXCEPT ![a] = n + 1] /\ n + 1 \in Nat
  <2>1. pc' = pc /\ asked' = [asked EXCEPT ![a] = @ + 1] BY DEF Ask
  <2>2. pc' = [pc EXCEPT ![a] = "run"] BY <1>1, <2>1, Doing
  <2>3. asked' = [asked EXCEPT ![a] = n + 1] BY <1>3, <2>1
  <2>4. n + 1 \in Nat OBVIOUS
  <2> QED BY <2>2, <2>3, <2>4
<1>17. /\ live' \in Lists /\ queued' \in Nat /\ mishaps' \in Nat /\ opened' \in [Acts -> Nat]
       /\ made' \in [Acts -> Seq(Made)] /\ streams' = streams /\ UNCHANGED tries /\ "run" \in Phases
  BY DEF Ask, RuntimeTypes, Phases
<1> QED BY <1>9, <1>10, <1>15, <1>16, <1>17, SameTypes

LEMMA EnterSubKeeps == ASSUME RuntimeTypes, WorkIInv, NEW a \in Acts, EnterSub(a) PROVE Kept(a)
<1>1. Running(a) /\ Top(a).call # NoCall /\ Top(a).call.agent # NoAgent /\ live[Top(a).call.agent] # NoAgent
  BY DEF EnterSub, Waiting, IsSub
<1>2. PICK s \in Seq(Level) : s = stack[a] /\ s # <<>> BY <1>1, Doing
<1>3. PICK n \in Nat : n = asked[a] BY <1>1, Doing
<1>4. Top(a) \in Level /\ Top(a) = s[Len(s)] BY <1>1, <1>2, Doing
<1>5. Top(a).call.agent \in Agents /\ live \in Lists BY <1>1, <1>4 DEF Level, Call, RuntimeTypes
<1>6. PICK f \in Level : f = Frame(Top(a).call.agent) /\ f.todo = 0 /\ f.call = NoCall
  BY <1>1, <1>5, Configured DEF Frame
<1>7. PICK t : t = Append(s, f) OBVIOUS
<1>8. stack' = [stack EXCEPT ![a] = t] BY <1>2, <1>6, <1>7 DEF EnterSub
<1>9. t \in Seq(Level) BY <1>7
<1>10. Fit("run", s, n) BY <1>1, <1>2, <1>3, Doing
<1>11. Len(s) <= MaxDepth
  <2>1. PICK k \in Nat : k = Len(s) OBVIOUS
  <2>2. ~(k > MaxDepth) BY <1>2, <2>1 DEF EnterSub, TooDeep
  <2> QED BY <2>1, <2>2, RuntimeAssumption
<1>12. Len(s) \in DOMAIN s /\ s[Len(s)].todo > 0
  <2>1. Len(s) \in DOMAIN s BY <1>2
  <2> QED BY <1>1, <1>4, <1>10, <2>1 DEF Fit, Nested
<1>13. PICK room : Fits(s, n, room) BY <1>2, <1>10 DEF Fit, Room
<1>14. Room(t, n) BY <1>2, <1>6, <1>7, <1>11, <1>12, <1>13, FitsPush
<1>15. Nested(t) BY <1>1, <1>2, <1>4, <1>6, <1>7, <1>10, <1>11, NestedPush DEF Fit
<1>16. Fit("run", t, n) BY <1>10, <1>14, <1>15 DEF Fit
<1>17. pc' = [pc EXCEPT ![a] = "run"] /\ asked' = [asked EXCEPT ![a] = n]
  BY <1>1, <1>3, Doing DEF EnterSub
<1>18. /\ live' \in Lists /\ queued' \in Nat /\ mishaps' \in Nat /\ opened' \in [Acts -> Nat]
       /\ made' \in [Acts -> Seq(Made)] /\ streams' = streams /\ UNCHANGED tries /\ "run" \in Phases
  BY DEF EnterSub, RuntimeTypes, Phases
<1> QED BY <1>8, <1>9, <1>16, <1>17, <1>18, SameTypes

LEMMA UnwindKeeps == ASSUME RuntimeTypes, WorkIInv, NEW a \in Acts, Unwind(a) PROVE Kept(a)
<1>1. pc[a] = "gone" /\ stack[a] # <<>> BY DEF Unwind
<1>2. PICK s \in Seq(Level) : s = stack[a] /\ s # <<>> BY <1>1, ActTypes
<1>3. PICK n \in Nat : n = asked[a] BY ActTypes
<1>4. PICK t : t = SubSeq(s, 1, Len(s) - 1) OBVIOUS
<1>5. stack' = [stack EXCEPT ![a] = t] BY <1>2, <1>4 DEF Unwind, Below
<1>6. t \in Seq(Level) BY <1>2, <1>4, PopShape
<1>7. Fit("gone", s, n) BY <1>1, <1>2, <1>3 DEF WorkIInv
<1>8. Nested(t) BY <1>2, <1>4, <1>7, NestedPop DEF Fit
<1>9. Fit("gone", t, n) BY <1>7, <1>8 DEF Fit
<1>10. made' \in [Acts -> Seq(Made)]
  <2>1. CASE Top(a).call = NoCall BY <2>1 DEF Unwind, RuntimeTypes
  <2>2. CASE Top(a).call # NoCall
    <3>1. PICK i : i = Top(a).call.n OBVIOUS
    <3>2. made' = [made EXCEPT ![a][i].fate = "cut"] BY <2>2, <3>1 DEF Unwind
    <3>3. "cut" \in Fates BY DEF Fates
    <3> QED BY <3>2, <3>3, MadeOver
  <2> QED BY <2>1, <2>2
<1>11. pc' = [pc EXCEPT ![a] = "gone"] /\ asked' = [asked EXCEPT ![a] = n]
  BY <1>1, <1>3 DEF Unwind, RuntimeTypes
<1>12. /\ live' \in Lists /\ queued' \in Nat /\ mishaps' \in Nat /\ opened' \in [Acts -> Nat]
       /\ streams' = streams /\ UNCHANGED tries /\ "gone" \in Phases
  BY DEF Unwind, RuntimeTypes, Phases
<1> QED BY <1>5, <1>6, <1>9, <1>10, <1>11, <1>12, SameTypes

LEMMA WorkKeeps ==
  ASSUME RuntimeTypes, WorkIInv, NEW a \in Acts, Work(a) PROVE Kept(a)
<1>0. /\ live \in Lists /\ streams \subseteq Chats /\ tries \in [Acts -> Nat] /\ queued \in Nat /\ mishaps \in Nat
      /\ opened \in [Acts -> Nat] /\ made \in [Acts -> Seq(Made)]
  BY DEF RuntimeTypes
<1>1. CASE EnterFails(a)
  <2>1. mishaps' \in Nat BY <1>0, <1>1 DEF EnterFails, Mishap
  <2>2. UNCHANGED <<live, streams, stack, asked, tries, queued, opened, made>> BY <1>1 DEF EnterFails
  <2>3. pc' = [pc EXCEPT ![a] = "close"] /\ "close" \in Phases \ {"run"} BY <1>1 DEF EnterFails, Goto, Phases
  <2> QED BY <1>0, <2>1, <2>2, <2>3, AwayStep
<1>2. CASE Answer(a)
  <2>1. /\ Thinking(a) /\ asked' = [asked EXCEPT ![a] = @ + 1]
        /\ Leave(a, "result", "ok", "finish")
        /\ UNCHANGED <<live, streams, opened, tries, queued>> /\ mishaps' \in Nat
    BY <1>0, <1>2 DEF Answer
  <2>2. "ok" \in Fates /\ "finish" \in {"finish", "close"} BY DEF Fates
  <2> QED BY <2>1, <2>2, LeaveStep
<1>3. CASE ModelFails(a)
  <2>1. PICK where \in {"finish", "close"} : Leave(a, "error", "failed", where)
    BY <1>3 DEF ModelFails
  <2>2. /\ Thinking(a) /\ asked' = [asked EXCEPT ![a] = @ + 1]
        /\ UNCHANGED <<live, streams, opened, tries, queued>> /\ mishaps' \in Nat
    BY <1>0, <1>3 DEF ModelFails, Mishap
  <2>3. "failed" \in Fates BY DEF Fates
  <2> QED BY <2>1, <2>2, <2>3, LeaveStep
<1>4. ASSUME NEW t \in Tools, CallTool(a, t) PROVE Kept(a)
  BY <1>4, OpenStep DEF CallTool
<1>5. ASSUME NEW s \in Names, NEW g \in Variants[s], CallSub(a, s, g) PROVE Kept(a)
  <2>1. g \in Agents BY RuntimeAssumption
  <2> QED BY <1>5, <2>1, OpenStep DEF CallSub
<1>6. CASE ToolReturns(a)
  <2>1. queued' \in Nat /\ mishaps' \in Nat BY <1>0, <1>6 DEF ToolReturns
  <2>2. "ok" \in Fates BY DEF Fates
  <2>3. /\ Waiting(a) /\ EndCall(a, stack[a], "result", "ok")
        /\ UNCHANGED <<live, streams, pc, opened, tries, asked>>
    BY <1>6 DEF ToolReturns
  <2> QED BY <2>1, <2>2, <2>3, EndStep
<1>7. CASE ToolFails(a)
  <2>1. queued' \in Nat /\ mishaps' \in Nat BY <1>0, <1>7 DEF ToolFails, Mishap
  <2>2. "failed" \in Fates BY DEF Fates
  <2>3. PICK told : EndCall(a, stack[a], told, "failed") BY <1>7 DEF ToolFails
  <2>4. Waiting(a) /\ UNCHANGED <<live, streams, pc, opened, tries, asked>> BY <1>7 DEF ToolFails
  <2> QED BY <2>1, <2>2, <2>3, <2>4, EndStep
<1>8. CASE BadArguments(a)
  <2>1. queued' \in Nat /\ mishaps' \in Nat BY <1>0, <1>8 DEF BadArguments, Mishap
  <2>2. "refused" \in Fates BY DEF Fates
  <2>3. /\ Waiting(a) /\ EndCall(a, stack[a], "nothing", "refused")
        /\ UNCHANGED <<live, streams, pc, opened, tries, asked>>
    BY <1>8 DEF BadArguments
  <2> QED BY <2>1, <2>2, <2>3, EndStep
<1>9. CASE EnterSubFails(a)
  <2>1. queued' \in Nat /\ mishaps' \in Nat BY <1>0, <1>9 DEF EnterSubFails, Mishap
  <2>2. "failed" \in Fates BY DEF Fates
  <2>3. /\ Waiting(a) /\ EndCall(a, stack[a], "error", "failed")
        /\ UNCHANGED <<live, streams, pc, opened, tries, asked>>
    BY <1>9 DEF EnterSubFails
  <2> QED BY <2>1, <2>2, <2>3, EndStep
<1>10. CASE Repair(a)
  <2>1. tries' \in [Acts -> Nat]
    <3>1. \/ tries' = [tries EXCEPT ![a] = @ + 1]
          \/ tries' = tries
      BY <1>10 DEF Repair
    <3>2. PICK n \in Nat : n = tries[a] BY <1>0
    <3>3. n + 1 \in Nat OBVIOUS
    <3> QED BY <1>0, <3>1, <3>2, <3>3
  <2>2. UNCHANGED <<live, streams, stack, asked, queued, opened, made, mishaps>> BY <1>10 DEF Repair
  <2>3. PICK w \in {"enter", "close"} : pc' = [pc EXCEPT ![a] = w] BY <1>10 DEF Repair, Goto
  <2>4. w \in Phases \ {"run"} BY DEF Phases
  <2> QED BY <1>0, <2>1, <2>2, <2>3, <2>4, AwayStep
<1>11. CASE Finish(a)
  <2>1. opened' \in [Acts -> Nat] BY <1>0, <1>11 DEF Finish
  <2>2. made' \in [Acts -> Seq(Made)]
    <3>1. CASE made' = [made EXCEPT ![a] = Append(@, Span(Root))]
      <4>1. Root \in Nat BY DEF Root
      <4> QED BY <3>1, <4>1, MadeMore
    <3>2. CASE UNCHANGED made BY <1>0, <3>2
    <3> QED BY <1>11, <3>1, <3>2 DEF Finish
  <2>3. UNCHANGED <<live, streams, stack, tries, queued, asked, mishaps>> BY <1>11 DEF Finish
  <2>4. \/ pc' = [pc EXCEPT ![a] = "close"]
        \/ \E S \in SUBSET Shadows :
             pc' = [x \in Acts |-> IF x = a THEN "close" ELSE IF x \in S THEN "enter" ELSE pc[x]]
    BY <1>11 DEF Finish, Launch, Goto
  <2>5. "close" \in Phases \ {"run"} BY DEF Phases
  <2> QED BY <1>0, <2>1, <2>2, <2>3, <2>4, <2>5, AwayStep
<1>12. CASE Close(a)
  <2>1. UNCHANGED <<live, streams, stack, asked, tries, queued, opened, made, mishaps>> BY <1>12 DEF Close
  <2>2. pc' = [pc EXCEPT ![a] = "ended"] /\ "ended" \in Phases \ {"run"} BY <1>12 DEF Close, Goto, Phases
  <2> QED BY <1>0, <2>1, <2>2, AwayStep
<1>13. CASE Unwound(a)
  <2>1. UNCHANGED <<live, streams, stack, asked, tries, queued, opened, made, mishaps>> BY <1>13 DEF Unwound
  <2>2. PICK w \in {"finish", "close"} : pc' = [pc EXCEPT ![a] = w] BY <1>13 DEF Unwound, Goto
  <2>3. w \in Phases \ {"run"} BY DEF Phases
  <2> QED BY <1>0, <2>1, <2>2, <2>3, AwayStep
<1> QED BY <1>1, <1>2, <1>3, <1>4, <1>5, <1>6, <1>7, <1>8, <1>9, <1>10, <1>11, <1>12, <1>13,
           EnterKeeps, AskKeeps, EnterSubKeeps, UnwindKeeps DEF Work

LEMMA DisconnectKeeps ==
  ASSUME RuntimeTypes, WorkIInv, NEW a \in Acts, Disconnect(a) PROVE Kept(a)
<1>1. /\ streams' \subseteq Chats /\ tries' \in [Acts -> Nat] /\ opened' \in [Acts -> Nat]
      /\ made' \in [Acts -> Seq(Made)] /\ mishaps' \in Nat /\ queued' \in Nat
      /\ UNCHANGED <<live, stack, asked>>
  BY DEF Disconnect, Mishap, RuntimeTypes
<1>2. PICK w \in {"gone", "close"} :
        \/ pc' = [pc EXCEPT ![a] = w]
        \/ \E S \in SUBSET Shadows :
             pc' = [x \in Acts |-> IF x = a THEN w ELSE IF x \in S THEN "enter" ELSE pc[x]]
  BY DEF Disconnect, Launch, Goto
<1>3. w \in Phases \ {"run"} BY DEF Phases
<1> QED BY <1>1, <1>2, <1>3, AwayStep

LEMMA RuntimeInit == Init => RuntimeTypes /\ WorkIInv
<1> SUFFICES ASSUME Init PROVE RuntimeTypes /\ WorkIInv OBVIOUS
<1>1. RuntimeTypes
  <2>1. Span(NoParent) \in Made BY DEF Span, NoParent, Made
  <2>2. <<Span(NoParent)>> \in Seq(Made) BY <2>1
  <2>3. Root \in Nat /\ <<>> \in Seq(Level) BY DEF Root
  <2> QED BY <2>2, <2>3 DEF Init, RuntimeTypes
<1>2. WorkIInv
  <2> SUFFICES ASSUME NEW a \in Acts PROVE Fit(pc[a], stack[a], asked[a]) BY DEF WorkIInv
  <2>1. pc[a] = "idle" /\ stack[a] = <<>> /\ asked[a] = 0 BY DEF Init
  <2>2. Nested(<<>>) BY RuntimeAssumption DEF Nested
  <2>3. 0 <= Most BY CostFacts, RuntimeAssumption DEF Most
  <2> QED BY <2>1, <2>2, <2>3 DEF Fit
<1> QED BY <1>1, <1>2

LEMMA RuntimeStep ==
  ASSUME RuntimeTypes, WorkIInv, [Next]_vars PROVE RuntimeTypes' /\ WorkIInv'
<1>1. CASE UNCHANGED vars
  BY <1>1 DEF vars, actVars, RuntimeTypes, WorkIInv
<1>2. ASSUME NEW a \in Acts, Begin(a) \/ Work(a) \/ Disconnect(a) PROVE RuntimeTypes' /\ WorkIInv'
  <2>1. Kept(a) BY <1>2, BeginKeeps, WorkKeeps, DisconnectKeeps
  <2> QED BY <2>1, KeptAll DEF Kept
<1>3. ASSUME NEW l \in Lists, EditAgents(l) PROVE RuntimeTypes' /\ WorkIInv'
  BY <1>3 DEF EditAgents, Mishap, actVars, RuntimeTypes, WorkIInv
<1>4. CASE Writer
  BY <1>4 DEF Writer, Mishap, actVars, RuntimeTypes, WorkIInv
<1>5. CASE Crash
  <2>1. RuntimeTypes'
    <3>1. <<>> \in Seq(Level) OBVIOUS
    <3> QED BY <1>5, <3>1 DEF Crash, Mishap, RuntimeTypes
  <2>2. WorkIInv'
    <3> SUFFICES ASSUME NEW a \in Acts PROVE Fit(pc'[a], stack'[a], asked'[a]) BY DEF WorkIInv
    <3>1. pc'[a] # "run" /\ stack'[a] = <<>> /\ asked'[a] = asked[a] BY <1>5 DEF Crash
    <3>2. asked[a] <= Most BY DEF WorkIInv, Fit
    <3>3. Nested(<<>>) BY RuntimeAssumption DEF Nested
    <3> QED BY <3>1, <3>2, <3>3 DEF Fit
  <2> QED BY <2>1, <2>2
<1> QED BY <1>1, <1>2, <1>3, <1>4, <1>5 DEF Next

\* Whatever agents list one another and however lists change, one run of the
\* agent an act starts with asks models at most Most times
\* (MAX_SUBAGENT_DEPTH and max_turns in crates/agents).
THEOREM WorkIsBounded == Spec => []WorkBounded
<1>1. Spec => [](RuntimeTypes /\ WorkIInv)
  <2>1. Init => RuntimeTypes /\ WorkIInv BY RuntimeInit
  <2>2. (RuntimeTypes /\ WorkIInv) /\ [Next]_vars => (RuntimeTypes /\ WorkIInv)' BY RuntimeStep
  <2> QED BY <2>1, <2>2, PTL DEF Spec
<1>2. RuntimeTypes /\ WorkIInv => WorkBounded BY DEF WorkIInv, Fit, WorkBounded
<1> QED BY <1>1, <1>2, PTL

-----------------------------------------------------------------------------
(* What the studio shows: the invariant *)

\* The rows of the two tables.
EventRow == [table : {"events"}, act : Recorded, n : Nat, parent : Nat]
CallRow  == [table : {"tool_calls"}, act : Recorded, n : Nat, tool : Tools \cup Names \cup {NoAgent},
             ordinal : Nat, told : {"result", "error", "nothing"}]

Row == EventRow \cup CallRow

\* The types of the channel and the tables.
SpanTypes ==
  /\ ordinal \in [Acts -> Nat] /\ queue \in Seq(Row)
  /\ events \subseteq EventRow /\ calls \in Seq(CallRow) /\ lost \subseteq Row

\* The rows of a channel and of the tables.
Before(q, ev, c) == {q[i] : i \in DOMAIN q} \cup ev \cup {c[i] : i \in DOMAIN c}

\* The rows that spans have become so far, wherever they are now.
Sent == Before(queue, events, calls) \cup lost

\* The calls under way in a stack, and what each was made under.
OpenCalls(s) == {s[i].call.n : i \in {j \in DOMAIN s : s[j].call # NoCall}}
Over(s, i)   == IF i = 1 THEN Root ELSE s[i - 1].call.n

\* The spans of an act hang together: a span opens under an earlier one.
Grown(m, o) ==
  /\ Len(m) = o /\ o >= 1 /\ m[1].parent = NoParent
  /\ \A n \in 2..o : m[n].parent \in 1..(n - 1)

\* The calls of a stack were made one under the other.
Chain(s, m) ==
  \A i \in DOMAIN s : s[i].call # NoCall =>
    /\ s[i].call.n \in 2..Len(m) /\ m[s[i].call.n].parent = Over(s, i)
    /\ \A j \in DOMAIN s : j < i => s[j].call.n < s[i].call.n

\* What a row tells is what became of its call.
Truthful(r, fate) ==
  /\ r.told = "result" => fate = "ok"
  /\ r.told = "error" => fate = "failed"
  /\ (fate = "failed" /\ r.tool \notin Quiet) => r.told = "error"
  /\ r.told = "nothing" => fate \in {"cut", "refused"} \/ (fate = "failed" /\ r.tool \in Quiet)

\* A row of an act with spans m and stack s that is at p.
EventOk(r, m, p)   == r.n \in 1..Len(m) /\ r.parent = m[r.n].parent /\ (r.n = Root => p \in {"ended", "dead"})
CallOk(r, m, s, p, d) ==
  /\ r.n \in 2..Len(m) /\ r.n \notin OpenCalls(s)
  /\ r.ordinal \in Nat /\ (p # "dead" => r.ordinal < d)
  /\ Truthful(r, m[r.n].fate)

RowOk(r, m, s, p, d) ==
  /\ r.table = "events" => EventOk(r, m, p)
  /\ r.table = "tool_calls" => CallOk(r, m, s, p, d)

\* Every span is open or has become a row; every ordinal was given to a row.
Emitted(a, S, o, s, p) ==
  \A n \in 1..o :
    \/ n \in OpenCalls(s) \/ (n = Root /\ p # "ended")
    \/ \E r \in S : r.act = a /\ r.table = "events" /\ r.n = n
Numbered(a, S, d) ==
  \A k \in Nat : k < d => \E r \in S : r.act = a /\ r.table = "tool_calls" /\ r.ordinal = k

\* An act at p with spans m, stack s and d ordinals given, if S was sent.
ActOk(a, S, m, o, s, p, d) ==
  /\ Grown(m, o) /\ Chain(s, m) /\ (p \notin {"run", "gone"} => s = <<>>)
  /\ \A r \in S : r.act = a => RowOk(r, m, s, p, d)
  /\ p = "idle" => (o = 1 /\ \A r \in S : r.act # a)
  /\ p # "dead" => (Emitted(a, S, o, s, p) /\ Numbered(a, S, d))

\* Row x was sent before row y: a turn's own row is its last, and a call follows
\* those it caused.
Ordered(m, x, y) ==
  (x.act = y.act) =>
    /\ ~(x.table = "events" /\ x.n = Root)
    /\ (x.table = "tool_calls" /\ y.table = "tool_calls") =>
         (x.ordinal < y.ordinal /\ m[y.act][y.n].parent # x.n)

\* The channel, and then the log of calls, keep the order of sending.
LogOk(q, ev, c, m) ==
  /\ \A i, j \in DOMAIN q : i < j => Ordered(m, q[i], q[j])
  /\ \A x \in ev : \A j \in DOMAIN q : Ordered(m, x, q[j])
  /\ \A i \in DOMAIN c : \A j \in DOMAIN q : Ordered(m, c[i], q[j])
  /\ \A i, j \in DOMAIN c : i < j => Ordered(m, c[i], c[j])

\* A stored turn whose page lacks nothing has all its spans, and an act none of
\* whose rows was lost has its calls from the first on.
WholeOk(a) == (Stored(a, Root) /\ Missing(a) = {}) => \A n \in 1..opened[a] : Stored(a, n)
GapOk(a) ==
  Missing(a) = {} =>
    \A i \in CallsOf(a) : \A k \in Nat : k < calls[i].ordinal =>
      \E j \in CallsOf(a) : j < i /\ calls[j].ordinal = k

\* The inductive invariant.
SpanIInv ==
  /\ \A a \in Recorded :
       /\ ActOk(a, Sent, made[a], opened[a], stack[a], pc[a], ordinal[a])
       /\ WholeOk(a) /\ GapOk(a)
  /\ LogOk(queue, events, calls, made)
  /\ \A j \in DOMAIN queue : pc[queue[j].act] # "dead"

-----------------------------------------------------------------------------
(* One act: its spans, its stack and its rows *)

\* The numbers up to k are k and those below it.
LEMMA UpTo ==
  ASSUME NEW k \in Nat PROVE \A i \in 1..k : i = k \/ (i \in 1..k - 1 /\ i < k)
OBVIOUS

\* A level of a stack, and its call.
LEMMA LevelFacts ==
  ASSUME NEW s \in Seq(Level), NEW i \in DOMAIN s PROVE s[i] \in Level /\ s[i].call \in Call
<1>1. s[i] \in Level OBVIOUS
<1> QED BY <1>1 DEF Level

\* A counter counts on.
LEMMA Counted ==
  ASSUME NEW f \in [Acts -> Nat], NEW a \in Acts, NEW g, g = [f EXCEPT ![a] = @ + 1] PROVE g \in [Acts -> Nat]
OBVIOUS

\* The spans above an open call are open.
LEMMA OverOpen ==
  ASSUME NEW s \in Seq(Level), Nested(s), NEW m \in Seq(Made), Len(m) >= 1, Chain(s, m), NEW i \in DOMAIN s
  PROVE  Over(s, i) \in 1..Len(m) /\ (Over(s, i) = Root \/ Over(s, i) \in OpenCalls(s))
<1>1. PICK k \in Nat : k = Len(s) /\ DOMAIN s = 1..k OBVIOUS
<1>2. PICK l \in Nat : l = Len(m) /\ l >= 1 OBVIOUS
<1>3. CASE i = 1 BY <1>2, <1>3 DEF Over, Root
<1>4. CASE i # 1
  <2>1. PICK j \in DOMAIN s : j = i - 1 /\ j < Len(s) BY <1>1, <1>4
  <2>2. s[j].call # NoCall BY <2>1 DEF Nested
  <2>3. s[j].call.n \in 2..Len(m) BY <2>1, <2>2 DEF Chain
  <2>4. s[j].call.n \in OpenCalls(s) BY <2>1, <2>2 DEF OpenCalls
  <2>5. s[j].call.n \in 1..Len(m) BY <1>2, <2>3
  <2> QED BY <1>4, <2>1, <2>4, <2>5 DEF Over
<1> QED BY <1>3, <1>4

\* An act is about its own rows.
LEMMA ActFrame ==
  ASSUME NEW a, NEW S, NEW m, NEW o, NEW s, NEW p, NEW d, ActOk(a, S, m, o, s, p, d),
         NEW T, S \subseteq T, \A r \in T : r \in S \/ r.act # a,
         NEW w, w = p \/ (p = "idle" /\ w = "enter")
  PROVE  ActOk(a, T, m, o, s, w, d)
<1>1. \A r \in T : r.act = a => r \in S OBVIOUS
<1>2. CASE w = p
  <2>1. \A r \in T : r.act = a => RowOk(r, m, s, w, d) BY <1>1, <1>2 DEF ActOk
  <2>2. (w = "idle") => (o = 1 /\ \A r \in T : r.act # a) BY <1>1, <1>2 DEF ActOk
  <2>3. (w # "dead") => (Emitted(a, T, o, s, w) /\ Numbered(a, T, d))
    BY <1>2 DEF ActOk, Emitted, Numbered
  <2> QED BY <1>2, <2>1, <2>2, <2>3 DEF ActOk
<1>3. CASE p = "idle" /\ w = "enter"
  <2>1. \A r \in T : r.act # a BY <1>1, <1>3 DEF ActOk
  <2>2. Emitted(a, T, o, s, w) /\ Numbered(a, T, d) BY <1>3 DEF ActOk, Emitted, Numbered
  <2> QED BY <1>3, <2>1, <2>2 DEF ActOk
<1> QED BY <1>2, <1>3

LEMMA ActDies ==
  ASSUME NEW a, NEW S, NEW m, NEW o, NEW s, NEW p, NEW d, ActOk(a, S, m, o, s, p, d),
         NEW T, T \subseteq S, NEW w, w = IF p = "idle" THEN "idle" ELSE "dead"
  PROVE  ActOk(a, T, m, o, <<>>, w, 0)
<1>1. OpenCalls(<<>>) = {} /\ Chain(<<>>, m) BY DEF OpenCalls, Chain
<1>2. CASE p = "idle"
  <2>1. \A r \in T : r.act # a BY <1>2 DEF ActOk
  <2>2. Emitted(a, T, o, <<>>, w)
    <3>1. 1..o = {1} BY <1>2 DEF ActOk
    <3> QED BY <1>2, <3>1 DEF Emitted, Root
  <2>3. Numbered(a, T, 0) BY DEF Numbered
  <2> QED BY <1>1, <1>2, <2>1, <2>2, <2>3 DEF ActOk
<1>3. CASE p # "idle"
  <2>1. \A r \in T : r.act = a => RowOk(r, m, <<>>, w, 0)
    BY <1>1, <1>3 DEF ActOk, RowOk, EventOk, CallOk
  <2> QED BY <1>1, <1>3, <2>1 DEF ActOk
<1> QED BY <1>2, <1>3

\* The calls under way stay the same.
SameCalls(s, t) ==
  /\ \A i \in DOMAIN s : s[i].call # NoCall => (i \in DOMAIN t /\ t[i].call = s[i].call)
  /\ \A i \in DOMAIN t : t[i].call # NoCall => (i \in DOMAIN s /\ s[i].call = t[i].call)

LEMMA SameOpen ==
  ASSUME NEW s \in Seq(Level), NEW t \in Seq(Level), Nested(s), Nested(t), SameCalls(s, t),
         NEW m \in Seq(Made), Chain(s, m)
  PROVE  OpenCalls(t) = OpenCalls(s) /\ Chain(t, m)
<1>1. OpenCalls(t) = OpenCalls(s) BY DEF OpenCalls, SameCalls
<1>2. ASSUME NEW i \in DOMAIN t, t[i].call # NoCall
      PROVE  /\ t[i].call.n \in 2..Len(m) /\ m[t[i].call.n].parent = Over(t, i)
             /\ \A j \in DOMAIN t : j < i => t[j].call.n < t[i].call.n
  <2>1. PICK k \in Nat : k = Len(t) /\ DOMAIN t = 1..k OBVIOUS
  <2>2. i \in DOMAIN s /\ s[i].call = t[i].call BY <1>2 DEF SameCalls
  <2>3. \A j \in DOMAIN t : j < i => (t[j].call # NoCall /\ j \in DOMAIN s /\ s[j].call = t[j].call)
    <3> SUFFICES ASSUME NEW j \in DOMAIN t, j < i
                 PROVE t[j].call # NoCall /\ j \in DOMAIN s /\ s[j].call = t[j].call OBVIOUS
    <3>1. j < Len(t) BY <2>1
    <3>2. t[j].call # NoCall BY <3>1 DEF Nested
    <3> QED BY <3>2 DEF SameCalls
  <2>4. Over(t, i) = Over(s, i)
    <3>1. CASE i = 1 BY <3>1 DEF Over
    <3>2. CASE i # 1
      <4>1. i - 1 \in DOMAIN t /\ i - 1 < i BY <2>1, <3>2
      <4> QED BY <2>3, <3>2, <4>1 DEF Over
    <3> QED BY <3>1, <3>2
  <2>5. /\ s[i].call.n \in 2..Len(m) /\ m[s[i].call.n].parent = Over(s, i)
        /\ \A j \in DOMAIN s : j < i => s[j].call.n < s[i].call.n
    BY <1>2, <2>2 DEF Chain
  <2> QED BY <2>2, <2>3, <2>4, <2>5
<1>3. Chain(t, m) BY <1>2 DEF Chain
<1> QED BY <1>1, <1>3

\* An act moves on with the calls it has under way.
LEMMA ActMove ==
  ASSUME NEW a, NEW S, NEW m \in Seq(Made), NEW o, NEW s \in Seq(Level), NEW p, NEW d,
         ActOk(a, S, m, o, s, p, d), NEW t \in Seq(Level), Nested(s), Nested(t), SameCalls(s, t),
         p \notin {"ended", "dead"}, NEW w, w \notin {"idle", "ended", "dead"}, w \notin {"run", "gone"} => t = <<>>
  PROVE  ActOk(a, S, m, o, t, w, d)
<1>1. OpenCalls(t) = OpenCalls(s) /\ Chain(t, m) BY SameOpen DEF ActOk
<1>2. \A r \in S : r.act = a => RowOk(r, m, t, w, d) BY <1>1 DEF ActOk, RowOk, EventOk, CallOk
<1>3. Emitted(a, S, o, t, w) BY <1>1 DEF ActOk, Emitted
<1> QED BY <1>1, <1>2, <1>3 DEF ActOk

\* Spans q are spans m and one more, under span x.
Longer(q, m, o, x) ==
  /\ q \in Seq(Made) /\ Grown(q, o + 1) /\ Len(q) = o + 1 /\ q[o + 1].parent = x
  /\ \A n \in 1..o : q[n] = m[n]

\* A span opens under an earlier one.
LEMMA GrownMore ==
  ASSUME NEW m \in Seq(Made), NEW o \in Nat, Grown(m, o), NEW x \in 1..o,
         NEW h \in Made, h.parent = x, NEW q, q = Append(m, h)
  PROVE  Longer(q, m, o, x)
<1>1. Len(m) = o /\ o >= 1 BY DEF Grown
<1>3. q \in Seq(Made) /\ Len(q) = o + 1 /\ q[o + 1] = h /\ \A n \in 1..o : q[n] = m[n]
  BY <1>1
<1>4. q[1] = m[1] BY <1>1, <1>3
<1>5. \A n \in 2..(o + 1) : q[n].parent \in 1..(n - 1)
  <2> SUFFICES ASSUME NEW n \in 2..(o + 1) PROVE q[n].parent \in 1..(n - 1) OBVIOUS
  <2>1. CASE n = o + 1 BY <1>3, <2>1
  <2>2. CASE n # o + 1
    <3>1. n \in 2..o /\ n \in 1..o BY <2>2
    <3> QED BY <1>3, <3>1 DEF Grown
  <2> QED BY <2>1, <2>2
<1>6. Grown(q, o + 1) BY <1>1, <1>3, <1>4, <1>5 DEF Grown
<1> QED BY <1>3, <1>6 DEF Longer

\* A tool is called.
LEMMA ActOpen ==
  ASSUME NEW a, NEW S, NEW m \in Seq(Made), NEW o \in Nat, NEW s \in Seq(Level), s # <<>>, NEW d,
         ActOk(a, S, m, o, s, "run", d), Nested(s), s[Len(s)].call = NoCall,
         NEW t \in Seq(Level), Len(t) = Len(s), \A i \in 1..Len(s) - 1 : t[i] = s[i],
         t[Len(s)].call.n = o + 1, t[Len(s)].call # NoCall,
         NEW q, q = Append(m, Span(Over(s, Len(s))))
  PROVE  ActOk(a, S, q, o + 1, t, "run", d)
<1>1. PICK k \in Nat : k = Len(s) /\ k # 0 /\ DOMAIN s = 1..k /\ DOMAIN t = 1..k OBVIOUS
<1>2. Grown(m, o) /\ Chain(s, m) /\ Len(m) = o /\ o >= 1 BY DEF ActOk, Grown
<1>3. PICK x : x = Over(s, k) OBVIOUS
<1>4. x \in 1..o
  <2>1. k \in DOMAIN s /\ Len(m) >= 1 BY <1>1, <1>2
  <2>2. Over(s, k) \in 1..Len(m) BY <1>2, <2>1, OverOpen
  <2> QED BY <1>2, <1>3, <2>2
<1>5. /\ q \in Seq(Made) /\ Grown(q, o + 1) /\ Len(q) = o + 1 /\ q[o + 1].parent = x
      /\ \A n \in 1..o : q[n] = m[n]
  <2>3. Span(x) \in Made /\ Span(x).parent = x BY <1>4 DEF Span, Made
  <2>1. PICK h \in Made : h = Span(x) /\ h.parent = x BY <2>3
  <2>2. q = Append(m, h) BY <1>1, <1>3, <2>1
  <2>4. Longer(q, m, o, x) BY <1>2, <1>4, <2>1, <2>2, GrownMore
  <2> QED BY <2>4 DEF Longer
<1>6. \A i \in 1..k : i = k \/ (i \in 1..k - 1 /\ i < k) BY <1>1, UpTo
<1>7. \A i \in 1..k - 1 : i \in DOMAIN s /\ t[i] = s[i] /\ s[i].call # NoCall /\ s[i].call.n \in 2..o
  <2>1. \A i \in 1..k - 1 : i \in DOMAIN s /\ i < Len(s) BY <1>1
  <2>2. \A i \in 1..k - 1 : s[i].call # NoCall BY <2>1 DEF Nested
  <2> QED BY <1>1, <1>2, <2>1, <2>2 DEF Chain
<1>8. OpenCalls(t) = OpenCalls(s) \cup {o + 1}
  <2>1. ASSUME NEW n \in OpenCalls(t) PROVE n \in OpenCalls(s) \cup {o + 1}
    <3>1. PICK i \in 1..k : t[i].call # NoCall /\ n = t[i].call.n BY <1>1 DEF OpenCalls
    <3>2. CASE i = k BY <1>1, <3>1, <3>2
    <3>3. CASE i # k BY <1>6, <1>7, <3>1, <3>3 DEF OpenCalls
    <3> QED BY <3>2, <3>3
  <2>2. ASSUME NEW n \in OpenCalls(s) PROVE n \in OpenCalls(t)
    <3>1. PICK i \in 1..k : s[i].call # NoCall /\ n = s[i].call.n BY <1>1 DEF OpenCalls
    <3>2. i # k BY <1>1, <3>1
    <3>3. i \in 1..k - 1 BY <1>6, <3>2
    <3> QED BY <1>1, <1>7, <3>1, <3>3 DEF OpenCalls
  <2>3. o + 1 \in OpenCalls(t)
    <3>1. k \in DOMAIN t BY <1>1
    <3> QED BY <1>1, <3>1 DEF OpenCalls
  <2> QED BY <2>1, <2>2, <2>3
<1>9. Chain(t, q)
  <2> SUFFICES ASSUME NEW i \in DOMAIN t, t[i].call # NoCall
               PROVE /\ t[i].call.n \in 2..Len(q) /\ q[t[i].call.n].parent = Over(t, i)
                     /\ \A j \in DOMAIN t : j < i => t[j].call.n < t[i].call.n
    BY DEF Chain
  <2>1. Over(t, i) = Over(s, i)
    <3>1. CASE i = 1 BY <3>1 DEF Over
    <3>2. CASE i # 1
      <4>1. i - 1 \in 1..k - 1 BY <1>1, <3>2
      <4> QED BY <1>7, <3>2, <4>1 DEF Over
    <3> QED BY <3>1, <3>2
  <2>2. CASE i = k
    <3>1. t[i].call.n = o + 1 BY <1>1, <2>2
    <3>2. t[i].call.n \in 2..Len(q) /\ q[t[i].call.n].parent = Over(t, i) BY <1>2, <1>3, <1>5, <2>1, <2>2, <3>1
    <3>3. ASSUME NEW j \in DOMAIN t, j < i PROVE t[j].call.n < t[i].call.n
      <4>1. j \in 1..k - 1 BY <1>1, <2>2, <3>3
      <4>2. t[j].call.n \in 2..o BY <1>7, <4>1
      <4> QED BY <3>1, <4>2
    <3> QED BY <3>2, <3>3
  <2>3. CASE i # k
    <3>1. i \in 1..k - 1 BY <1>1, <2>3
    <3>2. i \in DOMAIN s /\ t[i] = s[i] /\ s[i].call # NoCall BY <1>7, <3>1
    <3>3. s[i].call.n \in 2..o /\ m[s[i].call.n].parent = Over(s, i) BY <1>2, <3>2 DEF Chain
    <3>4. \A j \in DOMAIN s : j < i => s[j].call.n < s[i].call.n BY <1>2, <3>2 DEF Chain
    <3>5. s[i].call.n \in 1..o /\ s[i].call.n \in 2..(o + 1) BY <3>3
    <3>6. ASSUME NEW j \in DOMAIN t, j < i PROVE t[j].call.n < t[i].call.n
      <4>1. j \in 1..k - 1 BY <1>1, <3>1, <3>6
      <4> QED BY <1>7, <3>2, <3>4, <3>6, <4>1
    <3> QED BY <1>5, <2>1, <3>2, <3>3, <3>5, <3>6
  <2> QED BY <2>2, <2>3
<1>10. ASSUME NEW r \in S, r.act = a PROVE RowOk(r, q, t, "run", d)
  <2>1. RowOk(r, m, s, "run", d) BY <1>10 DEF ActOk
  <2>2. ASSUME r.table = "events" PROVE EventOk(r, q, "run")
    <3>1. EventOk(r, m, "run") BY <2>1, <2>2 DEF RowOk
    <3>2. r.n \in 1..o /\ r.n \in 1..(o + 1) BY <1>2, <3>1 DEF EventOk
    <3> QED BY <1>5, <3>1, <3>2 DEF EventOk
  <2>3. ASSUME r.table = "tool_calls" PROVE CallOk(r, q, t, "run", d)
    <3>1. CallOk(r, m, s, "run", d) BY <2>1, <2>3 DEF RowOk
    <3>2. r.n \in 2..o /\ r.n \in 1..o /\ r.n \in 2..(o + 1) /\ r.n # o + 1 BY <1>2, <3>1 DEF CallOk
    <3> QED BY <1>5, <1>8, <3>1, <3>2 DEF CallOk
  <2> QED BY <2>2, <2>3 DEF RowOk
<1>11. Emitted(a, S, o + 1, t, "run") /\ Numbered(a, S, d)
  <2>1. Emitted(a, S, o, s, "run") /\ Numbered(a, S, d) BY DEF ActOk
  <2>2. \A n \in 1..(o + 1) : n = o + 1 \/ n \in 1..o OBVIOUS
  <2> QED BY <1>8, <2>1, <2>2 DEF Emitted
<1> QED BY <1>1, <1>5, <1>9, <1>10, <1>11 DEF ActOk

\* A stack whose k-th call has ended: the frames below it are as they were.
Shorter(s, t, k) ==
  /\ \A i \in DOMAIN s : i < k => (i \in DOMAIN t /\ t[i].call = s[i].call)
  /\ \A i \in DOMAIN t : (i \in DOMAIN s /\ i < k) \/ t[i].call = NoCall

LEMMA EndOpen ==
  ASSUME NEW s \in Seq(Level), NEW t \in Seq(Level), Nested(s), NEW m \in Seq(Made), Chain(s, m),
         NEW k \in DOMAIN s, s[k].call # NoCall, \A i \in DOMAIN s : i > k => s[i].call = NoCall,
         Shorter(s, t, k)
  PROVE  /\ s[k].call.n \in OpenCalls(s) /\ s[k].call.n \in 2..Len(m)
         /\ OpenCalls(t) = OpenCalls(s) \ {s[k].call.n}
<1>1. PICK l \in Nat : l = Len(s) /\ DOMAIN s = 1..l OBVIOUS
<1>2. s[k].call.n \in OpenCalls(s) BY DEF OpenCalls
<1>3. s[k].call.n \in 2..Len(m) /\ \A j \in DOMAIN s : j < k => s[j].call.n < s[k].call.n BY DEF Chain
<1>4. ASSUME NEW n \in OpenCalls(t) PROVE n \in OpenCalls(s) /\ n # s[k].call.n
  <2>1. PICK i \in DOMAIN t : t[i].call # NoCall /\ n = t[i].call.n BY DEF OpenCalls
  <2>2. i \in DOMAIN s /\ i < k /\ t[i].call = s[i].call BY <2>1 DEF Shorter
  <2>3. n < s[k].call.n BY <1>3, <2>1, <2>2
  <2>4. s[k].call.n \in Int BY <1>3
  <2>5. n # s[k].call.n BY <2>3, <2>4
  <2> QED BY <2>1, <2>2, <2>5 DEF OpenCalls
<1>5. ASSUME NEW n \in OpenCalls(s), n # s[k].call.n PROVE n \in OpenCalls(t)
  <2>1. PICK i \in DOMAIN s : s[i].call # NoCall /\ n = s[i].call.n BY DEF OpenCalls
  <2>2. i # k /\ ~(i > k) BY <1>5, <2>1
  <2>3. i < k BY <1>1, <2>2
  <2>4. i \in DOMAIN t /\ t[i].call = s[i].call BY <2>3 DEF Shorter
  <2> QED BY <2>1, <2>4 DEF OpenCalls
<1> QED BY <1>2, <1>3, <1>4, <1>5

\* The span at n has closed.
Closed(q, m, n, how) ==
  /\ q \in Seq(Made) /\ Len(q) = Len(m) /\ q[n].fate = how
  /\ \A i \in 1..Len(m) : q[i].parent = m[i].parent
  /\ \A i \in 1..Len(m) : i # n => q[i] = m[i]

\* Rows T are rows S and two more.
Plus(T, S, e, c) == T = S \cup {e, c}

\* The two rows of a call that has ended: span n, under x, is the d-th call.
Twin(e, c, a, n, x, d, how) ==
  /\ e.table = "events" /\ e.act = a /\ e.n = n /\ e.parent = x
  /\ c.table = "tool_calls" /\ c.act = a /\ c.n = n /\ c.ordinal = d /\ Truthful(c, how)

\* Call n, of frame k of the stack, ends and leaves stack t.
Ends(s, t, k, n) ==
  /\ s \in Seq(Level) /\ Nested(s) /\ t \in Seq(Level) /\ Nested(t) /\ Shorter(s, t, k)
  /\ k \in DOMAIN s /\ s[k].call # NoCall /\ n = s[k].call.n
  /\ \A i \in DOMAIN s : i > k => s[i].call = NoCall

\* A call ends: its span is a row, with its parent, and its call another.
LEMMA ActEnd ==
  ASSUME NEW a, NEW S, NEW m \in Seq(Made), NEW o \in Nat, NEW p \in {"run", "gone"}, NEW d \in Nat,
         NEW s, NEW t, NEW k, NEW n, ActOk(a, S, m, o, s, p, d), Ends(s, t, k, n),
         NEW x, x = Over(s, k), NEW how, NEW e, NEW c, Twin(e, c, a, n, x, d, how), NEW q, Closed(q, m, n, how),
         NEW T, Plus(T, S, e, c)
  PROVE  ActOk(a, T, q, o, t, p, d + 1)
<1> T = S \cup {e, c} BY DEF Plus
<1> /\ s \in Seq(Level) /\ Nested(s) /\ t \in Seq(Level) /\ Nested(t) /\ Shorter(s, t, k)
    /\ k \in DOMAIN s /\ s[k].call # NoCall /\ n = s[k].call.n
    /\ \A i \in DOMAIN s : i > k => s[i].call = NoCall
  BY DEF Ends
<1> /\ e.table = "events" /\ e.act = a /\ e.n = n /\ e.parent = Over(s, k)
    /\ c.table = "tool_calls" /\ c.act = a /\ c.n = n /\ c.ordinal = d /\ Truthful(c, how)
    /\ q \in Seq(Made) /\ Len(q) = Len(m) /\ q[n].fate = how
    /\ \A i \in 1..Len(m) : q[i].parent = m[i].parent
    /\ \A i \in 1..Len(m) : i # n => q[i] = m[i]
  BY DEF Twin, Closed
<1>1. Grown(m, o) /\ Chain(s, m) /\ Len(m) = o /\ o >= 1 BY DEF ActOk, Grown
<1>2. n \in OpenCalls(s) /\ n \in 2..o /\ OpenCalls(t) = OpenCalls(s) \ {n} BY <1>1, EndOpen
<1>3. n \in 1..o /\ n # Root BY <1>2 DEF Root
<1>4. Grown(q, o)
  <2>1. 1 \in 1..o BY <1>1
  <2>2. \A i \in 2..o : i \in 1..o OBVIOUS
  <2> QED BY <1>1, <2>1, <2>2 DEF Grown
<1>5. Chain(t, q)
  <2> SUFFICES ASSUME NEW i \in DOMAIN t, t[i].call # NoCall
               PROVE /\ t[i].call.n \in 2..Len(q) /\ q[t[i].call.n].parent = Over(t, i)
                     /\ \A j \in DOMAIN t : j < i => t[j].call.n < t[i].call.n
    BY DEF Chain
  <2>1. PICK l \in Nat : l = Len(t) /\ DOMAIN t = 1..l OBVIOUS
  <2>2. i \in DOMAIN s /\ i < k BY DEF Shorter
  <2>3. PICK l2 \in Nat : l2 = Len(s) /\ DOMAIN s = 1..l2 OBVIOUS
  <2>4. \A j \in 1..i : j \in DOMAIN s /\ j < k /\ j \in DOMAIN t BY <2>1, <2>2, <2>3
  <2>5. \A j \in 1..i : t[j].call = s[j].call BY <2>4 DEF Shorter
  <2>6. i \in 1..i /\ (i = 1 \/ i - 1 \in 1..i) BY <2>1
  <2>7. Over(t, i) = Over(s, i) BY <2>5, <2>6 DEF Over
  <2>8. /\ s[i].call.n \in 2..o /\ m[s[i].call.n].parent = Over(s, i)
        /\ \A j \in DOMAIN s : j < i => s[j].call.n < s[i].call.n
    BY <1>1, <2>2, <2>5, <2>6 DEF Chain
  <2>9. s[i].call.n \in 1..o BY <2>8
  <2>10. \A j \in DOMAIN t : j < i => t[j].call.n < t[i].call.n
    <3> SUFFICES ASSUME NEW j \in DOMAIN t, j < i PROVE t[j].call.n < t[i].call.n OBVIOUS
    <3>1. j \in 1..i BY <2>1
    <3> QED BY <2>4, <2>5, <2>6, <2>8, <3>1
  <2> QED BY <1>1, <2>5, <2>6, <2>7, <2>8, <2>9, <2>10
<1>6. ASSUME NEW r \in T, r.act = a PROVE RowOk(r, q, t, p, d + 1)
  <2>1. CASE r \in S
    <3>1. RowOk(r, m, s, p, d) BY <1>6, <2>1 DEF ActOk
    <3>2. ASSUME r.table = "events" PROVE EventOk(r, q, p)
      <4>1. EventOk(r, m, p) BY <3>1, <3>2 DEF RowOk
      <4> QED BY <1>1, <4>1 DEF EventOk
    <3>3. ASSUME r.table = "tool_calls" PROVE CallOk(r, q, t, p, d + 1)
      <4>1. CallOk(r, m, s, p, d) BY <3>1, <3>3 DEF RowOk
      <4>2. r.n # n /\ r.n \notin OpenCalls(t) BY <1>2, <4>1 DEF CallOk
      <4>3. r.n \in 2..o /\ r.n \in 1..o BY <1>1, <4>1 DEF CallOk
      <4>4. q[r.n] = m[r.n] BY <1>1, <4>2, <4>3
      <4>5. (p # "dead") => r.ordinal < d + 1
        <5>1. r.ordinal \in Nat /\ r.ordinal < d BY <4>1 DEF CallOk
        <5> QED BY <5>1
      <4> QED BY <1>1, <4>1, <4>2, <4>3, <4>4, <4>5 DEF CallOk
    <3> QED BY <3>2, <3>3 DEF RowOk
  <2>2. CASE r = e
    <3>1. r.n \in 1..o /\ r.n # Root BY <1>3, <2>2
    <3>2. r.parent = m[r.n].parent BY <1>1, <2>2 DEF Chain
    <3>3. EventOk(r, q, p) BY <1>1, <3>1, <3>2 DEF EventOk
    <3> QED BY <2>2, <3>3 DEF RowOk
  <2>3. CASE r = c
    <3>1. r.n \in 2..o /\ r.n \notin OpenCalls(t) /\ r.ordinal < d + 1 BY <1>2, <2>3
    <3>2. CallOk(r, q, t, p, d + 1) BY <1>1, <2>3, <3>1 DEF CallOk
    <3> QED BY <2>3, <3>2 DEF RowOk
  <2> QED BY <2>1, <2>2, <2>3
<1>7. Emitted(a, T, o, t, p)
  <2> SUFFICES ASSUME NEW i \in 1..o
               PROVE \/ i \in OpenCalls(t) \/ (i = Root /\ p # "ended")
                     \/ \E r \in T : r.act = a /\ r.table = "events" /\ r.n = i
    BY DEF Emitted
  <2>1. \/ i \in OpenCalls(s) \/ (i = Root /\ p # "ended")
        \/ \E r \in S : r.act = a /\ r.table = "events" /\ r.n = i
    BY DEF ActOk, Emitted
  <2>2. CASE i = n BY <2>2
  <2>3. CASE i # n BY <1>2, <2>1, <2>3
  <2> QED BY <2>2, <2>3
<1>8. Numbered(a, T, d + 1)
  <2> SUFFICES ASSUME NEW i \in Nat, i < d + 1
               PROVE \E r \in T : r.act = a /\ r.table = "tool_calls" /\ r.ordinal = i
    BY DEF Numbered
  <2>1. CASE i = d BY <2>1
  <2>2. CASE i # d
    <3>1. i < d BY <2>2
    <3> QED BY <3>1 DEF ActOk, Numbered
  <2> QED BY <2>1, <2>2
<1> QED BY <1>4, <1>5, <1>6, <1>7, <1>8 DEF ActOk

\* The reply of a request is a span of its own, under the turn.
LEMMA ActMore ==
  ASSUME NEW a, NEW S, NEW m \in Seq(Made), NEW o \in Nat, NEW d, ActOk(a, S, m, o, <<>>, "finish", d),
         NEW q, q = Append(m, Span(Root)),
         NEW e, e.table = "events", e.act = a, e.n = o + 1, e.parent = Root
  PROVE  ActOk(a, S \cup {e}, q, o + 1, <<>>, "close", d)
<1>1. Grown(m, o) /\ Len(m) = o /\ o >= 1 BY DEF ActOk, Grown
<1>2. Longer(q, m, o, Root)
  <2>1. PICK h \in Made : h = Span(Root) /\ h.parent = Root
    <3>1. Span(Root) \in Made /\ Span(Root).parent = Root BY DEF Span, Made, Root
    <3> QED BY <3>1
  <2>2. PICK x \in 1..o : x = Root BY <1>1 DEF Root
  <2>3. q = Append(m, h) /\ h.parent = x BY <2>1, <2>2
  <2>4. Longer(q, m, o, x) BY <1>1, <2>3, GrownMore
  <2> QED BY <2>2, <2>4
<1>3. OpenCalls(<<>>) = {} /\ Chain(<<>>, q) BY DEF OpenCalls, Chain
<1>4. Len(q) = o + 1 /\ q[o + 1].parent = Root /\ \A i \in 1..o : q[i] = m[i] BY <1>2 DEF Longer
<1>5. ASSUME NEW r \in S \cup {e}, r.act = a PROVE RowOk(r, q, <<>>, "close", d)
  <2>1. CASE r \in S
    <3>1. RowOk(r, m, <<>>, "finish", d) BY <1>5, <2>1 DEF ActOk
    <3>2. ASSUME r.table = "events" PROVE EventOk(r, q, "close")
      <4>1. EventOk(r, m, "finish") BY <3>1, <3>2 DEF RowOk
      <4>2. r.n \in 1..o /\ r.n \in 1..(o + 1) BY <1>1, <4>1 DEF EventOk
      <4> QED BY <1>4, <4>1, <4>2 DEF EventOk
    <3>3. ASSUME r.table = "tool_calls" PROVE CallOk(r, q, <<>>, "close", d)
      <4>1. CallOk(r, m, <<>>, "finish", d) BY <3>1, <3>3 DEF RowOk
      <4>2. r.n \in 2..o /\ r.n \in 1..o /\ r.n \in 2..(o + 1) BY <1>1, <4>1 DEF CallOk
      <4> QED BY <1>4, <4>1, <4>2 DEF CallOk
    <3> QED BY <3>2, <3>3 DEF RowOk
  <2>2. CASE r = e
    <3>1. r.n \in 1..(o + 1) /\ r.n # Root BY <1>1, <2>2 DEF Root
    <3>2. EventOk(r, q, "close") BY <1>4, <2>2, <3>1 DEF EventOk
    <3> QED BY <2>2, <3>2 DEF RowOk
  <2> QED BY <2>1, <2>2
<1>6. Emitted(a, S \cup {e}, o + 1, <<>>, "close")
  <2>1. Emitted(a, S, o, <<>>, "finish") BY DEF ActOk
  <2>2. \A i \in 1..(o + 1) : i = o + 1 \/ i \in 1..o BY <1>1
  <2> QED BY <2>1, <2>2 DEF Emitted
<1>7. Numbered(a, S \cup {e}, d) BY DEF ActOk, Numbered
<1> QED BY <1>2, <1>3, <1>5, <1>6, <1>7 DEF ActOk, Longer

\* The root of an act is its last row.
LEMMA ActLast ==
  ASSUME NEW a, NEW S, NEW m \in Seq(Made), NEW o \in Nat, NEW s, NEW d, ActOk(a, S, m, o, s, "close", d),
         NEW e, e.table = "events", e.act = a, e.n = Root, e.parent = NoParent
  PROVE  ActOk(a, S \cup {e}, m, o, s, "ended", d)
<1>1. Grown(m, o) /\ Chain(s, m) /\ Len(m) = o /\ o >= 1 /\ m[1].parent = NoParent BY DEF ActOk, Grown
<1>2. s = <<>> /\ OpenCalls(<<>>) = {} BY DEF ActOk, OpenCalls
<1>3. ASSUME NEW r \in S \cup {e}, r.act = a PROVE RowOk(r, m, s, "ended", d)
  <2>1. CASE r \in S
    <3>1. RowOk(r, m, s, "close", d) BY <1>3, <2>1 DEF ActOk
    <3> QED BY <3>1 DEF RowOk, EventOk, CallOk
  <2>2. CASE r = e
    <3>1. r.n \in 1..Len(m) /\ r.parent = m[r.n].parent BY <1>1, <2>2 DEF Root
    <3> QED BY <2>2, <3>1 DEF RowOk, EventOk
  <2> QED BY <2>1, <2>2
<1>4. Emitted(a, S \cup {e}, o, s, "ended")
  <2>1. Emitted(a, S, o, s, "close") BY DEF ActOk
  <2> QED BY <2>1 DEF Emitted
<1>5. Numbered(a, S \cup {e}, d) BY DEF ActOk, Numbered
<1> QED BY <1>1, <1>2, <1>3, <1>4, <1>5 DEF ActOk

-----------------------------------------------------------------------------
(* The channel and the tables *)

LEMMA RowFacts ==
  /\ \A r \in Row : r.act \in Recorded /\ r.n \in Nat
  /\ \A r \in EventRow : r.table = "events"
  /\ \A r \in CallRow : r.table = "tool_calls"
  /\ \A r \in Row : r.table = "events" => r \in EventRow
  /\ \A r \in Row : r.table # "events" => r \in CallRow
BY DEF Row, EventRow, CallRow

\* Channel t is channel q with row r sent last.
Extends(t, q, ev, c, m, r) ==
  /\ t \in Seq(Row) /\ LogOk(t, ev, c, m) /\ Before(t, ev, c) = Before(q, ev, c) \cup {r}
  /\ \A j \in DOMAIN t : t[j] = r \/ \E i \in DOMAIN q : t[j] = q[i]

LEMMA LogMore ==
  ASSUME NEW q \in Seq(Row), NEW ev, NEW c, NEW m, LogOk(q, ev, c, m), NEW r \in Row,
         \A x \in Before(q, ev, c) : Ordered(m, x, r), NEW t, t = Append(q, r)
  PROVE  Extends(t, q, ev, c, m, r)
<1>1. PICK k \in Nat : k = Len(q) /\ DOMAIN q = 1..k OBVIOUS
<1>2. t \in Seq(Row) /\ DOMAIN t = 1..(k + 1) /\ t[k + 1] = r /\ \A i \in 1..k : t[i] = q[i]
  BY <1>1
<1>3. \A j \in 1..(k + 1) : j = k + 1 \/ j \in 1..k BY <1>1
<1>4. ASSUME NEW i \in DOMAIN t, NEW j \in DOMAIN t, i < j PROVE Ordered(m, t[i], t[j])
  <2>1. i \in 1..k BY <1>1, <1>2, <1>4
  <2>2. CASE j = k + 1 BY <1>1, <1>2, <2>1, <2>2 DEF Before
  <2>3. CASE j \in 1..k BY <1>1, <1>2, <1>4, <2>1, <2>3 DEF LogOk
  <2> QED BY <1>2, <1>3, <2>2, <2>3
<1>5. ASSUME NEW x \in ev, NEW j \in DOMAIN t PROVE Ordered(m, x, t[j])
  <2>1. CASE j = k + 1 BY <1>2, <2>1 DEF Before
  <2>2. CASE j \in 1..k BY <1>1, <1>2, <2>2 DEF LogOk
  <2> QED BY <1>2, <1>3, <2>1, <2>2
<1>6. ASSUME NEW i \in DOMAIN c, NEW j \in DOMAIN t PROVE Ordered(m, c[i], t[j])
  <2>1. CASE j = k + 1 BY <1>2, <2>1 DEF Before
  <2>2. CASE j \in 1..k BY <1>1, <1>2, <2>2 DEF LogOk
  <2> QED BY <1>2, <1>3, <2>1, <2>2
<1>7. {t[i] : i \in DOMAIN t} = {q[i] : i \in DOMAIN q} \cup {r}
  <2>1. k + 1 \in DOMAIN t BY <1>1, <1>2
  <2>2. \A i \in 1..k : i \in DOMAIN t BY <1>1, <1>2
  <2> QED BY <1>1, <1>2, <1>3, <2>1, <2>2
<1>8. LogOk(t, ev, c, m) BY <1>4, <1>5, <1>6 DEF LogOk
<1>9. \A j \in DOMAIN t : t[j] = r \/ \E i \in DOMAIN q : t[j] = q[i] BY <1>1, <1>2, <1>3
<1>10. Before(t, ev, c) = Before(q, ev, c) \cup {r} BY <1>7 DEF Before
<1> QED BY <1>2, <1>8, <1>9, <1>10 DEF Extends

\* The order of the rows is about parents only.
LEMMA LogSame ==
  ASSUME NEW q, NEW ev, NEW c, NEW m, LogOk(q, ev, c, m), NEW w,
         \A y \in Before(q, {}, c) : w[y.act][y.n].parent = m[y.act][y.n].parent
  PROVE  LogOk(q, ev, c, w)
<1>1. ASSUME NEW x, NEW y \in Before(q, {}, c), Ordered(m, x, y) PROVE Ordered(w, x, y)
  <2>1. w[y.act][y.n].parent = m[y.act][y.n].parent OBVIOUS
  <2> QED BY <1>1, <2>1 DEF Ordered
<1>2. \A j \in DOMAIN q : q[j] \in Before(q, {}, c) BY DEF Before
<1>3. \A j \in DOMAIN c : c[j] \in Before(q, {}, c) BY DEF Before
<1> QED BY <1>1, <1>2, <1>3 DEF LogOk

LEMMA TailFacts ==
  ASSUME NEW q \in Seq(Row), q # <<>>
  PROVE  /\ Tail(q) \in Seq(Row) /\ Head(q) = q[1] /\ 1 \in DOMAIN q /\ Head(q) \in Row
         /\ \A j \in DOMAIN Tail(q) : j + 1 \in DOMAIN q /\ Tail(q)[j] = q[j + 1] /\ 1 < j + 1
         /\ \A j \in DOMAIN q : j = 1 \/ (j - 1 \in DOMAIN Tail(q) /\ Tail(q)[j - 1] = q[j])
<1>1. PICK k \in Nat : k = Len(q) /\ k # 0 /\ DOMAIN q = 1..k OBVIOUS
<1>2. PICK t : t = Tail(q) OBVIOUS
<1>3. t \in Seq(Row) /\ DOMAIN t = 1..(k - 1) /\ \A j \in 1..(k - 1) : t[j] = q[j + 1] BY <1>1, <1>2
<1>4. \A j \in 1..(k - 1) : j + 1 \in 1..k /\ 1 < j + 1 BY <1>1
<1>5. \A j \in 1..k : j = 1 \/ (j - 1 \in 1..(k - 1) /\ (j - 1) + 1 = j) BY <1>1
<1>6. 1 \in 1..k /\ Head(q) = q[1] /\ q[1] \in Row BY <1>1
<1> QED BY <1>1, <1>2, <1>3, <1>4, <1>5, <1>6

\* The oldest row leaves the channel, for a table or for good.
LEMMA LogTail ==
  ASSUME NEW q \in Seq(Row), q # <<>>, NEW ev, NEW c, NEW m, LogOk(q, ev, c, m)
  PROVE  LogOk(Tail(q), ev, c, m) /\ LogOk(Tail(q), ev \cup {Head(q)}, c, m)
<1>1. PICK t : t = Tail(q) OBVIOUS
<1>2. \A j \in DOMAIN t : j + 1 \in DOMAIN q /\ t[j] = q[j + 1] /\ 1 < j + 1 BY <1>1, TailFacts
<1>3. 1 \in DOMAIN q /\ Head(q) = q[1] BY TailFacts
<1>4. \A i, j \in DOMAIN t : i < j => Ordered(m, t[i], t[j])
  <2> SUFFICES ASSUME NEW i \in DOMAIN t, NEW j \in DOMAIN t, i < j PROVE Ordered(m, t[i], t[j]) OBVIOUS
  <2>1. i \in Int /\ j \in Int BY <1>1, TailFacts
  <2>2. i + 1 < j + 1 BY <2>1
  <2> QED BY <1>2, <2>2 DEF LogOk
<1>5. \A x \in ev : \A j \in DOMAIN t : Ordered(m, x, t[j]) BY <1>2 DEF LogOk
<1>6. \A i \in DOMAIN c : \A j \in DOMAIN t : Ordered(m, c[i], t[j]) BY <1>2 DEF LogOk
<1>7. \A j \in DOMAIN t : Ordered(m, Head(q), t[j]) BY <1>2, <1>3 DEF LogOk
<1> QED BY <1>1, <1>4, <1>5, <1>6, <1>7 DEF LogOk

LEMMA LogCall ==
  ASSUME NEW q \in Seq(Row), q # <<>>, NEW ev, NEW c \in Seq(CallRow), NEW m, LogOk(q, ev, c, m),
         Head(q) \in CallRow
  PROVE  LogOk(Tail(q), ev, Append(c, Head(q)), m)
<1>1. PICK t : t = Tail(q) OBVIOUS
<1>2. PICK b : b = Append(c, Head(q)) OBVIOUS
<1>3. PICK k \in Nat : k = Len(c) /\ DOMAIN c = 1..k OBVIOUS
<1>4. DOMAIN b = 1..(k + 1) /\ b[k + 1] = Head(q) /\ \A i \in 1..k : b[i] = c[i] BY <1>2, <1>3
<1>5. \A j \in 1..(k + 1) : j = k + 1 \/ j \in 1..k BY <1>3
<1>6. LogOk(t, ev, c, m) BY <1>1, LogTail
<1>7. \A j \in DOMAIN t : Ordered(m, Head(q), t[j])
  <2>1. \A j \in DOMAIN t : j + 1 \in DOMAIN q /\ t[j] = q[j + 1] /\ 1 < j + 1 BY <1>1, TailFacts
  <2>2. 1 \in DOMAIN q /\ Head(q) = q[1] BY TailFacts
  <2> QED BY <2>1, <2>2 DEF LogOk
<1>8. \A i \in 1..k : Ordered(m, c[i], Head(q))
  <2>1. 1 \in DOMAIN q /\ Head(q) = q[1] BY TailFacts
  <2> QED BY <1>3, <2>1 DEF LogOk
<1>9. ASSUME NEW i \in DOMAIN b, NEW j \in DOMAIN b, i < j PROVE Ordered(m, b[i], b[j])
  <2>1. i \in 1..k BY <1>3, <1>4, <1>9
  <2>2. CASE j = k + 1 BY <1>4, <1>8, <2>1, <2>2
  <2>3. CASE j \in 1..k BY <1>3, <1>4, <1>6, <1>9, <2>1, <2>3 DEF LogOk
  <2> QED BY <1>4, <1>5, <2>2, <2>3
<1>10. ASSUME NEW i \in DOMAIN b, NEW j \in DOMAIN t PROVE Ordered(m, b[i], t[j])
  <2>1. CASE i = k + 1 BY <1>4, <1>7, <2>1
  <2>2. CASE i \in 1..k BY <1>3, <1>4, <1>6, <2>2 DEF LogOk
  <2> QED BY <1>4, <1>5, <2>1, <2>2
<1> QED BY <1>1, <1>2, <1>6, <1>9, <1>10 DEF LogOk

-----------------------------------------------------------------------------
(* One step of an act *)

\* A step of act a leaves the other acts alone, but for the replays it starts.
Alone(a) ==
  /\ \A b \in Acts \ {a} :
       /\ made'[b] = made[b] /\ opened'[b] = opened[b]
       /\ ordinal'[b] = ordinal[b] /\ stack'[b] = stack[b]
       /\ pc'[b] = pc[b] \/ (pc[b] = "idle" /\ pc'[b] = "enter")
  /\ pc'[a] # "dead"

\* The rows of an act are about spans it opened.
LEMMA RowSpans ==
  ASSUME SpanTypes, SpanIInv, NEW r \in Sent
  PROVE  r \in Row /\ r.act \in Recorded /\ r.act \in Acts /\ r.n \in 1..Len(made[r.act])
<1>1. r \in Row BY DEF SpanTypes, Sent, Before, Row
<1>2. r.act \in Recorded /\ r.act \in Acts BY <1>1, RowFacts, SpansAssumption
<1>3. RowOk(r, made[r.act], stack[r.act], pc[r.act], ordinal[r.act]) BY <1>2 DEF SpanIInv, ActOk
<1>4. r.table = "events" \/ r.table = "tool_calls" BY <1>1, RowFacts DEF Row
<1>5. \A l : \A n \in 2..l : n \in 1..l OBVIOUS
<1> QED BY <1>1, <1>2, <1>3, <1>4, <1>5 DEF RowOk, EventOk, CallOk

\* The log of a step that keeps the parents of spans.
LEMMA SameLog ==
  ASSUME SpanTypes, SpanIInv, NEW a \in Acts, Alone(a),
         a \in Recorded => \A i \in 1..Len(made[a]) : made'[a][i].parent = made[a][i].parent
  PROVE  LogOk(queue, events, calls, made')
<1>1. LogOk(queue, events, calls, made) BY DEF SpanIInv
<1>2. ASSUME NEW y \in Before(queue, {}, calls) PROVE made'[y.act][y.n].parent = made[y.act][y.n].parent
  <2>1. y \in Sent BY DEF Sent, Before
  <2>2. y.act \in Recorded /\ y.act \in Acts /\ y.n \in 1..Len(made[y.act]) BY <2>1, RowSpans
  <2>3. CASE y.act = a BY <2>2, <2>3
  <2>4. CASE y.act # a BY <2>2, <2>4 DEF Alone
  <2> QED BY <2>3, <2>4
<1> QED BY <1>1, <1>2, LogSame

\* What a step has to show of its own act: N are the rows it sends.
LEMMA StepOk ==
  ASSUME SpanTypes, SpanIInv, NEW a \in Acts, Alone(a), UNCHANGED <<events, calls, lost>>,
         NEW N, \A r \in N : r.act = a, Before(queue', events, calls) = Before(queue, events, calls) \cup N,
         \A j \in DOMAIN queue' : queue'[j].act = a \/ \E i \in DOMAIN queue : queue'[j] = queue[i],
         LogOk(queue', events, calls, made'),
         a \in Recorded =>
           /\ ActOk(a, Sent \cup N, made'[a], opened'[a], stack'[a], pc'[a], ordinal'[a])
           /\ opened'[a] = opened[a] \/ ~Stored(a, Root)
  PROVE  SpanIInv'
<1>1. Sent' = Sent \cup N BY DEF Sent
<1>2. ASSUME NEW b \in Recorded
      PROVE  ActOk(b, Sent', made'[b], opened'[b], stack'[b], pc'[b], ordinal'[b])
  <2>1. CASE b = a BY <1>1, <2>1
  <2>2. CASE b # a
    <3>1. /\ made'[b] = made[b] /\ opened'[b] = opened[b]
          /\ ordinal'[b] = ordinal[b] /\ stack'[b] = stack[b]
          /\ pc'[b] = pc[b] \/ (pc[b] = "idle" /\ pc'[b] = "enter")
      BY <2>2, SpansAssumption DEF Alone
    <3>2. ActOk(b, Sent, made[b], opened[b], stack[b], pc[b], ordinal[b]) BY DEF SpanIInv
    <3>3. Sent \subseteq Sent' /\ \A r \in Sent' : r \in Sent \/ r.act # b BY <1>1, <2>2
    <3>4. ActOk(b, Sent', made[b], opened[b], stack[b], pc'[b], ordinal[b])
      BY <3>1, <3>2, <3>3, ActFrame
    <3> QED BY <3>1, <3>4
  <2> QED BY <2>1, <2>2
<1>3. ASSUME NEW b \in Recorded PROVE WholeOk(b)' /\ GapOk(b)'
  <2>1. WholeOk(b) /\ GapOk(b) BY DEF SpanIInv
  <2>2. opened'[b] = opened[b] \/ ~Stored(b, Root) BY SpansAssumption DEF Alone
  <2>3. WholeOk(b)' BY <2>1, <2>2 DEF WholeOk, Stored, Missing
  <2>4. GapOk(b)' BY <2>1 DEF GapOk, Missing, CallsOf
  <2> QED BY <2>3, <2>4
<1>4. ASSUME NEW j \in DOMAIN queue' PROVE pc'[queue'[j].act] # "dead"
  <2>1. CASE queue'[j].act = a BY <2>1 DEF Alone
  <2>2. CASE queue'[j].act # a
    <3>1. PICK i \in DOMAIN queue : queue'[j] = queue[i] BY <2>2
    <3>2. queue[i] \in Sent BY DEF Sent, Before
    <3>3. queue[i].act \in Acts /\ queue[i].act # a BY <2>2, <3>1, <3>2, RowSpans
    <3>4. pc[queue[i].act] # "dead" BY DEF SpanIInv
    <3>5. pc'[queue[i].act] = pc[queue[i].act] \/ pc'[queue[i].act] = "enter" BY <3>3 DEF Alone
    <3> QED BY <3>1, <3>4, <3>5
  <2> QED BY <2>1, <2>2
<1>5. LogOk(queue', events', calls', made') OBVIOUS
<1> QED BY <1>2, <1>3, <1>4, <1>5 DEF SpanIInv

LEMMA Acting ==
  ASSUME RuntimeTypes, WorkIInv, SpanIInv, NEW a \in Acts
  PROVE  /\ stack[a] \in Seq(Level) /\ Nested(stack[a]) /\ opened[a] \in Nat
         /\ made[a] \in Seq(Made) /\ Len(made[a]) \in Nat
         /\ a \in Recorded => ActOk(a, Sent, made[a], opened[a], stack[a], pc[a], ordinal[a])
<1>1. Nested(stack[a]) BY DEF WorkIInv, Fit
<1>2. PICK m \in Seq(Made) : m = made[a] BY ActTypes
<1>3. Len(m) \in Nat BY <1>2
<1> QED BY <1>1, <1>2, <1>3, ActTypes DEF SpanIInv

\* A step that opens and closes no span.
LEMMA MoveStep ==
  ASSUME RuntimeTypes, WorkIInv, SpanTypes, SpanIInv, NEW a \in Acts, Alone(a), UNCHANGED spanVars,
         made'[a] = made[a], opened'[a] = opened[a],
         stack'[a] \in Seq(Level), Nested(stack'[a]), SameCalls(stack[a], stack'[a]),
         pc[a] \notin {"ended", "dead"}, pc'[a] \notin {"idle", "ended", "dead"},
         a \in Recorded => (pc'[a] \notin {"run", "gone"} => stack'[a] = <<>>)
  PROVE  SpanTypes' /\ SpanIInv'
<1>1. UNCHANGED <<ordinal, queue, events, calls, lost>> BY DEF spanVars
<1>2. SpanTypes' BY <1>1 DEF SpanTypes
<1>3. LogOk(queue', events, calls, made') BY <1>1, SameLog
<1>4. ASSUME a \in Recorded
      PROVE  ActOk(a, Sent \cup {}, made'[a], opened'[a], stack'[a], pc'[a], ordinal'[a])
  <2>1. PICK s \in Seq(Level) : s = stack[a] /\ Nested(s) BY Acting
  <2>2. PICK t \in Seq(Level) : t = stack'[a] /\ Nested(t) OBVIOUS
  <2>3. PICK w : w = pc'[a] OBVIOUS
  <2>4. ActOk(a, Sent, made[a], opened[a], s, pc[a], ordinal[a]) BY <1>4, <2>1, Acting
  <2>5. made[a] \in Seq(Made) BY Acting
  <2>6. SameCalls(s, t) BY <2>1, <2>2
  <2>7. w \notin {"idle", "ended", "dead"} /\ (w \notin {"run", "gone"} => t = <<>>) BY <1>4, <2>2, <2>3
  <2>8. ActOk(a, Sent, made[a], opened[a], t, w, ordinal[a]) BY <2>1, <2>2, <2>4, <2>5, <2>6, <2>7, ActMove
  <2> QED BY <1>1, <2>2, <2>3, <2>8
<1>5. /\ Before(queue', events, calls) = Before(queue, events, calls) \cup {}
      /\ \A j \in DOMAIN queue' : queue'[j].act = a \/ \E i \in DOMAIN queue : queue'[j] = queue[i]
  BY <1>1
<1>6. SpanIInv'
  <2>1. PICK N : N = {} OBVIOUS
  <2>2. \A r \in N : r.act = a BY <2>1
  <2>3. Before(queue', events, calls) = Before(queue, events, calls) \cup N BY <1>5, <2>1
  <2>4. a \in Recorded =>
          /\ ActOk(a, Sent \cup N, made'[a], opened'[a], stack'[a], pc'[a], ordinal'[a])
          /\ opened'[a] = opened[a] \/ ~Stored(a, Root)
    BY <1>4, <2>1
  <2> QED BY <1>1, <1>3, <1>5, <2>2, <2>3, <2>4, StepOk
<1> QED BY <1>2, <1>6

\* A tool is called.
LEMMA OpenRow ==
  ASSUME RuntimeTypes, WorkIInv, SpanTypes, SpanIInv, NEW a \in Acts, Alone(a), UNCHANGED spanVars,
         pc[a] = "run", pc'[a] = "run", stack[a] # <<>>, stack[a][Len(stack[a])].call = NoCall,
         opened'[a] = opened[a] + 1, made'[a] = Append(made[a], Span(Over(stack[a], Len(stack[a])))),
         stack'[a] \in Seq(Level), Len(stack'[a]) = Len(stack[a]),
         \A i \in 1..Len(stack[a]) - 1 : stack'[a][i] = stack[a][i],
         stack'[a][Len(stack[a])].call.n = opened[a] + 1, stack'[a][Len(stack[a])].call # NoCall
  PROVE  SpanTypes' /\ SpanIInv'
<1>1. UNCHANGED <<ordinal, queue, events, calls, lost>> BY DEF spanVars
<1>2. SpanTypes' BY <1>1 DEF SpanTypes
<1>3. LogOk(queue', events, calls, made')
  <2>1. PICK m \in Seq(Made) : m = made[a] BY Acting
  <2>2. made'[a] = Append(m, Span(Over(stack[a], Len(stack[a])))) BY <2>1
  <2>3. \A i \in 1..Len(m) : made'[a][i] = m[i] BY <2>2
  <2>4. LogOk(queue, events, calls, made') BY <2>1, <2>3, SameLog
  <2> QED BY <1>1, <2>4
<1>4. ASSUME a \in Recorded
      PROVE  /\ ActOk(a, Sent \cup {}, made'[a], opened'[a], stack'[a], pc'[a], ordinal'[a])
             /\ ~Stored(a, Root)
  <2>1. PICK s \in Seq(Level) : s = stack[a] /\ Nested(s) BY Acting
  <2>2. PICK t \in Seq(Level) : t = stack'[a] OBVIOUS
  <2>3. ActOk(a, Sent, made[a], opened[a], s, "run", ordinal[a]) BY <1>4, <2>1, Acting
  <2>4. made[a] \in Seq(Made) /\ opened[a] \in Nat BY Acting
  <2>5. /\ s # <<>> /\ s[Len(s)].call = NoCall /\ Len(t) = Len(s)
        /\ \A i \in 1..Len(s) - 1 : t[i] = s[i]
        /\ t[Len(s)].call.n = opened[a] + 1 /\ t[Len(s)].call # NoCall
    BY <2>1, <2>2
  <2>6. PICK q : q = Append(made[a], Span(Over(s, Len(s)))) OBVIOUS
  <2>7. ActOk(a, Sent, q, opened[a] + 1, t, "run", ordinal[a])
    BY <2>1, <2>2, <2>3, <2>4, <2>5, <2>6, ActOpen
  <2>8. ~Stored(a, Root)
    <3> SUFFICES ASSUME NEW e \in events, e.act = a, e.n = Root PROVE FALSE BY DEF Stored
    <3>1. e \in Sent /\ e.table = "events" BY RowFacts DEF Sent, Before, SpanTypes
    <3>2. RowOk(e, made[a], s, "run", ordinal[a]) BY <2>3, <3>1 DEF ActOk
    <3> QED BY <3>1, <3>2 DEF RowOk, EventOk
  <2> QED BY <1>1, <2>1, <2>2, <2>6, <2>7, <2>8
<1>5. /\ Before(queue', events, calls) = Before(queue, events, calls) \cup {}
      /\ \A j \in DOMAIN queue' : queue'[j].act = a \/ \E i \in DOMAIN queue : queue'[j] = queue[i]
  BY <1>1
<1>6. SpanIInv'
  <2>1. PICK N : N = {} OBVIOUS
  <2>2. \A r \in N : r.act = a BY <2>1
  <2>3. Before(queue', events, calls) = Before(queue, events, calls) \cup N BY <1>5, <2>1
  <2>4. a \in Recorded =>
          /\ ActOk(a, Sent \cup N, made'[a], opened'[a], stack'[a], pc'[a], ordinal'[a])
          /\ opened'[a] = opened[a] \/ ~Stored(a, Root)
    BY <1>4, <2>1
  <2> QED BY <1>1, <1>3, <1>5, <2>2, <2>3, <2>4, StepOk
<1> QED BY <1>2, <1>6

\* Until an act has ended its root has no row.
LEMMA NoRoot ==
  ASSUME RuntimeTypes, WorkIInv, SpanTypes, SpanIInv, NEW a \in Recorded, pc[a] \notin {"ended", "dead"},
         NEW x \in Sent, x.act = a, x.table = "events"
  PROVE  x.n # Root
<1>1. RowOk(x, made[a], stack[a], pc[a], ordinal[a]) BY DEF SpanIInv, ActOk
<1> QED BY <1>1 DEF RowOk, EventOk

LEMMA NotStored ==
  ASSUME RuntimeTypes, WorkIInv, SpanTypes, SpanIInv, NEW a \in Recorded, pc[a] \notin {"ended", "dead"}
  PROVE  ~Stored(a, Root)
<1> SUFFICES ASSUME NEW e \in events, e.act = a, e.n = Root PROVE FALSE BY DEF Stored
<1>1. e \in Sent /\ e.table = "events" BY RowFacts DEF Sent, Before, SpanTypes
<1> QED BY <1>1, NoRoot

LEMMA EventAfter ==
  ASSUME RuntimeTypes, WorkIInv, SpanTypes, SpanIInv, NEW a \in Recorded, pc[a] \notin {"ended", "dead"},
         NEW r, r.act = a, r.table = "events", NEW x \in Before(queue, events, calls), NEW w
  PROVE  Ordered(w, x, r)
<1>1. x \in Sent BY DEF Sent
<1>2. x.act = a => ~(x.table = "events" /\ x.n = Root) BY <1>1, NoRoot
<1>3. r.table # "tool_calls" OBVIOUS
<1> QED BY <1>2, <1>3 DEF Ordered

\* The row of a call comes after those of the calls it caused.
LEMMA CallAfter ==
  ASSUME RuntimeTypes, WorkIInv, SpanTypes, SpanIInv, NEW a \in Recorded, pc[a] \notin {"ended", "dead"},
         NEW r, r.act = a, r.table = "tool_calls", r.ordinal = ordinal[a],
         NEW k \in DOMAIN stack[a], NEW w, w[a][r.n].parent = Over(stack[a], k),
         NEW x \in Before(queue, events, calls)
  PROVE  Ordered(w, x, r)
<1> SUFFICES ASSUME x.act = a
             PROVE /\ ~(x.table = "events" /\ x.n = Root)
                   /\ x.table = "tool_calls" => (x.ordinal < r.ordinal /\ w[a][r.n].parent # x.n)
  BY DEF Ordered
<1>1. x \in Sent BY DEF Sent
<1>2. ~(x.table = "events" /\ x.n = Root) BY <1>1, NoRoot
<1>3. ASSUME x.table = "tool_calls" PROVE x.ordinal < ordinal[a] /\ w[a][r.n].parent # x.n
  <2>0. a \in Acts BY SpansAssumption
  <2>1. ActOk(a, Sent, made[a], opened[a], stack[a], pc[a], ordinal[a]) BY DEF SpanIInv
  <2>2. RowOk(x, made[a], stack[a], pc[a], ordinal[a]) BY <1>1, <2>1 DEF ActOk
  <2>3. CallOk(x, made[a], stack[a], pc[a], ordinal[a]) BY <1>3, <2>2 DEF RowOk
  <2>4. Over(stack[a], k) = Root \/ Over(stack[a], k) \in OpenCalls(stack[a])
    <3>1. PICK s \in Seq(Level) : s = stack[a] /\ Nested(s) BY <2>0, Acting
    <3>2. PICK m \in Seq(Made) : m = made[a] BY <2>0, Acting
    <3>3. Len(m) >= 1 /\ Chain(s, m) BY <2>1, <3>1, <3>2 DEF ActOk, Grown
    <3>4. k \in DOMAIN s BY <3>1
    <3> QED BY <3>1, <3>3, <3>4, OverOpen
  <2>5. x.n \in 2..Len(made[a]) /\ x.n \notin OpenCalls(stack[a]) BY <2>3 DEF CallOk
  <2>6. x.n # Root BY <2>5 DEF Root
  <2> QED BY <2>3, <2>4, <2>5, <2>6 DEF CallOk
<1> QED BY <1>2, <1>3

\* Channel t is the channel with the rows N of act a sent last: what StepOk asks.
Sends(a, t, w, N) ==
  /\ t \in Seq(Row) /\ LogOk(t, events, calls, w)
  /\ Before(t, events, calls) = Before(queue, events, calls) \cup N
  /\ \A j \in DOMAIN t : t[j].act = a \/ \E i \in DOMAIN queue : t[j] = queue[i]

LEMMA SendOne ==
  ASSUME RuntimeTypes, WorkIInv, SpanTypes, SpanIInv, NEW a \in Recorded, pc[a] \notin {"ended", "dead"},
         NEW w, LogOk(queue, events, calls, w), NEW r \in EventRow, r.act = a,
         NEW t, t = Append(queue, r)
  PROVE  Sends(a, t, w, {r})
<1>1. r \in Row /\ r.table = "events" BY RowFacts DEF Row
<1>2. queue \in Seq(Row) BY DEF SpanTypes
<1>3. \A x \in Before(queue, events, calls) : Ordered(w, x, r) BY <1>1, EventAfter
<1>4. Extends(t, queue, events, calls, w, r) BY <1>1, <1>2, <1>3, LogMore
<1> QED BY <1>4 DEF Extends, Sends

\* A call's span becomes a row, and the call another.
LEMMA SendTwo ==
  ASSUME RuntimeTypes, WorkIInv, SpanTypes, SpanIInv, NEW a \in Recorded, pc[a] \notin {"ended", "dead"},
         NEW w, LogOk(queue, events, calls, w),
         NEW e \in EventRow, e.act = a, e.n # Root,
         NEW c \in CallRow, c.act = a, c.ordinal = ordinal[a],
         NEW k \in DOMAIN stack[a], w[a][c.n].parent = Over(stack[a], k),
         NEW t, t = queue \o <<e, c>>
  PROVE  Sends(a, t, w, {e, c})
<1>0. queue \in Seq(Row) /\ e \in Row /\ c \in Row /\ e.table = "events" /\ c.table = "tool_calls"
  BY RowFacts DEF SpanTypes, Row
<1>1. PICK u : u = Append(queue, e) OBVIOUS
<1>2. Sends(a, u, w, {e}) BY <1>1, SendOne
<1>3. u \in Seq(Row) /\ LogOk(u, events, calls, w) /\ t = Append(u, c) BY <1>0, <1>1, <1>2 DEF Sends
<1>4. \A x \in Before(u, events, calls) : Ordered(w, x, c)
  <2> SUFFICES ASSUME NEW x \in Before(u, events, calls) PROVE Ordered(w, x, c) OBVIOUS
  <2>1. CASE x = e BY <1>0, <2>1 DEF Ordered
  <2>2. CASE x # e
    <3>1. x \in Before(queue, events, calls) BY <1>2, <2>2 DEF Sends
    <3> QED BY <1>0, <3>1, CallAfter
  <2> QED BY <2>1, <2>2
<1>5. Extends(t, u, events, calls, w, c) BY <1>0, <1>3, <1>4, LogMore
<1>6. Before(t, events, calls) = Before(queue, events, calls) \cup {e, c} BY <1>2, <1>5 DEF Extends, Sends
<1>7. \A j \in DOMAIN t : t[j].act = a \/ \E i \in DOMAIN queue : t[j] = queue[i]
  BY <1>2, <1>5 DEF Extends, Sends
<1> QED BY <1>5, <1>6, <1>7 DEF Extends, Sends

\* The result of closing span n.
LEMMA ClosedShape ==
  ASSUME NEW m \in Seq(Made), NEW n \in 1..Len(m), NEW how \in Fates, NEW q, q = [m EXCEPT ![n].fate = how]
  PROVE  Closed(q, m, n, how)
<1>1. PICK l \in Nat : l = Len(m) /\ DOMAIN m = 1..l /\ \A i \in 1..l : m[i] \in Made OBVIOUS
<1>2. PICK h : h = [m[n] EXCEPT !.fate = how] OBVIOUS
<1>3. h \in Made /\ h.fate = how /\ h.parent = m[n].parent BY <1>1, <1>2 DEF Made, Fates
<1>4. q = [m EXCEPT ![n] = h] BY <1>2
<1>5. q \in Seq(Made) /\ Len(q) = Len(m) /\ q[n] = h /\ \A i \in 1..l : i # n => q[i] = m[i]
  BY <1>1, <1>3, <1>4
<1>6. \A i \in 1..l : q[i].parent = m[i].parent BY <1>3, <1>5
<1> QED BY <1>1, <1>3, <1>5, <1>6 DEF Closed

\* A call ends, and becomes two rows if its act is recorded.
LEMMA CloseRow ==
  ASSUME RuntimeTypes, WorkIInv, SpanTypes, SpanIInv, NEW a \in Acts, Alone(a),
         pc[a] \in {"run", "gone"}, pc'[a] = pc[a], opened'[a] = opened[a],
         NEW k \in DOMAIN stack[a], stack[a][k].call # NoCall,
         \A i \in DOMAIN stack[a] : i > k => stack[a][i].call = NoCall,
         stack'[a] \in Seq(Level), Nested(stack'[a]), Shorter(stack[a], stack'[a], k),
         NEW told \in {"result", "error", "nothing"}, NEW how \in Fates,
         Truthful(ToolCall(a, stack[a][k].call, told), how),
         CloseTool(a, stack[a][k].call, Over(stack[a], k), told),
         made' = [made EXCEPT ![a][stack[a][k].call.n].fate = how]
  PROVE  SpanTypes' /\ SpanIInv'
<1>1. CASE a \notin Recorded
  <2>1. UNCHANGED <<ordinal, queue, events, calls, lost>> BY <1>1 DEF CloseTool, spanVars
  <2>2. SpanTypes' BY <2>1 DEF SpanTypes
  <2>3. LogOk(queue', events, calls, made') BY <1>1, <2>1, SameLog
  <2>4. PICK N : N = {} OBVIOUS
  <2>5. /\ \A r \in N : r.act = a
        /\ Before(queue', events, calls) = Before(queue, events, calls) \cup N
        /\ \A j \in DOMAIN queue' : queue'[j].act = a \/ \E i \in DOMAIN queue : queue'[j] = queue[i]
    BY <2>1, <2>4
  <2>6. SpanIInv' BY <1>1, <2>1, <2>3, <2>5, StepOk
  <2> QED BY <2>2, <2>6
<1>2. CASE a \in Recorded
  <2>1. PICK s \in Seq(Level) : s = stack[a] /\ Nested(s) BY Acting
  <2>2. PICK t \in Seq(Level) : t = stack'[a] /\ Nested(t) OBVIOUS
  <2>3. PICK m \in Seq(Made) : m = made[a] /\ Len(m) \in Nat BY Acting
  <2>4. PICK o \in Nat : o = opened[a] BY Acting
  <2>5. PICK p \in {"run", "gone"} : p = pc[a] OBVIOUS
  <2>6. PICK d \in Nat : d = ordinal[a] BY DEF SpanTypes
  <2>7. ActOk(a, Sent, m, o, s, p, d) BY <1>2, <2>1, <2>3, <2>4, <2>5, <2>6, Acting
  <2>8. k \in DOMAIN s /\ s[k].call # NoCall /\ Shorter(s, t, k) BY <2>1, <2>2
  <2>9. \A i \in DOMAIN s : i > k => s[i].call = NoCall BY <2>1
  <2>10. PICK n : n = s[k].call.n OBVIOUS
  <2>11. Chain(s, m) /\ Len(m) = o /\ o >= 1 BY <2>7 DEF ActOk, Grown
  <2>12. n \in 2..Len(m) BY <2>1, <2>2, <2>8, <2>9, <2>10, <2>11, EndOpen
  <2>13. n \in Nat /\ n \in 1..Len(m) /\ n # Root /\ m[n].parent = Over(s, k)
    <3>1. m[n].parent = Over(s, k) BY <2>8, <2>10, <2>11 DEF Chain
    <3>2. n \in Nat /\ n \in 1..Len(m) /\ n # Root BY <2>3, <2>12 DEF Root
    <3> QED BY <3>1, <3>2
  <2>14. PICK q : q = made'[a] OBVIOUS
  <2>15. Closed(q, m, n, how)
    <3>1. made'[a] = [made[a] EXCEPT ![n].fate = how] BY <2>1, <2>10 DEF RuntimeTypes
    <3>2. q = [m EXCEPT ![n].fate = how] BY <2>3, <2>14, <3>1
    <3> QED BY <2>13, <3>2, ClosedShape
  <2>16. PICK e : e = Event(a, n, Over(s, k)) OBVIOUS
  <2>17. PICK c : c = ToolCall(a, s[k].call, told) OBVIOUS
  <2>18. /\ queue' = queue \o <<e, c>> /\ ordinal' = [ordinal EXCEPT ![a] = @ + 1]
         /\ UNCHANGED <<events, calls, lost>>
    BY <1>2, <2>1, <2>10, <2>16, <2>17 DEF CloseTool
  <2>19. e \in EventRow /\ e.table = "events" /\ e.act = a /\ e.n = n /\ e.parent = Over(s, k)
    <3>1. Len(m) >= 1 BY <2>3, <2>11
    <3>2. Over(s, k) \in Nat BY <2>1, <2>3, <2>8, <2>11, <3>1, OverOpen
    <3> QED BY <1>2, <2>13, <2>16, <3>2 DEF Event, EventRow
  <2>20. c \in CallRow /\ c.table = "tool_calls" /\ c.act = a /\ c.n = n /\ c.ordinal = d /\ Truthful(c, how)
    <3>2. s[k].call \in Call BY <2>1, <2>8, LevelFacts
    <3>3. c = [table |-> "tool_calls", act |-> a, n |-> n, tool |-> s[k].call.tool, ordinal |-> d, told |-> told]
      BY <2>6, <2>10, <2>17 DEF ToolCall
    <3>4. c \in CallRow BY <1>2, <2>6, <2>13, <3>2, <3>3 DEF Call, CallRow
    <3>5. Truthful(c, how) BY <2>1, <2>17
    <3> QED BY <3>3, <3>4, <3>5
  <2>21. ActOk(a, Sent \cup {e, c}, q, o, t, p, d + 1)
    <3>1. PICK x : x = Over(s, k) OBVIOUS
    <3>2. Twin(e, c, a, n, x, d, how) BY <2>19, <2>20, <3>1 DEF Twin
    <3>3. Ends(s, t, k, n) BY <2>1, <2>2, <2>8, <2>9, <2>10 DEF Ends
    <3>4. PICK T : T = Sent \cup {e, c} OBVIOUS
    <3>5. Plus(T, Sent, e, c) BY <3>4 DEF Plus
    <3>6. ActOk(a, T, q, o, t, p, d + 1)
      BY <2>3, <2>4, <2>5, <2>6, <2>7, <2>15, <3>1, <3>2, <3>3, <3>5, ActEnd
    <3> QED BY <3>4, <3>6
  <2>22. LogOk(queue, events, calls, made')
    <3>1. \A i \in 1..Len(made[a]) : made'[a][i].parent = made[a][i].parent
      BY <2>3, <2>14, <2>15 DEF Closed
    <3> QED BY <3>1, SameLog
  <2>23. Sends(a, queue', made', {e, c})
    <3>1. pc[a] \notin {"ended", "dead"} BY <2>5
    <3>2. k \in DOMAIN stack[a] /\ made'[a][c.n].parent = Over(stack[a], k)
      BY <2>1, <2>8, <2>13, <2>14, <2>15, <2>20 DEF Closed
    <3>3. e.act = a /\ e.n # Root /\ c.act = a /\ c.ordinal = ordinal[a] BY <2>6, <2>13, <2>19, <2>20
    <3> QED BY <1>2, <2>18, <2>19, <2>20, <2>22, <3>1, <3>2, <3>3, SendTwo
  <2>24. SpanTypes'
    <3>1. ordinal' \in [Acts -> Nat] BY <2>18, Counted DEF SpanTypes
    <3> QED BY <2>18, <2>23, <3>1 DEF SpanTypes, Sends
  <2>25. SpanIInv'
    <3>1. PICK N : N = {e, c} OBVIOUS
    <3>2. \A r \in N : r.act = a BY <2>19, <2>20, <3>1
    <3>3. ordinal'[a] = d + 1 BY <2>6, <2>18 DEF SpanTypes
    <3>4. ActOk(a, Sent \cup N, made'[a], opened'[a], stack'[a], pc'[a], ordinal'[a])
      BY <2>2, <2>4, <2>5, <2>14, <2>21, <3>1, <3>3
    <3>5. /\ LogOk(queue', events, calls, made')
          /\ Before(queue', events, calls) = Before(queue, events, calls) \cup N
          /\ \A j \in DOMAIN queue' : queue'[j].act = a \/ \E i \in DOMAIN queue : queue'[j] = queue[i]
      BY <2>23, <3>1 DEF Sends
    <3> QED BY <2>18, <3>2, <3>4, <3>5, StepOk
  <2> QED BY <2>24, <2>25
<1> QED BY <1>1, <1>2

\* The reply of a recorded request becomes a row.
LEMMA ReplyRow ==
  ASSUME RuntimeTypes, WorkIInv, SpanTypes, SpanIInv, NEW a \in Recorded, Alone(a),
         pc[a] = "finish", pc'[a] = "close", opened'[a] = opened[a] + 1,
         made' = [made EXCEPT ![a] = Append(@, Span(Root))], stack'[a] = stack[a],
         CloseSpan(a, opened[a] + 1, Root)
  PROVE  SpanTypes' /\ SpanIInv'
<1>1. a \in Acts BY SpansAssumption
<1>2. PICK m \in Seq(Made) : m = made[a] BY <1>1, Acting
<1>3. PICK o \in Nat : o = opened[a] BY <1>1, Acting
<1>4. PICK d : d = ordinal[a] OBVIOUS
<1>5. ActOk(a, Sent, m, o, stack[a], "finish", d) BY <1>1, <1>2, <1>3, <1>4, Acting
<1>6. stack[a] = <<>> /\ Len(m) = o BY <1>5 DEF ActOk, Grown
<1>7. PICK q : q = Append(m, Span(Root)) OBVIOUS
<1>8. made'[a] = q BY <1>1, <1>2, <1>7 DEF RuntimeTypes
<1>9. PICK e : e = Event(a, o + 1, Root) OBVIOUS
<1>10. e \in EventRow /\ e.table = "events" /\ e.act = a /\ e.n = o + 1 /\ e.parent = Root
  <2>1. o + 1 \in Nat /\ Root \in Nat BY DEF Root
  <2> QED BY <1>9, <2>1 DEF Event, EventRow
<1>11. queue' = Append(queue, e) /\ UNCHANGED <<ordinal, events, calls, lost>>
  BY <1>3, <1>9 DEF CloseSpan
<1>12. ActOk(a, Sent, m, o, <<>>, "finish", d) BY <1>5, <1>6
<1>13. ActOk(a, Sent \cup {e}, q, o + 1, <<>>, "close", d) BY <1>7, <1>10, <1>12, ActMore
<1>14. LogOk(queue, events, calls, made')
  <2>1. \A i \in 1..Len(m) : q[i] = m[i] BY <1>7
  <2>2. \A i \in 1..Len(made[a]) : made'[a][i].parent = made[a][i].parent BY <1>2, <1>8, <2>1
  <2> QED BY <1>1, <2>2, SameLog
<1>15. Sends(a, queue', made', {e}) BY <1>10, <1>11, <1>14, SendOne
<1>16. SpanTypes' BY <1>11, <1>15 DEF SpanTypes, Sends
<1>17. SpanIInv'
  <2>1. PICK N : N = {e} OBVIOUS
  <2>2. \A r \in N : r.act = a BY <1>10, <2>1
  <2>3. ActOk(a, Sent \cup N, made'[a], opened'[a], stack'[a], pc'[a], ordinal'[a])
    BY <1>3, <1>4, <1>6, <1>8, <1>11, <1>13, <2>1
  <2>4. /\ LogOk(queue', events, calls, made')
        /\ Before(queue', events, calls) = Before(queue, events, calls) \cup N
        /\ \A j \in DOMAIN queue' : queue'[j].act = a \/ \E i \in DOMAIN queue : queue'[j] = queue[i]
    BY <1>15, <2>1 DEF Sends
  <2>5. ~Stored(a, Root) BY NotStored
  <2> QED BY <1>1, <1>11, <2>2, <2>3, <2>4, <2>5, StepOk
<1> QED BY <1>16, <1>17

\* The root of a recorded act becomes its last row.
LEMMA RootRow ==
  ASSUME RuntimeTypes, WorkIInv, SpanTypes, SpanIInv, NEW a \in Recorded, Alone(a),
         pc[a] = "close", pc'[a] = "ended", opened'[a] = opened[a], UNCHANGED made, stack'[a] = stack[a],
         CloseSpan(a, Root, NoParent)
  PROVE  SpanTypes' /\ SpanIInv'
<1>1. a \in Acts BY SpansAssumption
<1>2. PICK m \in Seq(Made) : m = made[a] BY <1>1, Acting
<1>3. PICK o \in Nat : o = opened[a] BY <1>1, Acting
<1>4. PICK d : d = ordinal[a] OBVIOUS
<1>5. ActOk(a, Sent, m, o, stack[a], "close", d) BY <1>1, <1>2, <1>3, <1>4, Acting
<1>6. PICK e : e = Event(a, Root, NoParent) OBVIOUS
<1>7. e \in EventRow /\ e.table = "events" /\ e.act = a /\ e.n = Root /\ e.parent = NoParent
  BY <1>6 DEF Event, EventRow, Root, NoParent
<1>8. queue' = Append(queue, e) /\ UNCHANGED <<ordinal, events, calls, lost>> BY <1>6 DEF CloseSpan
<1>9. ActOk(a, Sent \cup {e}, m, o, stack[a], "ended", d) BY <1>5, <1>7, ActLast
<1>10. LogOk(queue, events, calls, made') BY <1>1, SameLog
<1>11. Sends(a, queue', made', {e}) BY <1>7, <1>8, <1>10, SendOne
<1>12. SpanTypes' BY <1>8, <1>11 DEF SpanTypes, Sends
<1>13. SpanIInv'
  <2>1. PICK N : N = {e} OBVIOUS
  <2>2. \A r \in N : r.act = a BY <1>7, <2>1
  <2>3. ActOk(a, Sent \cup N, made'[a], opened'[a], stack'[a], pc'[a], ordinal'[a])
    BY <1>2, <1>3, <1>4, <1>8, <1>9, <2>1
  <2>4. /\ LogOk(queue', events, calls, made')
        /\ Before(queue', events, calls) = Before(queue, events, calls) \cup N
        /\ \A j \in DOMAIN queue' : queue'[j].act = a \/ \E i \in DOMAIN queue : queue'[j] = queue[i]
    BY <1>11, <2>1 DEF Sends
  <2> QED BY <1>1, <1>8, <2>2, <2>3, <2>4, StepOk
<1> QED BY <1>12, <1>13

-----------------------------------------------------------------------------
(* The invariant, step by step *)

\* A step keeps what the studio's invariant says.
Spanned == SpanTypes' /\ SpanIInv'

\* Acts that are not recorded have no rows.
LEMMA Unrecorded ==
  ASSUME SpanTypes, SpanIInv, NEW a \in Acts \ Recorded, Alone(a), UNCHANGED spanVars
  PROVE  Spanned
<1>1. UNCHANGED <<ordinal, queue, events, calls, lost>> BY DEF spanVars
<1>2. SpanTypes' BY <1>1 DEF SpanTypes
<1>3. LogOk(queue', events, calls, made') BY <1>1, SameLog
<1>4. PICK N : N = {} OBVIOUS
<1>5. /\ \A r \in N : r.act = a
      /\ Before(queue', events, calls) = Before(queue, events, calls) \cup N
      /\ \A j \in DOMAIN queue' : queue'[j].act = a \/ \E i \in DOMAIN queue : queue'[j] = queue[i]
  BY <1>1, <1>4
<1>6. SpanIInv' BY <1>1, <1>3, <1>5, StepOk
<1> QED BY <1>2, <1>6 DEF Spanned

\* Steps between the runs of an act, which may start replays.
LEMMA AwaySpans ==
  ASSUME RuntimeTypes, WorkIInv, SpanTypes, SpanIInv, NEW a \in Acts, UNCHANGED <<spanVars, stack, opened, made>>,
         NEW w \in {"enter", "close", "finish", "gone"},
         \/ pc' = [pc EXCEPT ![a] = w]
         \/ \E S \in SUBSET {s \in Shadows : pc[s] = "idle"} :
              pc' = [x \in Acts |-> IF x = a THEN w ELSE IF x \in S THEN "enter" ELSE pc[x]],
         pc[a] \notin {"ended", "dead"}, w = "gone" \/ pc[a] \notin {"run", "gone"} \/ stack[a] = <<>>
  PROVE  Spanned
<1>1. pc'[a] = w BY DEF RuntimeTypes
<1>2. \A b \in Acts \ {a} : pc'[b] = pc[b] \/ (pc[b] = "idle" /\ pc'[b] = "enter") BY DEF RuntimeTypes
<1>3. Alone(a) BY <1>1, <1>2 DEF Alone, spanVars
<1>4. stack[a] \in Seq(Level) /\ Nested(stack[a]) BY Acting
<1>5. SameCalls(stack[a], stack'[a]) BY DEF SameCalls
<1>6. a \in Recorded => (pc'[a] \notin {"run", "gone"} => stack'[a] = <<>>)
  BY <1>1, Acting DEF ActOk
<1>7. stack'[a] \in Seq(Level) /\ Nested(stack'[a]) /\ pc'[a] \notin {"idle", "ended", "dead"} BY <1>1, <1>4
<1> QED BY <1>3, <1>5, <1>6, <1>7, MoveStep DEF Spanned

\* Steps that change the stack of an act, but not the calls under way.
LEMMA StackSpans ==
  ASSUME RuntimeTypes, WorkIInv, SpanTypes, SpanIInv, RuntimeTypes', WorkIInv', NEW a \in Acts,
         UNCHANGED <<spanVars, opened, made>>, NEW t, stack' = [stack EXCEPT ![a] = t],
         NEW w \in {"run", "gone", "finish", "close"}, pc' = [pc EXCEPT ![a] = w],
         SameCalls(stack[a], t), pc[a] \notin {"ended", "dead"}, w \notin {"run", "gone"} => t = <<>>
  PROVE  Spanned
<1>1. pc'[a] = w /\ stack'[a] = t BY DEF RuntimeTypes
<1>2. Alone(a) BY <1>1 DEF Alone, spanVars, RuntimeTypes
<1>3. stack'[a] \in Seq(Level) BY DEF RuntimeTypes
<1>4. Nested(stack'[a]) BY DEF WorkIInv, Fit
<1> QED BY <1>1, <1>2, <1>3, <1>4, MoveStep DEF Spanned

LEMMA BeginSpans ==
  ASSUME RuntimeTypes, WorkIInv, SpanTypes, SpanIInv, NEW a \in Acts, Begin(a) PROVE Spanned
<1>1. UNCHANGED <<spanVars, stack, opened, made>> /\ pc[a] = "idle" BY DEF Begin
<1>2. \/ pc' = [pc EXCEPT ![a] = "enter"]
      \/ \E S \in SUBSET {s \in Shadows : pc[s] = "idle"} :
           pc' = [x \in Acts |-> IF x = a THEN "enter" ELSE IF x \in S THEN "enter" ELSE pc[x]]
  BY DEF Begin, Launch, Goto
<1> QED BY <1>1, <1>2, AwaySpans

LEMMA DisconnectSpans ==
  ASSUME RuntimeTypes, WorkIInv, SpanTypes, SpanIInv, NEW a \in Acts, Disconnect(a) PROVE Spanned
<1>1. UNCHANGED <<spanVars, stack, opened, made>> /\ pc[a] \in {"enter", "run", "finish"} BY DEF Disconnect
<1>2. PICK w : w = IF pc[a] = "run" THEN "gone" ELSE "close" OBVIOUS
<1>3. \/ pc' = [pc EXCEPT ![a] = w]
      \/ \E S \in SUBSET {s \in Shadows : pc[s] = "idle"} :
           pc' = [x \in Acts |-> IF x = a THEN w ELSE IF x \in S THEN "enter" ELSE pc[x]]
  BY <1>1, <1>2 DEF Disconnect, Launch, Goto
<1>4. w \in {"enter", "close", "finish", "gone"} /\ (w = "gone" \/ pc[a] \notin {"run", "gone"}) BY <1>1, <1>2
<1> QED BY <1>1, <1>3, <1>4, AwaySpans

LEMMA AwayWork ==
  ASSUME RuntimeTypes, WorkIInv, SpanTypes, SpanIInv, NEW a \in Acts,
         EnterFails(a) \/ Repair(a) \/ Unwound(a)
  PROVE  Spanned
<1>1. UNCHANGED <<spanVars, stack, opened, made>> BY DEF EnterFails, Repair, Unwound
<1>2. PICK w \in {"enter", "close", "finish", "gone"} : pc' = [pc EXCEPT ![a] = w]
  BY DEF EnterFails, Repair, Unwound, Goto
<1>3. pc[a] \in {"enter", "finish"} \/ (pc[a] = "gone" /\ stack[a] = <<>>) BY DEF EnterFails, Repair, Unwound
<1>4. pc[a] \notin {"ended", "dead"} /\ (w = "gone" \/ pc[a] \notin {"run", "gone"} \/ stack[a] = <<>>)
  BY <1>3
<1> QED BY <1>1, <1>2, <1>4, AwaySpans

LEMMA EnterSpans ==
  ASSUME RuntimeTypes, WorkIInv, SpanTypes, SpanIInv, RuntimeTypes', WorkIInv', NEW a \in Acts, Enter(a)
  PROVE  Spanned
<1>1. UNCHANGED <<spanVars, opened, made>> /\ pc[a] = "enter" /\ pc' = [pc EXCEPT ![a] = "run"]
  BY DEF Enter, Goto
<1>2. PICK f : f = Frame(Start[a]) OBVIOUS
<1>7. f.call = NoCall BY <1>2 DEF Frame
<1>3. PICK t : t = <<f>> OBVIOUS
<1>4. stack' = [stack EXCEPT ![a] = t] BY <1>2, <1>3 DEF Enter
<1>5. CASE a \in Recorded
  <2>1. stack[a] = <<>> BY <1>1, <1>5, Acting DEF ActOk
  <2>2. SameCalls(stack[a], t) BY <1>3, <1>7, <2>1 DEF SameCalls
  <2> QED BY <1>1, <1>4, <2>2, StackSpans
<1>6. CASE a \notin Recorded
  <2>1. Alone(a) BY <1>1, <1>4 DEF Alone, spanVars, RuntimeTypes
  <2> QED BY <1>1, <1>6, <2>1, Unrecorded
<1> QED BY <1>5, <1>6

LEMMA AskSpans ==
  ASSUME RuntimeTypes, WorkIInv, SpanTypes, SpanIInv, RuntimeTypes', WorkIInv', NEW a \in Acts, Ask(a)
  PROVE  Spanned
<1>1. UNCHANGED <<spanVars, opened, made, pc>> /\ Running(a) /\ Top(a).call = NoCall BY DEF Ask, Thinking
<1>2. PICK s \in Seq(Level) : s = stack[a] /\ s # <<>> BY <1>1, Doing
<1>3. PICK f \in Level : f = Top(a) /\ f = s[Len(s)] /\ f.call = NoCall BY <1>1, <1>2, Doing
<1>4. PICK g : stack' = [stack EXCEPT ![a] = Append(SubSeq(s, 1, Len(s) - 1), g)] /\ g \in Level /\ g.call = NoCall
  <2>1. PICK b \in 1..MaxBatch : SetTop(a, [Top(a) EXCEPT !.left = @ - 1, !.todo = b]) BY DEF Ask
  <2>2. PICK g : g = [f EXCEPT !.left = @ - 1, !.todo = b] OBVIOUS
  <2>3. g \in Level /\ g.call = NoCall
    <3>1. f.left \in 1..MaxRounds /\ b \in Nat
      <4>1. f.left \in 0..MaxRounds BY <1>3 DEF Level
      <4>2. f.left > 0 BY <1>3 DEF Ask
      <4> QED BY <4>1, <4>2, RuntimeAssumption
    <3>2. f.left - 1 \in 0..MaxRounds BY <3>1, RuntimeAssumption
    <3> QED BY <1>3, <2>2, <3>1, <3>2 DEF Level
  <2>4. stack' = [stack EXCEPT ![a] = Append(SubSeq(s, 1, Len(s) - 1), g)]
    BY <1>2, <1>3, <2>1, <2>2 DEF SetTop, Below
  <2> QED BY <2>3, <2>4
<1>5. PICK t : t = Append(SubSeq(s, 1, Len(s) - 1), g) OBVIOUS
<1>6. t \in Seq(Level) /\ Len(t) = Len(s) /\ t[Len(s)] = g /\ \A i \in 1..Len(s) - 1 : t[i] = s[i]
  BY <1>2, <1>4, <1>5, SetShape
<1>7. SameCalls(s, t)
  <2>1. PICK k \in Nat : k = Len(s) /\ DOMAIN s = 1..k /\ DOMAIN t = 1..k BY <1>6
  <2>2. \A i \in 1..k : i = k \/ i \in 1..k - 1 BY <2>1
  <2>3. \A i \in 1..k : t[i].call = s[i].call BY <1>3, <1>4, <1>6, <2>1, <2>2
  <2> QED BY <2>1, <2>3 DEF SameCalls
<1>8. pc[a] = "run" /\ pc' = [pc EXCEPT ![a] = "run"] BY <1>1, Doing
<1>9. stack' = [stack EXCEPT ![a] = t] /\ SameCalls(stack[a], t) BY <1>2, <1>4, <1>5, <1>7
<1> QED BY <1>1, <1>8, <1>9, StackSpans

LEMMA EnterSubSpans ==
  ASSUME RuntimeTypes, WorkIInv, SpanTypes, SpanIInv, RuntimeTypes', WorkIInv', NEW a \in Acts, EnterSub(a)
  PROVE  Spanned
<1>1. UNCHANGED <<spanVars, opened, made, pc>> /\ Running(a) BY DEF EnterSub, Waiting
<1>2. PICK s \in Seq(Level) : s = stack[a] /\ s # <<>> BY <1>1, Doing
<1>3. PICK f : f = Frame(Top(a).call.agent) OBVIOUS
<1>9. f.call = NoCall BY <1>3 DEF Frame
<1>4. PICK t : t = Append(s, f) OBVIOUS
<1>5. stack' = [stack EXCEPT ![a] = t] BY <1>2, <1>3, <1>4 DEF EnterSub
<1>6. SameCalls(s, t)
  <2>1. PICK k \in Nat : k = Len(s) /\ DOMAIN s = 1..k OBVIOUS
  <2>2. DOMAIN t = 1..(k + 1) /\ t[k + 1] = f /\ \A i \in 1..k : t[i] = s[i] BY <1>4, <2>1
  <2>3. \A i \in 1..(k + 1) : i = k + 1 \/ i \in 1..k BY <2>1
  <2>4. \A i \in 1..k : i \in 1..(k + 1) BY <2>1
  <2> QED BY <1>9, <2>1, <2>2, <2>3, <2>4 DEF SameCalls
<1>7. pc[a] = "run" /\ pc' = [pc EXCEPT ![a] = "run"] BY <1>1, Doing
<1>8. SameCalls(stack[a], t) BY <1>2, <1>6
<1> QED BY <1>1, <1>5, <1>7, <1>8, StackSpans

\* A tool is called: CallTool and CallSub.
LEMMA OpenSpans ==
  ASSUME RuntimeTypes, WorkIInv, SpanTypes, SpanIInv, RuntimeTypes', NEW a \in Acts, Choosing(a),
         NEW tool \in Tools \cup Names, NEW agent \in Agents \cup {NoAgent}, Open(a, tool, agent),
         UNCHANGED <<spanVars, pc>>
  PROVE  Spanned
<1>1. Running(a) /\ Top(a).call = NoCall BY DEF Choosing
<1>2. PICK s \in Seq(Level) : s = stack[a] /\ s # <<>> BY <1>1, Doing
<1>3. PICK f \in Level : f = Top(a) /\ f = s[Len(s)] /\ f.call = NoCall BY <1>1, <1>2, Doing
<1>4. PICK o \in Nat : o = opened[a] BY ActTypes
<1>5. PICK c : c = [n |-> o + 1, tool |-> tool, agent |-> agent] OBVIOUS
<1>6. c \in Call /\ c.n = o + 1 BY <1>5 DEF Call
<1>7. c # NoCall
  <2>1. o + 1 # 0 OBVIOUS
  <2>2. NoCall.n = 0 BY DEF NoCall
  <2> QED BY <1>6, <2>1, <2>2
<1>8. PICK g : g = [f EXCEPT !.call = c] OBVIOUS
<1>9. g \in Level /\ g.call = c BY <1>6, <1>8 DEF Level
<1>10. PICK t : t = Append(SubSeq(s, 1, Len(s) - 1), g) OBVIOUS
<1>11. stack' = [stack EXCEPT ![a] = t] BY <1>2, <1>3, <1>4, <1>5, <1>8, <1>10 DEF Open, SetTop, Below
<1>12. t \in Seq(Level) /\ Len(t) = Len(s) /\ t[Len(s)] = g /\ \A i \in 1..Len(s) - 1 : t[i] = s[i]
  BY <1>2, <1>9, <1>10, SetShape
<1>13. stack'[a] = t BY <1>11 DEF RuntimeTypes
<1>14. opened'[a] = opened[a] + 1 BY DEF Open, RuntimeTypes
<1>15. Around(a) = Over(stack[a], Len(stack[a])) BY DEF Around, Over
<1>16. made'[a] = Append(made[a], Span(Over(stack[a], Len(stack[a])))) BY <1>15 DEF Open, RuntimeTypes
<1>17. pc[a] = "run" /\ pc'[a] = "run" BY <1>1 DEF Running
<1>18. Alone(a) BY <1>11, <1>17 DEF Alone, spanVars, Open, RuntimeTypes
<1>19. stack[a] # <<>> /\ stack[a][Len(stack[a])].call = NoCall BY <1>2, <1>3
<1>20. /\ stack'[a] \in Seq(Level) /\ Len(stack'[a]) = Len(stack[a])
       /\ \A i \in 1..Len(stack[a]) - 1 : stack'[a][i] = stack[a][i]
       /\ stack'[a][Len(stack[a])].call.n = opened[a] + 1 /\ stack'[a][Len(stack[a])].call # NoCall
  BY <1>2, <1>4, <1>6, <1>7, <1>9, <1>12, <1>13
<1> QED BY <1>14, <1>16, <1>17, <1>18, <1>19, <1>20, OpenRow DEF Spanned

\* What is told of a call is what became of it.
Tells(told, how, tool) ==
  /\ told = "result" => how = "ok"
  /\ told = "error" => how = "failed"
  /\ (how = "failed" /\ tool \notin Quiet) => told = "error"
  /\ told = "nothing" => how \in {"cut", "refused"} \/ (how = "failed" /\ tool \in Quiet)

LEMMA OtherOrdinals ==
  ASSUME SpanTypes, NEW a \in Acts, NEW call, NEW parent, NEW told, CloseTool(a, call, parent, told)
  PROVE  \A b \in Acts \ {a} : ordinal'[b] = ordinal[b]
<1>1. ordinal' = [ordinal EXCEPT ![a] = @ + 1] \/ ordinal' = ordinal BY DEF CloseTool, spanVars
<1> QED BY <1>1 DEF SpanTypes

\* The call of frame k ends: the stack is cut there.
LEMMA EndSpans ==
  ASSUME RuntimeTypes, WorkIInv, SpanTypes, SpanIInv, RuntimeTypes', WorkIInv', NEW a \in Acts,
         NEW s \in Seq(Level), s = stack[a], NEW k \in 1..Len(s), s[k].call # NoCall,
         \A i \in DOMAIN s : i > k => s[i].call = NoCall,
         NEW r \in Seq(Level), Len(r) = k, \A i \in 1..k : r[i] = s[i],
         NEW told \in {"result", "error", "nothing"}, NEW how \in Fates, Tells(told, how, s[k].call.tool),
         EndCall(a, r, told, how), pc[a] = "run", UNCHANGED <<pc, opened>>
  PROVE  Spanned
<1>1. PICK l \in Nat : l = Len(s) /\ DOMAIN s = 1..l OBVIOUS
<1>2. k \in DOMAIN s /\ k \in Nat /\ k \in 1..k /\ r # <<>> /\ DOMAIN r = 1..k BY <1>1
<1>3. PICK t : t = Ended(r) OBVIOUS
<1>4. stack' = [stack EXCEPT ![a] = t] BY <1>3 DEF EndCall, Ended
<1>5. r[k].todo > 0
  <2>1. Nested(s) BY Acting
  <2> QED BY <1>2, <2>1 DEF Nested
<1>6. /\ t \in Seq(Level) /\ Len(t) = Len(r) /\ t[Len(r)].call = NoCall
      /\ \A i \in 1..Len(r) - 1 : t[i] = r[i]
  BY <1>2, <1>3, <1>5, EndShape
<1>7. Shorter(s, t, k)
  <2>1. DOMAIN t = 1..k BY <1>6
  <2>2. \A i \in 1..k : i = k \/ (i \in 1..k - 1 /\ i < k) BY <1>2
  <2>3. \A i \in DOMAIN s : i < k => (i \in 1..k /\ i \in 1..k - 1) BY <1>1, <1>2
  <2>4. \A i \in 1..k : i \in DOMAIN s BY <1>1
  <2>5. t[k].call = NoCall /\ \A i \in 1..k - 1 : t[i] = s[i] BY <1>6, <2>2
  <2> QED BY <2>1, <2>2, <2>3, <2>4, <2>5 DEF Shorter
<1>8. stack'[a] = t BY <1>4 DEF RuntimeTypes
<1>9. stack'[a] \in Seq(Level) /\ Nested(stack'[a]) /\ Shorter(stack[a], stack'[a], k)
  <2>1. Nested(stack'[a]) BY DEF WorkIInv, Fit
  <2> QED BY <1>6, <1>7, <1>8, <2>1
<1>10. CloseTool(a, stack[a][k].call, Over(stack[a], k), told)
  <2>1. r[k].call = s[k].call BY <1>2
  <2>2. (IF k = 1 THEN Root ELSE r[k - 1].call.n) = Over(s, k)
    <3>1. CASE k = 1 BY <3>1 DEF Over
    <3>2. CASE k # 1
      <4>1. k - 1 \in 1..k BY <1>2, <3>2
      <4> QED BY <3>2, <4>1 DEF Over
    <3> QED BY <3>1, <3>2
  <2> QED BY <2>1, <2>2 DEF EndCall
<1>11. made' = [made EXCEPT ![a][stack[a][k].call.n].fate = how] BY <1>2 DEF EndCall
<1>12. Truthful(ToolCall(a, stack[a][k].call, told), how) BY DEF Tells, Truthful, ToolCall
<1>13. \A b \in Acts \ {a} : ordinal'[b] = ordinal[b] BY <1>10, OtherOrdinals
<1>14. \A b \in Acts \ {a} : made'[b] = made[b] BY <1>11 DEF RuntimeTypes
<1>15. Alone(a) BY <1>4, <1>13, <1>14 DEF Alone, RuntimeTypes
<1>16. k \in DOMAIN stack[a] /\ stack[a][k].call # NoCall BY <1>2
<1>17. \A i \in DOMAIN stack[a] : i > k => stack[a][i].call = NoCall OBVIOUS
<1>18. pc[a] \in {"run", "gone"} /\ pc'[a] = pc[a] /\ opened'[a] = opened[a] OBVIOUS
<1> QED BY <1>9, <1>10, <1>11, <1>12, <1>15, <1>16, <1>17, <1>18, CloseRow DEF Spanned

\* A tool or an agent that was called returns: the top of the stack goes on.
LEMMA ReturnSpans ==
  ASSUME RuntimeTypes, WorkIInv, SpanTypes, SpanIInv, RuntimeTypes', WorkIInv', NEW a \in Acts, Waiting(a),
         NEW told \in {"result", "error", "nothing"}, NEW how \in Fates, Tells(told, how, Top(a).call.tool),
         EndCall(a, stack[a], told, how), UNCHANGED <<pc, opened>>
  PROVE  Spanned
<1>1. Running(a) /\ Top(a).call # NoCall BY DEF Waiting
<1>2. PICK s \in Seq(Level) : s = stack[a] /\ s # <<>> BY <1>1, Doing
<1>3. PICK k \in Nat : k = Len(s) /\ k # 0 /\ DOMAIN s = 1..k BY <1>2
<1>4. k \in 1..Len(s) /\ Top(a) = s[k] BY <1>2, <1>3 DEF Top
<1>5. \A i \in DOMAIN s : i > k => s[i].call = NoCall BY <1>3
<1>6. Len(s) = k /\ \A i \in 1..k : s[i] = s[i] BY <1>3
<1>7. EndCall(a, s, told, how) /\ Tells(told, how, s[k].call.tool) /\ s[k].call # NoCall /\ pc[a] = "run"
  BY <1>1, <1>2, <1>4 DEF Running
<1> QED BY <1>2, <1>4, <1>5, <1>6, <1>7, EndSpans

\* The agent on top has ended: its caller's call has, or the act goes on.
LEMMA LeaveSpans ==
  ASSUME RuntimeTypes, WorkIInv, SpanTypes, SpanIInv, RuntimeTypes', WorkIInv', NEW a \in Acts, Thinking(a),
         NEW told \in {"result", "error", "nothing"}, NEW how \in Fates, \A tool : Tells(told, how, tool),
         NEW where \in {"finish", "close"}, Leave(a, told, how, where), UNCHANGED opened
  PROVE  Spanned
<1>1. Running(a) /\ Top(a).call = NoCall BY DEF Thinking
<1>2. PICK s \in Seq(Level) : s = stack[a] /\ s # <<>> BY <1>1, Doing
<1>3. PICK l \in Nat : l = Len(s) /\ l # 0 /\ DOMAIN s = 1..l BY <1>2
<1>4. s[l].call = NoCall BY <1>1, <1>2, <1>3 DEF Top
<1>5. pc[a] = "run" BY <1>1 DEF Running
<1>6. CASE l = 1
  <2>1. PICK t : t = <<>> OBVIOUS
  <2>2. /\ stack' = [stack EXCEPT ![a] = t] /\ pc' = [pc EXCEPT ![a] = where]
        /\ UNCHANGED <<spanVars, made>>
    BY <1>2, <1>3, <1>6, <2>1 DEF Leave, Goto
  <2>3. SameCalls(s, t) BY <1>3, <1>4, <1>6, <2>1 DEF SameCalls
  <2> QED BY <1>2, <1>5, <2>1, <2>2, <2>3, StackSpans
<1>7. CASE l # 1
  <2>1. EndCall(a, Below(a), told, how) /\ UNCHANGED pc BY <1>2, <1>3, <1>7 DEF Leave
  <2>2. PICK r : r = SubSeq(s, 1, Len(s) - 1) OBVIOUS
  <2>3. r \in Seq(Level) /\ Len(r) = Len(s) - 1 /\ \A i \in 1..Len(s) - 1 : r[i] = s[i] BY <1>2, <2>2, PopShape
  <2>4. PICK k \in 1..Len(s) : k = l - 1 /\ k < Len(s) BY <1>3, <1>7
  <2>5. s[k].call # NoCall
    <3>1. Nested(s) BY <1>2, Acting
    <3> QED BY <1>3, <2>4, <3>1 DEF Nested
  <2>6. \A i \in DOMAIN s : i > k => s[i].call = NoCall
    <3>1. \A i \in 1..l : i > k => i = l BY <1>3, <2>4
    <3> QED BY <1>3, <1>4, <3>1
  <2>7. Len(r) = k /\ \A i \in 1..k : r[i] = s[i] BY <1>3, <2>3, <2>4
  <2>8. EndCall(a, r, told, how) /\ Tells(told, how, s[k].call.tool) BY <1>2, <2>1, <2>2 DEF Below
  <2> QED BY <1>2, <1>5, <2>1, <2>3, <2>4, <2>5, <2>6, <2>7, <2>8, EndSpans
<1> QED BY <1>6, <1>7

\* The future is dropped from the inside out.
LEMMA UnwindSpans ==
  ASSUME RuntimeTypes, WorkIInv, SpanTypes, SpanIInv, RuntimeTypes', WorkIInv', NEW a \in Acts, Unwind(a)
  PROVE  Spanned
<1>1. pc[a] = "gone" /\ stack[a] # <<>> /\ UNCHANGED <<pc, opened>> BY DEF Unwind
<1>2. PICK s \in Seq(Level) : s = stack[a] /\ s # <<>> BY <1>1, Acting
<1>3. PICK k \in Nat : k = Len(s) /\ k # 0 /\ DOMAIN s = 1..k BY <1>2
<1>4. Top(a) = s[k] /\ Around(a) = Over(s, k) BY <1>2, <1>3 DEF Top, Around, Over
<1>5. PICK t : t = SubSeq(s, 1, Len(s) - 1) OBVIOUS
<1>6. t \in Seq(Level) /\ Len(t) = k - 1 /\ \A i \in 1..k - 1 : t[i] = s[i] BY <1>2, <1>3, <1>5, PopShape
<1>7. DOMAIN t = 1..k - 1 /\ (\A i \in 1..k - 1 : i \in 1..k /\ i < k) /\ \A i \in 1..k : i = k \/ i \in 1..k - 1
  BY <1>3, <1>6
<1>8. stack' = [stack EXCEPT ![a] = t] BY <1>2, <1>5 DEF Unwind, Below
<1>9. CASE s[k].call = NoCall
  <2>1. UNCHANGED <<spanVars, made, opened>> BY <1>1, <1>4, <1>9 DEF Unwind
  <2>2. pc' = [pc EXCEPT ![a] = "gone"] BY <1>1 DEF RuntimeTypes
  <2>3. SameCalls(s, t) BY <1>3, <1>6, <1>7, <1>9 DEF SameCalls
  <2> QED BY <1>1, <1>2, <1>8, <2>1, <2>2, <2>3, StackSpans
<1>10. CASE s[k].call # NoCall
  <2>1. CloseTool(a, stack[a][k].call, Over(stack[a], k), "nothing") BY <1>2, <1>4, <1>10 DEF Unwind
  <2>2. made' = [made EXCEPT ![a][stack[a][k].call.n].fate = "cut"] BY <1>2, <1>4, <1>10 DEF Unwind
  <2>3. \A i \in DOMAIN s : i < k => i \in 1..k - 1 BY <1>3, <1>7
  <2>4. Shorter(s, t, k) BY <1>3, <1>6, <1>7, <2>3 DEF Shorter
  <2>5. stack'[a] = t BY <1>8 DEF RuntimeTypes
  <2>6. Nested(stack'[a]) BY DEF WorkIInv, Fit
  <2>7. stack'[a] \in Seq(Level) /\ Shorter(stack[a], stack'[a], k) BY <1>2, <1>6, <2>4, <2>5
  <2>8. Truthful(ToolCall(a, stack[a][k].call, "nothing"), "cut") BY DEF Truthful, ToolCall
  <2>9. \A b \in Acts \ {a} : ordinal'[b] = ordinal[b] BY <2>1, OtherOrdinals
  <2>10. \A b \in Acts \ {a} : made'[b] = made[b] BY <2>2 DEF RuntimeTypes
  <2>11. Alone(a) BY <1>1, <1>8, <2>9, <2>10 DEF Alone, RuntimeTypes
  <2>12. k \in DOMAIN stack[a] /\ stack[a][k].call # NoCall BY <1>2, <1>3, <1>10
  <2>13. \A i \in DOMAIN stack[a] : i > k => stack[a][i].call = NoCall BY <1>2, <1>3
  <2>14. pc[a] \in {"run", "gone"} /\ pc'[a] = pc[a] /\ opened'[a] = opened[a] BY <1>1
  <2>15. "nothing" \in {"result", "error", "nothing"} /\ "cut" \in Fates BY DEF Fates
  <2> QED BY <2>1, <2>2, <2>6, <2>7, <2>8, <2>11, <2>12, <2>13, <2>14, <2>15, CloseRow DEF Spanned
<1> QED BY <1>9, <1>10

LEMMA FinishSpans ==
  ASSUME RuntimeTypes, WorkIInv, SpanTypes, SpanIInv, NEW a \in Acts, Finish(a) PROVE Spanned
<1>1. pc[a] = "finish" /\ UNCHANGED stack BY DEF Finish
<1>2. \/ pc' = [pc EXCEPT ![a] = "close"]
      \/ \E S \in SUBSET {s \in Shadows : pc[s] = "idle"} :
           pc' = [x \in Acts |-> IF x = a THEN "close" ELSE IF x \in S THEN "enter" ELSE pc[x]]
  BY DEF Finish, Launch, Goto
<1>3. CASE UNCHANGED <<spanVars, opened, made>>
  BY <1>1, <1>2, <1>3, AwaySpans
<1>4. CASE a \in Chats /\ live[Start[a]] # NoAgent
  <2>1. a \in Recorded BY <1>4, RuntimeAssumption
  <2>2. /\ opened' = [opened EXCEPT ![a] = @ + 1] /\ made' = [made EXCEPT ![a] = Append(@, Span(Root))]
        /\ CloseSpan(a, opened[a] + 1, Root)
    BY <1>4 DEF Finish
  <2>3. pc'[a] = "close" BY <1>2 DEF RuntimeTypes
  <2>4. \A b \in Acts \ {a} : pc'[b] = pc[b] \/ (pc[b] = "idle" /\ pc'[b] = "enter") BY <1>2 DEF RuntimeTypes
  <2>5. \A b \in Acts \ {a} : ordinal'[b] = ordinal[b] BY <2>2 DEF CloseSpan
  <2>6. \A b \in Acts \ {a} : opened'[b] = opened[b] /\ made'[b] = made[b] BY <2>2 DEF RuntimeTypes
  <2>7. Alone(a) BY <1>1, <2>3, <2>4, <2>5, <2>6 DEF Alone
  <2>8. opened'[a] = opened[a] + 1 BY <2>2 DEF RuntimeTypes
  <2> QED BY <1>1, <2>1, <2>2, <2>3, <2>7, <2>8, ReplyRow DEF Spanned
<1> QED BY <1>3, <1>4 DEF Finish

LEMMA CloseSpans ==
  ASSUME RuntimeTypes, WorkIInv, SpanTypes, SpanIInv, NEW a \in Acts, Close(a) PROVE Spanned
<1>1. /\ pc[a] = "close" /\ pc' = [pc EXCEPT ![a] = "ended"] /\ UNCHANGED <<stack, opened, made>>
      /\ CloseSpan(a, Root, NoParent)
  BY DEF Close, Goto
<1>2. pc'[a] = "ended" BY <1>1 DEF RuntimeTypes
<1>3. Alone(a) BY <1>1, <1>2 DEF Alone, CloseSpan, RuntimeTypes
<1>4. CASE a \in Recorded BY <1>1, <1>2, <1>3, <1>4, RootRow DEF Spanned
<1>5. CASE a \notin Recorded
  <2>1. UNCHANGED spanVars BY <1>1, <1>5 DEF CloseSpan, spanVars
  <2> QED BY <1>3, <1>5, <2>1, Unrecorded
<1> QED BY <1>4, <1>5

LEMMA WorkSpans ==
  ASSUME RuntimeTypes, WorkIInv, SpanTypes, SpanIInv, RuntimeTypes', WorkIInv', NEW a \in Acts, Work(a)
  PROVE  Spanned
<1>0. /\ "ok" \in Fates /\ "failed" \in Fates /\ "refused" \in Fates
      /\ \A tool : Tells("result", "ok", tool) /\ Tells("error", "failed", tool) /\ Tells("nothing", "refused", tool)
      /\ \A tool \in Quiet : Tells("nothing", "failed", tool)
  BY DEF Fates, Tells
<1>1. CASE Answer(a)
  <2>1. Thinking(a) /\ Leave(a, "result", "ok", "finish") /\ UNCHANGED opened BY <1>1 DEF Answer
  <2> QED BY <1>0, <2>1, LeaveSpans
<1>2. CASE ModelFails(a)
  <2>1. PICK where \in {"finish", "close"} : Leave(a, "error", "failed", where) BY <1>2 DEF ModelFails
  <2>2. Thinking(a) /\ UNCHANGED opened BY <1>2 DEF ModelFails
  <2> QED BY <1>0, <2>1, <2>2, LeaveSpans
<1>3. ASSUME NEW t \in Tools, CallTool(a, t) PROVE Spanned
  BY <1>3, OpenSpans DEF CallTool
<1>4. ASSUME NEW s \in Names, NEW g \in Variants[s], CallSub(a, s, g) PROVE Spanned
  <2>1. g \in Agents BY RuntimeAssumption
  <2> QED BY <1>4, <2>1, OpenSpans DEF CallSub
<1>5. CASE ToolReturns(a)
  <2>1. Waiting(a) /\ EndCall(a, stack[a], "result", "ok") /\ UNCHANGED <<pc, opened>> BY <1>5 DEF ToolReturns
  <2> QED BY <1>0, <2>1, ReturnSpans
<1>6. CASE ToolFails(a)
  <2>1. PICK told \in {"error", "nothing"} :
          /\ told = IF Top(a).call.tool \in Quiet THEN "nothing" ELSE "error"
          /\ EndCall(a, stack[a], told, "failed")
    BY <1>6 DEF ToolFails
  <2>2. Waiting(a) /\ UNCHANGED <<pc, opened>> BY <1>6 DEF ToolFails
  <2>3. Tells(told, "failed", Top(a).call.tool) BY <1>0, <2>1
  <2> QED BY <1>0, <2>1, <2>2, <2>3, ReturnSpans
<1>7. CASE BadArguments(a)
  <2>1. Waiting(a) /\ EndCall(a, stack[a], "nothing", "refused") /\ UNCHANGED <<pc, opened>>
    BY <1>7 DEF BadArguments
  <2> QED BY <1>0, <2>1, ReturnSpans
<1>8. CASE EnterSubFails(a)
  <2>1. Waiting(a) /\ EndCall(a, stack[a], "error", "failed") /\ UNCHANGED <<pc, opened>>
    BY <1>8 DEF EnterSubFails
  <2> QED BY <1>0, <2>1, ReturnSpans
<1> QED BY <1>1, <1>2, <1>3, <1>4, <1>5, <1>6, <1>7, <1>8, AwayWork, EnterSpans, AskSpans, EnterSubSpans,
           UnwindSpans, FinishSpans, CloseSpans DEF Work

\* The rows and the spans stay what they are, but for where the rows are.
LEMMA Placed ==
  ASSUME SpanIInv, Sent' = Sent, UNCHANGED <<made, opened, stack, pc, ordinal>>,
         LogOk(queue', events', calls', made), \A j \in DOMAIN queue' : \E i \in DOMAIN queue : queue'[j] = queue[i],
         \A a \in Recorded : WholeOk(a)' /\ GapOk(a)'
  PROVE  SpanIInv'
<1>1. ASSUME NEW a \in Recorded PROVE ActOk(a, Sent', made'[a], opened'[a], stack'[a], pc'[a], ordinal'[a])
  BY DEF SpanIInv
<1>2. \A j \in DOMAIN queue' : pc'[queue'[j].act] # "dead" BY DEF SpanIInv
<1>3. LogOk(queue', events', calls', made') OBVIOUS
<1> QED BY <1>1, <1>2, <1>3 DEF SpanIInv

\* Where the oldest row goes, all rows stay.
LEMMA TailSent ==
  ASSUME NEW q \in Seq(Row), q # <<>>
  PROVE  /\ {q[i] : i \in DOMAIN q} = {Tail(q)[i] : i \in DOMAIN Tail(q)} \cup {Head(q)}
         /\ \A j \in DOMAIN Tail(q) : \E i \in DOMAIN q : Tail(q)[j] = q[i]
<1>1. PICK t : t = Tail(q) OBVIOUS
<1>2. PICK h : h = Head(q) OBVIOUS
<1>3. /\ h = q[1] /\ 1 \in DOMAIN q
      /\ \A j \in DOMAIN t : j + 1 \in DOMAIN q /\ t[j] = q[j + 1]
      /\ \A j \in DOMAIN q : j = 1 \/ (j - 1 \in DOMAIN t /\ t[j - 1] = q[j])
  BY <1>1, <1>2, TailFacts
<1>4. \A j \in DOMAIN t : \E i \in DOMAIN q : t[j] = q[i] BY <1>3
<1>5. \A i \in DOMAIN q : q[i] = h \/ \E j \in DOMAIN t : q[i] = t[j] BY <1>3
<1>6. {q[i] : i \in DOMAIN q} = {t[i] : i \in DOMAIN t} \cup {h} BY <1>3, <1>4, <1>5
<1> QED BY <1>1, <1>2, <1>4, <1>6

\* The root of an act is stored after the act's other spans.
LEMMA RootLast ==
  ASSUME RuntimeTypes, SpanTypes, SpanIInv, NEW a \in Recorded, queue # <<>>,
         Head(queue).table = "events", Head(queue).act = a, Head(queue).n = Root, Missing(a) = {},
         NEW n \in 1..opened[a], n # Root
  PROVE  Stored(a, n)
<1>1. PICK h : h = Head(queue) OBVIOUS
<1>2. queue \in Seq(Row) /\ h = queue[1] /\ 1 \in DOMAIN queue /\ h \in Sent
  <2>1. queue \in Seq(Row) BY DEF SpanTypes
  <2>2. h = queue[1] /\ 1 \in DOMAIN queue BY <1>1, <2>1, TailFacts
  <2> QED BY <2>1, <2>2 DEF Sent, Before
<1>3. ActOk(a, Sent, made[a], opened[a], stack[a], pc[a], ordinal[a]) BY DEF SpanIInv
<1>4. pc[a] = "ended"
  <2>1. RowOk(h, made[a], stack[a], pc[a], ordinal[a]) BY <1>1, <1>2, <1>3 DEF ActOk
  <2>2. pc[a] \in {"ended", "dead"} BY <1>1, <2>1 DEF RowOk, EventOk
  <2>3. pc[a] # "dead" BY <1>1, <1>2 DEF SpanIInv
  <2> QED BY <2>2, <2>3
<1>5. OpenCalls(stack[a]) = {}
  <2>1. stack[a] = <<>> BY <1>3, <1>4 DEF ActOk
  <2> QED BY <2>1 DEF OpenCalls
<1>6. PICK r \in Sent : r.act = a /\ r.table = "events" /\ r.n = n BY <1>3, <1>4, <1>5 DEF ActOk, Emitted
<1>7. r \notin {queue[i] : i \in DOMAIN queue}
  <2> SUFFICES ASSUME NEW i \in DOMAIN queue, r = queue[i] PROVE FALSE OBVIOUS
  <2>1. i # 1 BY <1>1, <1>2, <1>6
  <2>2. 1 < i BY <1>2, <2>1
  <2>3. Ordered(made, h, r) BY <1>2, <2>2 DEF SpanIInv, LogOk
  <2> QED BY <1>1, <1>6, <2>3 DEF Ordered
<1>8. r \notin {calls[i] : i \in DOMAIN calls}
  <2>1. \A i \in DOMAIN calls : calls[i] \in CallRow BY DEF SpanTypes
  <2> QED BY <1>6, <2>1, RowFacts
<1>9. r \notin lost BY <1>6 DEF Missing
<1> QED BY <1>6, <1>7, <1>8, <1>9 DEF Sent, Before, Stored

\* A call is listed after those with lower ordinals.
LEMMA LowerListed ==
  ASSUME RuntimeTypes, SpanTypes, SpanIInv, NEW a \in Recorded, queue # <<>>,
         Head(queue).table # "events", Head(queue).act = a, Missing(a) = {},
         NEW k \in Nat, k < Head(queue).ordinal
  PROVE  \E j \in CallsOf(a) : calls[j].ordinal = k
<1>1. PICK h : h = Head(queue) OBVIOUS
<1>2. queue \in Seq(Row) /\ h = queue[1] /\ 1 \in DOMAIN queue /\ h \in Sent /\ h.table = "tool_calls"
  <2>1. queue \in Seq(Row) BY DEF SpanTypes
  <2>2. h = queue[1] /\ 1 \in DOMAIN queue /\ h \in Row BY <1>1, <2>1, TailFacts
  <2>3. h.table = "tool_calls" BY <1>1, <2>2, RowFacts
  <2> QED BY <2>1, <2>2, <2>3 DEF Sent, Before
<1>3. ActOk(a, Sent, made[a], opened[a], stack[a], pc[a], ordinal[a]) BY DEF SpanIInv
<1>4. pc[a] # "dead" BY <1>1, <1>2 DEF SpanIInv
<1>5. h.ordinal \in Nat /\ h.ordinal < ordinal[a]
  <2>1. RowOk(h, made[a], stack[a], pc[a], ordinal[a]) BY <1>1, <1>2, <1>3 DEF ActOk
  <2> QED BY <1>2, <1>4, <2>1 DEF RowOk, CallOk
<1>6. k < ordinal[a]
  <2>1. ordinal[a] \in Nat BY SpansAssumption DEF SpanTypes
  <2> QED BY <1>1, <1>5, <2>1
<1>7. PICK r \in Sent : r.act = a /\ r.table = "tool_calls" /\ r.ordinal = k
  BY <1>3, <1>4, <1>6 DEF ActOk, Numbered
<1>8. r \notin {queue[i] : i \in DOMAIN queue}
  <2> SUFFICES ASSUME NEW i \in DOMAIN queue, r = queue[i] PROVE FALSE OBVIOUS
  <2>1. i # 1 BY <1>1, <1>2, <1>5, <1>7
  <2>2. 1 < i BY <1>2, <2>1
  <2>3. Ordered(made, h, r) BY <1>2, <2>2 DEF SpanIInv, LogOk
  <2>4. h.ordinal < k BY <1>1, <1>2, <1>7, <2>3 DEF Ordered
  <2> QED BY <1>1, <1>5, <2>4
<1>9. r \notin events
  <2>1. \A e \in events : e.table = "events" BY RowFacts DEF SpanTypes
  <2> QED BY <1>7, <2>1
<1>10. r \notin lost BY <1>7 DEF Missing
<1>11. PICK j \in DOMAIN calls : r = calls[j] BY <1>7, <1>8, <1>9, <1>10 DEF Sent, Before
<1> QED BY <1>7, <1>11 DEF CallsOf

LEMMA SameGap ==
  ASSUME NEW a, GapOk(a), UNCHANGED calls, Missing(a)' = {} => Missing(a) = {} PROVE GapOk(a)'
<1>1. CallsOf(a)' = CallsOf(a) BY DEF CallsOf
<1> QED BY <1>1 DEF GapOk

LEMMA SameWhole ==
  ASSUME NEW a, WholeOk(a), UNCHANGED <<events, opened>>, Missing(a)' = {} => Missing(a) = {} PROVE WholeOk(a)'
<1>1. \A n : Stored(a, n)' <=> Stored(a, n) BY DEF Stored
<1> QED BY <1>1 DEF WholeOk

LEMMA WriteSpans ==
  ASSUME RuntimeTypes, SpanTypes, SpanIInv, Write, UNCHANGED actVars PROVE Spanned
<1>1. UNCHANGED <<made, opened, stack, pc, ordinal, lost>> /\ queue # <<>> BY DEF Write, actVars
<1>2. PICK h : h = Head(queue) OBVIOUS
<1>3. PICK t : t = Tail(queue) OBVIOUS
<1>4. queue \in Seq(Row) /\ queue' = t BY <1>3 DEF Write, SpanTypes
<1>5. t \in Seq(Row) /\ h \in Row BY <1>1, <1>2, <1>3, <1>4, TailFacts
<1>6. /\ {queue[i] : i \in DOMAIN queue} = {t[i] : i \in DOMAIN t} \cup {h}
      /\ \A j \in DOMAIN t : \E i \in DOMAIN queue : t[j] = queue[i]
  BY <1>1, <1>2, <1>3, <1>4, TailSent
<1>7. \A j \in DOMAIN queue' : \E i \in DOMAIN queue : queue'[j] = queue[i] BY <1>4, <1>6
<1>8. LogOk(queue, events, calls, made) BY DEF SpanIInv
<1>9. CASE h.table = "events"
  <2>1. events' = events \cup {h} /\ UNCHANGED calls BY <1>2, <1>9 DEF Write
  <2>2. h \in EventRow BY <1>5, <1>9, RowFacts
  <2>3. SpanTypes' BY <1>1, <1>4, <1>5, <2>1, <2>2 DEF SpanTypes
  <2>4. Sent' = Sent BY <1>1, <1>4, <1>6, <2>1 DEF Sent, Before
  <2>5. LogOk(queue', events', calls', made)
    <3>1. LogOk(Tail(queue), events \cup {Head(queue)}, calls, made) BY <1>1, <1>4, <1>8, LogTail
    <3> QED BY <1>2, <1>3, <1>4, <2>1, <3>1
  <2>6. ASSUME NEW a \in Recorded PROVE WholeOk(a)' /\ GapOk(a)'
    <3>1. WholeOk(a) /\ GapOk(a) BY DEF SpanIInv
    <3>2. GapOk(a)'
      <4>1. Missing(a)' = {} => Missing(a) = {} BY <1>1 DEF Missing
      <4> QED BY <2>1, <3>1, <4>1, SameGap
    <3>3. \A n : Stored(a, n) => Stored(a, n)' BY <2>1 DEF Stored
    <3>4. ASSUME Stored(a, Root)', Missing(a)' = {}, NEW n \in 1..opened'[a] PROVE Stored(a, n)'
      <4>1. n \in 1..opened[a] /\ Missing(a) = {} BY <1>1, <3>4 DEF Missing
      <4>2. CASE Stored(a, Root) BY <3>1, <3>3, <4>1, <4>2 DEF WholeOk
      <4>3. CASE n = Root BY <3>4, <4>3
      <4>4. CASE ~Stored(a, Root) /\ n # Root
        <5>1. PICK e \in events' : e.act = a /\ e.n = Root BY <3>4 DEF Stored
        <5>2. e = h BY <2>1, <4>4, <5>1 DEF Stored
        <5>3. Stored(a, n) BY <1>1, <1>2, <1>9, <4>1, <4>4, <5>1, <5>2, RootLast
        <5> QED BY <3>3, <5>3
      <4> QED BY <4>2, <4>3, <4>4
    <3>5. WholeOk(a)' BY <3>4 DEF WholeOk
    <3> QED BY <3>2, <3>5
  <2>7. SpanIInv' BY <1>1, <1>7, <2>4, <2>5, <2>6, Placed
  <2> QED BY <2>3, <2>7 DEF Spanned
<1>10. CASE h.table # "events"
  <2>1. PICK c \in Seq(CallRow) : c = calls BY DEF SpanTypes
  <2>2. PICK b : b = Append(c, h) OBVIOUS
  <2>3. calls' = b /\ UNCHANGED events BY <1>2, <1>10, <2>1, <2>2 DEF Write
  <2>4. h \in CallRow BY <1>5, <1>10, RowFacts
  <2>5. PICK l \in Nat : l = Len(c) /\ DOMAIN c = 1..l BY <2>1
  <2>6. b \in Seq(CallRow) /\ DOMAIN b = 1..(l + 1) /\ b[l + 1] = h /\ \A i \in 1..l : b[i] = c[i]
    BY <2>1, <2>2, <2>4, <2>5
  <2>7. (\A i \in 1..l : i \in 1..(l + 1)) /\ l + 1 \in 1..(l + 1) /\ \A i \in 1..(l + 1) : i = l + 1 \/ i \in 1..l
    BY <2>5
  <2>8. SpanTypes' BY <1>1, <1>4, <1>5, <2>3, <2>6 DEF SpanTypes
  <2>9. {b[i] : i \in DOMAIN b} = {c[i] : i \in DOMAIN c} \cup {h} BY <2>5, <2>6, <2>7
  <2>10. Sent' = Sent BY <1>1, <1>4, <1>6, <2>1, <2>3, <2>9 DEF Sent, Before
  <2>11. LogOk(queue', events', calls', made)
    <3>1. LogOk(Tail(queue), events, Append(c, Head(queue)), made) BY <1>1, <1>2, <1>4, <1>8, <2>1, <2>4, LogCall
    <3> QED BY <1>2, <1>3, <1>4, <2>2, <2>3, <3>1
  <2>12. ASSUME NEW a \in Recorded PROVE WholeOk(a)' /\ GapOk(a)'
    <3>1. WholeOk(a) /\ GapOk(a) BY DEF SpanIInv
    <3>2. WholeOk(a)' BY <1>1, <2>3, <3>1 DEF WholeOk, Missing, Stored
    <3>3. \A i \in CallsOf(a) : i \in CallsOf(a)' /\ i \in 1..l /\ calls'[i] = calls[i]
      BY <2>1, <2>3, <2>5, <2>6, <2>7 DEF CallsOf
    <3>4. ASSUME Missing(a)' = {}, NEW i \in CallsOf(a)', NEW k \in Nat, k < calls'[i].ordinal
          PROVE  \E j \in CallsOf(a)' : j < i /\ calls'[j].ordinal = k
      <4>1. Missing(a) = {} BY <1>1, <3>4 DEF Missing
      <4>2. i \in 1..(l + 1) BY <2>3, <2>6 DEF CallsOf
      <4>3. CASE i \in 1..l
        <5>1. i \in CallsOf(a) /\ calls'[i] = calls[i] BY <2>1, <2>3, <2>5, <2>6, <4>3 DEF CallsOf
        <5>2. PICK j \in CallsOf(a) : j < i /\ calls[j].ordinal = k BY <3>1, <3>4, <4>1, <5>1 DEF GapOk
        <5> QED BY <3>3, <5>2
      <4>4. CASE i = l + 1
        <5>1. calls'[i] = h /\ h.act = a BY <2>3, <2>6, <4>4 DEF CallsOf
        <5>2. PICK j \in CallsOf(a) : calls[j].ordinal = k
          BY <1>1, <1>2, <1>10, <3>4, <4>1, <5>1, LowerListed
        <5>3. j \in 1..l BY <3>3
        <5>4. j < i BY <4>4, <5>3
        <5> QED BY <3>3, <5>2, <5>4
      <4> QED BY <2>7, <4>2, <4>3, <4>4
    <3>5. GapOk(a)' BY <3>4 DEF GapOk
    <3> QED BY <3>2, <3>5
  <2>13. SpanIInv' BY <1>1, <1>7, <2>10, <2>11, <2>12, Placed
  <2> QED BY <2>8, <2>13 DEF Spanned
<1> QED BY <1>9, <1>10

LEMMA LossSpans ==
  ASSUME RuntimeTypes, SpanTypes, SpanIInv, WriteFails, UNCHANGED actVars PROVE Spanned
<1>1. UNCHANGED <<made, opened, stack, pc, ordinal, events, calls>> /\ queue # <<>> BY DEF WriteFails, actVars
<1>2. PICK h : h = Head(queue) OBVIOUS
<1>3. PICK t : t = Tail(queue) OBVIOUS
<1>4. queue \in Seq(Row) /\ queue' = t /\ lost' = lost \cup {h} BY <1>2, <1>3 DEF WriteFails, SpanTypes
<1>5. t \in Seq(Row) /\ h \in Row BY <1>1, <1>2, <1>3, <1>4, TailFacts
<1>6. /\ {queue[i] : i \in DOMAIN queue} = {t[i] : i \in DOMAIN t} \cup {h}
      /\ \A j \in DOMAIN t : \E i \in DOMAIN queue : t[j] = queue[i]
  BY <1>1, <1>2, <1>3, <1>4, TailSent
<1>7. \A j \in DOMAIN queue' : \E i \in DOMAIN queue : queue'[j] = queue[i] BY <1>4, <1>6
<1>8. SpanTypes' BY <1>1, <1>4, <1>5 DEF SpanTypes
<1>9. Sent' = Sent BY <1>1, <1>4, <1>6 DEF Sent, Before
<1>10. LogOk(queue', events', calls', made)
  <2>1. LogOk(queue, events, calls, made) BY DEF SpanIInv
  <2>2. LogOk(Tail(queue), events, calls, made) BY <1>1, <1>4, <2>1, LogTail
  <2> QED BY <1>1, <1>3, <1>4, <2>2
<1>11. ASSUME NEW a \in Recorded PROVE WholeOk(a)' /\ GapOk(a)'
  <2>1. WholeOk(a) /\ GapOk(a) BY DEF SpanIInv
  <2>2. Missing(a)' = {} => Missing(a) = {} BY <1>4 DEF Missing
  <2>3. WholeOk(a)' BY <1>1, <2>1, <2>2 DEF WholeOk, Stored
  <2>4. GapOk(a)' BY <1>1, <2>1, <2>2 DEF GapOk, CallsOf
  <2> QED BY <2>3, <2>4
<1>12. SpanIInv' BY <1>1, <1>7, <1>9, <1>10, <1>11, Placed
<1> QED BY <1>8, <1>12 DEF Spanned

LEMMA CrashSpans ==
  ASSUME RuntimeTypes, SpanTypes, SpanIInv, Crash PROVE Spanned
<1>1. /\ queue' = <<>> /\ ordinal' = [a \in Acts |-> 0] /\ UNCHANGED <<events, calls, lost, opened, made>>
      /\ pc' = [a \in Acts |-> IF pc[a] = "idle" THEN "idle" ELSE "dead"] /\ stack' = [a \in Acts |-> <<>>]
  BY DEF Crash, SpansCrash
<1>2. SpanTypes'
  <2>1. <<>> \in Seq(Row) OBVIOUS
  <2> QED BY <1>1, <2>1 DEF SpanTypes
<1>3. Sent' \subseteq Sent BY <1>1 DEF Sent, Before
<1>4. ASSUME NEW a \in Recorded PROVE ActOk(a, Sent', made'[a], opened'[a], stack'[a], pc'[a], ordinal'[a])
  <2>1. a \in Acts BY SpansAssumption
  <2>2. ActOk(a, Sent, made[a], opened[a], stack[a], pc[a], ordinal[a]) BY DEF SpanIInv
  <2>3. PICK w : w = IF pc[a] = "idle" THEN "idle" ELSE "dead" OBVIOUS
  <2>4. ActOk(a, Sent', made[a], opened[a], <<>>, w, 0) BY <1>3, <2>2, <2>3, ActDies
  <2>5. pc'[a] = w /\ stack'[a] = <<>> /\ ordinal'[a] = 0 BY <1>1, <2>1, <2>3
  <2> QED BY <1>1, <2>4, <2>5
<1>5. ASSUME NEW a \in Recorded PROVE WholeOk(a)' /\ GapOk(a)'
  <2>1. WholeOk(a) /\ GapOk(a) BY DEF SpanIInv
  <2>2. Missing(a)' = {} => Missing(a) = {} BY <1>1 DEF Missing
  <2> QED BY <1>1, <2>1, <2>2, SameGap, SameWhole
<1>6. LogOk(queue', events', calls', made')
  <2>1. DOMAIN queue' = {} BY <1>1
  <2>2. LogOk(queue, events, calls, made) BY DEF SpanIInv
  <2> QED BY <1>1, <2>1, <2>2 DEF LogOk
<1>7. \A j \in DOMAIN queue' : pc'[queue'[j].act] # "dead" BY <1>1
<1>8. SpanIInv' BY <1>4, <1>5, <1>6, <1>7 DEF SpanIInv
<1> QED BY <1>2, <1>8 DEF Spanned

LEMMA SameSpans ==
  ASSUME SpanTypes, SpanIInv, UNCHANGED <<spanVars, actVars>> PROVE Spanned
<1>1. UNCHANGED <<ordinal, queue, events, calls, lost, made, opened, stack, pc>> BY DEF spanVars, actVars
<1>2. SpanTypes' BY <1>1 DEF SpanTypes
<1>3. ASSUME NEW a \in Recorded PROVE WholeOk(a)' /\ GapOk(a)'
  <2>1. WholeOk(a) /\ GapOk(a) BY DEF SpanIInv
  <2>2. Missing(a)' = {} => Missing(a) = {} BY <1>1 DEF Missing
  <2> QED BY <1>1, <2>1, <2>2, SameGap, SameWhole
<1>4. Sent' = Sent BY <1>1 DEF Sent
<1>5. LogOk(queue', events', calls', made) BY <1>1 DEF SpanIInv
<1>6. SpanIInv' BY <1>1, <1>3, <1>4, <1>5, Placed
<1> QED BY <1>2, <1>6 DEF Spanned

LEMMA SpansStart == Init => SpanTypes /\ SpanIInv
<1> SUFFICES ASSUME Init PROVE SpanTypes /\ SpanIInv OBVIOUS
<1>1. /\ ordinal = [a \in Acts |-> 0] /\ queue = <<>> /\ events = {} /\ calls = <<>> /\ lost = {}
      /\ pc = [a \in Acts |-> "idle"] /\ stack = [a \in Acts |-> <<>>]
      /\ opened = [a \in Acts |-> Root] /\ made = [a \in Acts |-> <<Span(NoParent)>>]
  BY DEF Init, SpansInit
<1>2. SpanTypes
  <2>1. <<>> \in Seq(Row) /\ <<>> \in Seq(CallRow) OBVIOUS
  <2> QED BY <1>1, <2>1 DEF SpanTypes
<1>3. Sent = {} BY <1>1 DEF Sent, Before
<1>4. ASSUME NEW a \in Recorded
      PROVE  /\ ActOk(a, Sent, made[a], opened[a], stack[a], pc[a], ordinal[a])
             /\ WholeOk(a) /\ GapOk(a)
  <2>1. /\ made[a] = <<Span(NoParent)>> /\ opened[a] = 1 /\ stack[a] = <<>> /\ pc[a] = "idle"
        /\ ordinal[a] = 0
    BY <1>1, SpansAssumption DEF Root
  <2>2. Grown(<<Span(NoParent)>>, 1)
    <3>1. Span(NoParent).parent = NoParent BY DEF Span
    <3>2. \A n \in 2..1 : FALSE OBVIOUS
    <3> QED BY <3>1, <3>2 DEF Grown
  <2>3. Chain(<<>>, made[a]) BY DEF Chain
  <2>4. Emitted(a, Sent, 1, <<>>, "idle")
    <3>1. \A n \in 1..1 : n = 1 OBVIOUS
    <3> QED BY <3>1 DEF Emitted, Root
  <2>5. Numbered(a, Sent, 0) BY DEF Numbered
  <2>6. ActOk(a, Sent, made[a], 1, <<>>, "idle", 0) BY <1>3, <2>1, <2>2, <2>3, <2>4, <2>5 DEF ActOk
  <2>7. WholeOk(a) /\ GapOk(a) BY <1>1 DEF WholeOk, GapOk, Stored, CallsOf
  <2> QED BY <2>1, <2>6, <2>7
<1>5. LogOk(queue, events, calls, made) BY <1>1 DEF LogOk
<1>6. \A j \in DOMAIN queue : pc[queue[j].act] # "dead" BY <1>1
<1> QED BY <1>2, <1>4, <1>5, <1>6 DEF SpanIInv

LEMMA SpanStep ==
  ASSUME RuntimeTypes, WorkIInv, SpanTypes, SpanIInv, [Next]_vars PROVE SpanTypes' /\ SpanIInv'
<1>0. RuntimeTypes' /\ WorkIInv' BY RuntimeStep
<1>1. CASE UNCHANGED vars BY <1>1, SameSpans DEF vars, Spanned
<1>2. ASSUME NEW a \in Acts, Begin(a) \/ Work(a) \/ Disconnect(a) PROVE Spanned
  BY <1>0, <1>2, BeginSpans, WorkSpans, DisconnectSpans
<1>3. ASSUME NEW l \in Lists, EditAgents(l) PROVE Spanned
  BY <1>3, SameSpans DEF EditAgents
<1>4. CASE Writer BY <1>4, WriteSpans, LossSpans DEF Writer, Spanned
<1>5. CASE Crash BY <1>5, CrashSpans DEF Spanned
<1> QED BY <1>1, <1>2, <1>3, <1>4, <1>5 DEF Next, Spanned

-----------------------------------------------------------------------------
(* How deep a row is in the tree *)

\* A recursive definition that goes up from x until the top.
Rank(f, tops, up, x) == IF x \in tops THEN 0 ELSE f[up[x]] + 1

\* Every step up makes something smaller.
Climbs(S, tops, up, size) ==
  /\ tops \in SUBSET S /\ up \in [S \ tops -> S] /\ size \in [S -> Nat]
  /\ \A x \in S \ tops : size[up[x]] < size[x]

\* Then going up ends.
LEMMA RankDefined ==
  ASSUME NEW S, NEW tops, NEW up, NEW size, Climbs(S, tops, up, size)
  PROVE  \E f : f = [x \in S |-> Rank(f, tops, up, x)]
<1> /\ tops \in SUBSET S /\ up \in [S \ tops -> S] /\ size \in [S -> Nat]
    /\ \A x \in S \ tops : size[up[x]] < size[x]
  BY DEF Climbs
<1> DEFINE Fine(n, f) == \A x \in S : size[x] <= n => f[x] = Rank(f, tops, up, x)
           Bad == {n \in Nat : \A f : ~Fine(n, f)}
<1>1. Bad = {}
  <2> SUFFICES ASSUME Bad # {} PROVE FALSE OBVIOUS
  <2>1. PICK n \in Bad : \A m \in Bad : n <= m
    <3>1. Bad \in SUBSET Nat OBVIOUS
    <3> HIDE DEF Bad
    <3> QED BY <3>1, Least
  <2>2. n \in Nat /\ (n = 0 \/ (n - 1 \in Nat /\ \E f : Fine(n - 1, f)))
    <3>1. n = 0 \/ (n - 1 \in Nat /\ n - 1 \notin Bad) BY <2>1
    <3> QED BY <3>1
  <2>3. CASE n = 0
    <3> DEFINE f == [x \in S |-> 0]
    <3>1. ASSUME NEW x \in S, size[x] <= 0 PROVE x \in tops
      <4> SUFFICES ASSUME x \notin tops PROVE FALSE OBVIOUS
      <4>1. size[up[x]] < size[x] /\ size[up[x]] \in Nat /\ size[x] \in Nat OBVIOUS
      <4> QED BY <3>1, <4>1
    <3>2. Fine(0, f) BY <3>1 DEF Rank
    <3> QED BY <2>3, <3>2
  <2>4. CASE n # 0
    <3>1. PICK f : Fine(n - 1, f) BY <2>2, <2>4
    <3> DEFINE h == [x \in S |-> Rank(f, tops, up, x)]
    <3>2. ASSUME NEW x \in S, size[x] <= n PROVE h[x] = Rank(h, tops, up, x)
      <4>1. CASE x \in tops BY <4>1 DEF Rank
      <4>2. CASE x \notin tops
        <5>1. up[x] \in S /\ size[up[x]] \in Nat /\ size[x] \in Nat /\ size[up[x]] < size[x] BY <4>2
        <5>2. size[up[x]] <= n - 1 BY <2>2, <3>2, <5>1
        <5>3. f[up[x]] = h[up[x]] BY <3>1, <5>1, <5>2
        <5> QED BY <4>2, <5>3 DEF Rank
      <4> QED BY <4>1, <4>2
    <3>3. Fine(n, h) BY <3>2
    <3> QED BY <3>3
  <2> QED BY <2>3, <2>4
<1>2. \A n \in Nat : \E f : Fine(n, f) BY <1>1
<1> DEFINE at(n) == CHOOSE f : Fine(n, f)
           h == [x \in S |-> at(size[x])[x]]
<1>3. \A n \in Nat : Fine(n, at(n)) BY <1>2
<1> HIDE DEF at
\* What two solutions say of the same x is the same.
<1>4. ASSUME NEW n \in Nat, NEW m \in Nat, NEW x \in S, size[x] <= n, size[x] <= m PROVE at(n)[x] = at(m)[x]
  <2> DEFINE Odd == {k \in Nat : \E y \in S : size[y] = k /\ k <= n /\ k <= m /\ at(n)[y] # at(m)[y]}
  <2>1. Odd = {}
    <3> SUFFICES ASSUME Odd # {} PROVE FALSE OBVIOUS
    <3>1. PICK k \in Odd : \A j \in Odd : k <= j
      <4>1. Odd \in SUBSET Nat OBVIOUS
      <4> HIDE DEF Odd
      <4> QED BY <4>1, Least
    <3>2. PICK y \in S : size[y] = k /\ k <= n /\ k <= m /\ at(n)[y] # at(m)[y] BY <3>1
    <3>3. at(n)[y] = Rank(at(n), tops, up, y) /\ at(m)[y] = Rank(at(m), tops, up, y) BY <1>3, <3>2
    <3>4. y \notin tops BY <3>2, <3>3 DEF Rank
    <3>5. up[y] \in S /\ size[up[y]] \in Nat /\ size[up[y]] < k BY <3>2, <3>4
    <3>6. size[up[y]] \notin Odd BY <3>1, <3>5
    <3>7. size[up[y]] <= n /\ size[up[y]] <= m BY <3>1, <3>2, <3>5
    <3>8. at(n)[up[y]] = at(m)[up[y]] BY <3>5, <3>6, <3>7
    <3> QED BY <3>2, <3>3, <3>4, <3>8 DEF Rank
  <2>2. size[x] \notin Odd BY <2>1
  <2> QED BY <1>4, <2>2
<1>5. ASSUME NEW x \in S PROVE h[x] = Rank(h, tops, up, x)
  <2>1. h[x] = Rank(at(size[x]), tops, up, x) BY <1>3
  <2>2. CASE x \in tops BY <2>1, <2>2 DEF Rank
  <2>3. CASE x \notin tops
    <3>1. up[x] \in S /\ size[up[x]] \in Nat /\ size[x] \in Nat /\ size[up[x]] <= size[x] /\ size[up[x]] <= size[up[x]]
      BY <2>3
    <3>2. at(size[x])[up[x]] = at(size[up[x]])[up[x]] BY <1>4, <3>1
    <3>3. h[up[x]] = at(size[x])[up[x]] BY <3>1, <3>2
    <3> QED BY <2>1, <2>3, <3>3 DEF Rank
  <2> QED BY <2>2, <2>3
<1>6. h = [x \in S |-> Rank(h, tops, up, x)]
  <2>1. h = [x \in S |-> h[x]] OBVIOUS
  <2> HIDE DEF h
  <2>2. [x \in S |-> h[x]] = [x \in S |-> Rank(h, tops, up, x)] BY <1>5
  <2> QED BY <2>1, <2>2
<1> QED BY <1>6

\* What such a definition says is a number.
LEMMA RankNat ==
  ASSUME NEW S, NEW tops, NEW up, NEW size, Climbs(S, tops, up, size),
         NEW f, f = [x \in S |-> Rank(f, tops, up, x)]
  PROVE  \A x \in S : f[x] \in Nat
<1> /\ tops \in SUBSET S /\ up \in [S \ tops -> S] /\ size \in [S -> Nat]
    /\ \A x \in S \ tops : size[up[x]] < size[x]
  BY DEF Climbs
<1> DEFINE Bad == {n \in Nat : \E x \in S : size[x] = n /\ f[x] \notin Nat}
<1>1. Bad = {}
  <2> SUFFICES ASSUME Bad # {} PROVE FALSE OBVIOUS
  <2>1. PICK n \in Bad : \A m \in Bad : n <= m
    <3>1. Bad \in SUBSET Nat OBVIOUS
    <3> HIDE DEF Bad
    <3> QED BY <3>1, Least
  <2>2. PICK x \in S : size[x] = n /\ f[x] \notin Nat BY <2>1
  <2>3. f[x] = Rank(f, tops, up, x) OBVIOUS
  <2>4. x \notin tops BY <2>2, <2>3 DEF Rank
  <2>5. up[x] \in S /\ size[up[x]] \in Nat /\ size[up[x]] < n BY <2>2, <2>4
  <2>6. size[up[x]] \notin Bad BY <2>1, <2>5
  <2>7. f[up[x]] \in Nat BY <2>5, <2>6
  <2> QED BY <2>2, <2>3, <2>4, <2>7 DEF Rank
<1>2. \A x \in S : size[x] \in Nat /\ size[x] \notin Bad BY <1>1
<1> QED BY <1>2

\* Rows of the events table and the spans they tell of.
LEMMA EventFacts ==
  ASSUME SpanTypes, SpanIInv, NEW e \in events
  PROVE  /\ e.act \in Recorded /\ e.n \in Nat /\ e.n \in 1..Len(made[e.act])
         /\ e.parent = made[e.act][e.n].parent /\ Grown(made[e.act], opened[e.act])
<1>1. e \in Sent /\ e \in Row /\ e.table = "events" BY RowFacts DEF Sent, Before, SpanTypes, Row
<1>2. e.act \in Recorded /\ e.n \in Nat BY <1>1, RowFacts
<1>3. ActOk(e.act, Sent, made[e.act], opened[e.act], stack[e.act], pc[e.act], ordinal[e.act])
  BY <1>2 DEF SpanIInv
<1>4. RowOk(e, made[e.act], stack[e.act], pc[e.act], ordinal[e.act]) BY <1>1, <1>3 DEF ActOk
<1> QED BY <1>1, <1>2, <1>3, <1>4 DEF ActOk, RowOk, EventOk

\* The row above is of an earlier span.
LEMMA AboveEarlier ==
  ASSUME SpanTypes, SpanIInv, NEW page \in SUBSET events, NEW e \in page, NEW p \in Above(page, e)
  PROVE  p \in page /\ p.act = e.act /\ p.n = e.parent /\ p.n < e.n /\ e.n # 1
<1>1. p \in page /\ p.act = e.act /\ p.n = e.parent BY DEF Above
<1>2. /\ p.n \in Nat /\ p.n \in 1..Len(made[e.act]) /\ e.n \in Nat /\ e.n \in 1..Len(made[e.act])
      /\ p.n = made[e.act][e.n].parent /\ Grown(made[e.act], opened[e.act])
  BY <1>1, EventFacts
<1>3. PICK o : o = opened[e.act] /\ Len(made[e.act]) = o BY <1>2 DEF Grown
<1>4. e.n # 1 BY <1>2 DEF Grown, NoParent
<1>5. e.n \in 2..o BY <1>2, <1>3, <1>4
<1>6. p.n \in 1..(e.n - 1) BY <1>2, <1>3, <1>5 DEF Grown
<1> QED BY <1>1, <1>2, <1>4, <1>6

LEMMA DepthsFacts ==
  ASSUME SpanTypes, SpanIInv, NEW page \in SUBSET events
  PROVE  \A e \in page :
           /\ Depths(page)[e] \in Nat
           /\ Above(page, e) = {} => Depths(page)[e] = 0
           /\ Above(page, e) # {} => \E p \in Above(page, e) : Depths(page)[e] = Depths(page)[p] + 1
<1> DEFINE Body(f) == [e \in page |-> IF Above(page, e) = {} THEN 0
                                      ELSE f[CHOOSE p \in Above(page, e) : TRUE] + 1]
<1>1. PICK D : D = Depths(page) OBVIOUS
<1>2. D = CHOOSE f : f = Body(f) BY <1>1 DEF Depths
<1>3. PICK tops : tops = {e \in page : Above(page, e) = {}} OBVIOUS
<1>4. PICK up : up = [e \in page \ tops |-> CHOOSE p \in Above(page, e) : TRUE] OBVIOUS
<1>5. PICK size : size = [e \in page |-> e.n] OBVIOUS
<1>6. ASSUME NEW e \in page \ tops
      PROVE  up[e] \in Above(page, e) /\ up[e] \in page /\ up[e].n < e.n
  <2>1. Above(page, e) # {} BY <1>3
  <2>2. up[e] \in Above(page, e) BY <1>4, <2>1
  <2> QED BY <2>2, AboveEarlier
<1>7. up \in [page \ tops -> page] BY <1>4, <1>6
<1>8. size \in [page -> Nat]
  <2>1. \A e \in page : e.n \in Nat BY EventFacts
  <2> QED BY <1>5, <2>1
<1>9. \A e \in page \ tops : size[up[e]] < size[e] BY <1>5, <1>6
<1>10. tops \in SUBSET page BY <1>3
<1>11. ASSUME NEW f PROVE Body(f) = [e \in page |-> Rank(f, tops, up, e)]
  <2>1. ASSUME NEW e \in page
        PROVE  (IF Above(page, e) = {} THEN 0 ELSE f[CHOOSE p \in Above(page, e) : TRUE] + 1) = Rank(f, tops, up, e)
    <3>1. CASE Above(page, e) = {} BY <1>3, <3>1 DEF Rank
    <3>2. CASE Above(page, e) # {}
      <4>1. e \in page \ tops BY <1>3, <3>2
      <4>2. up[e] = CHOOSE p \in Above(page, e) : TRUE BY <1>4, <4>1
      <4> QED BY <3>2, <4>1, <4>2 DEF Rank
    <3> QED BY <3>1, <3>2
  <2> QED BY <2>1
<1>12. Climbs(page, tops, up, size) BY <1>7, <1>8, <1>9, <1>10 DEF Climbs
<1> HIDE DEF Body
<1>13. \E f : f = Body(f)
  <2>1. PICK f : f = [e \in page |-> Rank(f, tops, up, e)] BY <1>12, RankDefined
  <2>2. Body(f) = [e \in page |-> Rank(f, tops, up, e)] BY <1>11
  <2> QED BY <2>1, <2>2
<1>14. D = Body(D) BY <1>2, <1>13
<1>15. D = [e \in page |-> Rank(D, tops, up, e)] BY <1>11, <1>14
<1>16. \A e \in page : D[e] \in Nat BY <1>12, <1>15, RankNat
<1>17. ASSUME NEW e \in page
       PROVE  /\ Above(page, e) = {} => D[e] = 0
              /\ Above(page, e) # {} => \E p \in Above(page, e) : D[e] = D[p] + 1
  <2>1. D[e] = Rank(D, tops, up, e) BY <1>15
  <2>2. CASE Above(page, e) = {} BY <1>3, <2>1, <2>2 DEF Rank
  <2>3. CASE Above(page, e) # {}
    <3>1. e \in page \ tops BY <1>3, <2>3
    <3> QED BY <1>6, <2>1, <2>3, <3>1 DEF Rank
  <2> QED BY <2>2, <2>3
<1> QED BY <1>1, <1>16, <1>17

LEMMA NestingFacts ==
  ASSUME RuntimeTypes, SpanIInv, NEW a \in Recorded
  PROVE  \A n \in 1..Len(made[a]) :
           /\ Nesting(a)[n] \in Nat
           /\ n = 1 => Nesting(a)[n] = 0
           /\ n # 1 => /\ made[a][n].parent \in 1..(n - 1)
                       /\ Nesting(a)[n] = Nesting(a)[made[a][n].parent] + 1
<1>0. a \in Acts BY SpansAssumption
<1>1. PICK m \in Seq(Made) : m = made[a] BY <1>0, ActTypes
<1>2. PICK o \in Nat : o = Len(m) /\ Grown(m, o) BY <1>1 DEF SpanIInv, ActOk, Grown
<1> DEFINE Body(f) == [n \in 1..o |-> IF m[n].parent = NoParent THEN 0 ELSE f[m[n].parent] + 1]
<1>3. PICK D : D = Nesting(a) OBVIOUS
<1>4. D = CHOOSE f : f = Body(f) BY <1>1, <1>2, <1>3 DEF Nesting
<1>5. PICK tops : tops = {n \in 1..o : n = 1} OBVIOUS
<1>6. PICK up : up = [n \in (1..o) \ tops |-> m[n].parent] OBVIOUS
<1>7. PICK size : size = [n \in 1..o |-> n] OBVIOUS
<1>8. ASSUME NEW n \in (1..o) \ tops
      PROVE  up[n] = m[n].parent /\ up[n] \in 1..(n - 1) /\ up[n] \in 1..o /\ up[n] < n /\ m[n].parent # NoParent
  <2>1. n \in 2..o BY <1>5
  <2>2. m[n].parent \in 1..(n - 1) BY <1>2, <2>1 DEF Grown
  <2>3. up[n] = m[n].parent BY <1>6
  <2> QED BY <2>1, <2>2, <2>3 DEF NoParent
<1>9. up \in [(1..o) \ tops -> 1..o] BY <1>6, <1>8
<1>10. size \in [1..o -> Nat] BY <1>7
<1>11. \A n \in (1..o) \ tops : size[up[n]] < size[n] BY <1>7, <1>8
<1>12. tops \in SUBSET (1..o) BY <1>5
<1>13. \A n \in tops : n = 1 /\ m[n].parent = NoParent BY <1>2, <1>5 DEF Grown
<1>14. ASSUME NEW f PROVE Body(f) = [n \in 1..o |-> Rank(f, tops, up, n)]
  <2>1. ASSUME NEW n \in 1..o
        PROVE  (IF m[n].parent = NoParent THEN 0 ELSE f[m[n].parent] + 1) = Rank(f, tops, up, n)
    <3>1. CASE n \in tops BY <1>13, <3>1 DEF Rank
    <3>2. CASE n \notin tops
      <4>1. up[n] = m[n].parent /\ m[n].parent # NoParent BY <1>8, <3>2
      <4> QED BY <3>2, <4>1 DEF Rank
    <3> QED BY <3>1, <3>2
  <2> QED BY <2>1
<1> HIDE DEF Body
<1>15. PICK S : S = 1..o OBVIOUS
<1>16. Climbs(S, tops, up, size) BY <1>9, <1>10, <1>11, <1>12, <1>15 DEF Climbs
<1>17. D = Body(D)
  <2>1. PICK f : f = [n \in S |-> Rank(f, tops, up, n)] BY <1>16, RankDefined
  <2>2. f = Body(f) BY <1>14, <1>15, <2>1
  <2> QED BY <1>4, <2>2
<1>18. D = [n \in S |-> Rank(D, tops, up, n)] BY <1>14, <1>15, <1>17
<1>19. \A n \in S : D[n] \in Nat BY <1>16, <1>18, RankNat
<1>20. ASSUME NEW n \in 1..o
       PROVE  /\ n = 1 => D[n] = 0
              /\ n # 1 => (m[n].parent \in 1..(n - 1) /\ D[n] = D[m[n].parent] + 1)
  <2>1. D[n] = Rank(D, tops, up, n) BY <1>15, <1>18
  <2>2. CASE n = 1 BY <1>5, <2>1, <2>2 DEF Rank
  <2>3. CASE n # 1
    <3>1. n \in (1..o) \ tops BY <1>5, <2>3
    <3> QED BY <1>8, <2>1, <2>3, <3>1 DEF Rank
  <2> QED BY <2>2, <2>3
<1> QED BY <1>1, <1>2, <1>3, <1>15, <1>19, <1>20

-----------------------------------------------------------------------------
(* What the studio shows of a turn *)

LEMMA TreeHolds ==
  ASSUME RuntimeTypes, SpanTypes, SpanIInv PROVE TreeFaithful
<1> SUFFICES ASSUME NEW a \in Recorded
             PROVE LET page == Page(Turn[a])
                       mine == {e \in page : e.act = a}
                       whole == Stored(a, Root) /\ Missing(a) = {}
                   IN  /\ whole => \A n \in 1..opened[a] : Stored(a, n)
                       /\ \A e \in mine : Depths(page)[e] <= Nesting(a)[e.n]
                       /\ whole => \A e \in mine : Depths(page)[e] = Nesting(a)[e.n]
  BY DEF TreeFaithful
<1>1. PICK page : page = Page(Turn[a]) OBVIOUS
<1>2. PICK mine : mine = {e \in page : e.act = a} OBVIOUS
<1> DEFINE whole == Stored(a, Root) /\ Missing(a) = {}
<1>3. page \in SUBSET events /\ mine \subseteq page BY <1>1, <1>2 DEF Page
<1>4. PICK D : D = Depths(page) OBVIOUS
<1>5. PICK N : N = Nesting(a) OBVIOUS
<1>6. whole => \A n \in 1..opened[a] : Stored(a, n) BY DEF SpanIInv, WholeOk
<1>7. Len(made[a]) = opened[a] BY DEF SpanIInv, ActOk, Grown
<1>8. ASSUME NEW e \in mine
      PROVE  /\ D[e] \in Nat /\ e.n \in Nat /\ e.n \in 1..Len(made[a]) /\ N[e.n] \in Nat
             /\ e.parent = made[a][e.n].parent
             /\ e.n # 1 => e.parent \in 1..(e.n - 1) /\ N[e.n] = N[e.parent] + 1
             /\ Above(page, e) = {} => D[e] = 0
             /\ Above(page, e) # {} =>
                  \E p \in mine : p.n = e.parent /\ p.n < e.n /\ e.n # 1 /\ D[e] = D[p] + 1
             /\ (whole /\ e.n # 1) => Above(page, e) # {}
             /\ e.n = 1 => Above(page, e) = {} /\ N[e.n] = 0
  <2>1. e \in page /\ e.act = a /\ e \in events BY <1>2, <1>3
  <2>2. e.n \in Nat /\ e.n \in 1..Len(made[a]) /\ e.parent = made[a][e.n].parent BY <2>1, EventFacts
  <2>3. /\ D[e] \in Nat
        /\ Above(page, e) = {} => D[e] = 0
        /\ Above(page, e) # {} => \E p \in Above(page, e) : D[e] = D[p] + 1
    BY <1>3, <1>4, <2>1, DepthsFacts
  <2>4. /\ N[e.n] \in Nat
        /\ e.n = 1 => N[e.n] = 0
        /\ e.n # 1 => made[a][e.n].parent \in 1..(e.n - 1) /\ N[e.n] = N[made[a][e.n].parent] + 1
    BY <1>5, <2>2, NestingFacts
  <2>5. \A p \in Above(page, e) : p \in page /\ p.act = e.act /\ p.n = e.parent /\ p.n < e.n /\ e.n # 1
    BY <1>3, <2>1, AboveEarlier
  <2>6. Above(page, e) # {} =>
          \E p \in mine : p.n = e.parent /\ p.n < e.n /\ e.n # 1 /\ D[e] = D[p] + 1
    BY <1>2, <2>1, <2>3, <2>5
  <2>7. ASSUME whole, e.n # 1 PROVE Above(page, e) # {}
    <3>1. e.parent \in 1..(e.n - 1) BY <2>2, <2>4, <2>7
    <3>2. PICK k \in Nat : k = opened[a] /\ e.n \in 1..k BY <1>7, <2>2
    <3>3. e.parent \in 1..opened[a] BY <3>1, <3>2
    <3>4. PICK p \in events : p.act = a /\ p.n = e.parent BY <1>6, <2>7, <3>3 DEF Stored
    <3>5. p \in page BY <1>1, <3>4 DEF Page
    <3> QED BY <2>1, <3>4, <3>5 DEF Above
  <2>8. (whole /\ e.n # 1) => Above(page, e) # {} BY <2>7
  <2>9. e.n = 1 => Above(page, e) = {} /\ N[e.n] = 0 BY <2>4, <2>5
  <2>10. e.n # 1 => e.parent \in 1..(e.n - 1) /\ N[e.n] = N[e.parent] + 1 BY <2>2, <2>4
  <2>11. D[e] \in Nat /\ N[e.n] \in Nat /\ (Above(page, e) = {} => D[e] = 0) BY <2>3, <2>4
  <2> HIDE DEF whole
  <2> QED BY <2>2, <2>6, <2>8, <2>9, <2>10, <2>11
<1>9. ASSUME NEW e \in mine PROVE D[e] <= N[e.n]
  <2> DEFINE Bad == {n \in Nat : \E x \in mine : x.n = n /\ ~(D[x] <= N[x.n])}
  <2>1. Bad = {}
    <3> SUFFICES ASSUME Bad # {} PROVE FALSE OBVIOUS
    <3>1. PICK n \in Bad : \A m \in Bad : n <= m
      <4>1. Bad \in SUBSET Nat OBVIOUS
      <4> HIDE DEF Bad
      <4> QED BY <4>1, Least
    <3>2. PICK x \in mine : x.n = n /\ ~(D[x] <= N[x.n]) BY <3>1
    <3>3. D[x] # 0 BY <1>8, <3>2
    <3>4. PICK p \in mine : p.n = x.parent /\ p.n < x.n /\ x.n # 1 /\ D[x] = D[p] + 1 BY <1>8, <3>3
    <3>5. p.n \in Nat /\ p.n \notin Bad BY <1>8, <3>1, <3>2, <3>4
    <3>6. D[p] <= N[p.n] BY <3>5
    <3>7. N[x.n] = N[p.n] + 1 BY <1>8, <3>4
    <3> QED BY <1>8, <3>2, <3>4, <3>6, <3>7
  <2>2. e.n \in Nat /\ e.n \notin Bad BY <1>8, <2>1
  <2> QED BY <2>2
<1>10. ASSUME whole, NEW e \in mine PROVE D[e] = N[e.n]
  <2> DEFINE Bad == {n \in Nat : \E x \in mine : x.n = n /\ D[x] # N[x.n]}
  <2>1. Bad = {}
    <3> SUFFICES ASSUME Bad # {} PROVE FALSE OBVIOUS
    <3>1. PICK n \in Bad : \A m \in Bad : n <= m
      <4>1. Bad \in SUBSET Nat OBVIOUS
      <4> HIDE DEF Bad
      <4> QED BY <4>1, Least
    <3>2. PICK x \in mine : x.n = n /\ D[x] # N[x.n] BY <3>1
    <3>3. x.n # 1 BY <1>8, <3>2
    <3>4. PICK p \in mine : p.n = x.parent /\ p.n < x.n /\ D[x] = D[p] + 1 BY <1>8, <1>10, <3>3
    <3>5. p.n \in Nat /\ p.n \notin Bad BY <1>8, <3>1, <3>2, <3>4
    <3>6. D[p] = N[p.n] BY <3>5
    <3>7. N[x.n] = N[p.n] + 1 BY <1>8, <3>3, <3>4
    <3> QED BY <3>2, <3>4, <3>6, <3>7
  <2>2. e.n \in Nat /\ e.n \notin Bad BY <1>8, <2>1
  <2> QED BY <2>2
<1> HIDE DEF whole
<1> QED BY <1>1, <1>2, <1>4, <1>5, <1>6, <1>9, <1>10 DEF whole

LEMMA CallsHold ==
  ASSUME SpanTypes, SpanIInv PROVE CallsFaithful
<1> SUFFICES ASSUME NEW a \in Recorded
             PROVE LET rows == CallsOf(a)
                       fate(i) == made[a][calls[i].n].fate
                   IN  /\ \A i, j \in rows : i < j =>
                             calls[i].ordinal < calls[j].ordinal /\ made[a][calls[j].n].parent # calls[i].n
                       /\ (Missing(a) = {}) =>
                             \A i \in rows : \A k \in 0..(calls[i].ordinal - 1) :
                               \E j \in rows : j < i /\ calls[j].ordinal = k
                       /\ \A i \in rows :
                            /\ calls[i].told = "result" => fate(i) = "ok"
                            /\ calls[i].told = "error" => fate(i) = "failed"
                            /\ (fate(i) = "failed" /\ calls[i].tool \notin Quiet) => calls[i].told = "error"
                            /\ calls[i].told = "nothing" =>
                                 fate(i) \in {"cut", "refused"} \/ (fate(i) = "failed" /\ calls[i].tool \in Quiet)
  BY DEF CallsFaithful
<1>1. PICK rows : rows = CallsOf(a) OBVIOUS
<1>2. ASSUME NEW i \in rows
      PROVE  i \in DOMAIN calls /\ calls[i].act = a /\ calls[i].table = "tool_calls" /\ calls[i].ordinal \in Nat
             /\ Truthful(calls[i], made[a][calls[i].n].fate)
  <2>1. i \in DOMAIN calls /\ calls[i].act = a BY <1>1 DEF CallsOf
  <2>2. calls[i] \in CallRow BY <2>1 DEF SpanTypes
  <2>3. calls[i].table = "tool_calls" /\ calls[i] \in Sent BY <2>1, <2>2, RowFacts DEF Sent, Before
  <2>4. RowOk(calls[i], made[a], stack[a], pc[a], ordinal[a]) BY <2>1, <2>3 DEF SpanIInv, ActOk
  <2> QED BY <2>1, <2>3, <2>4 DEF RowOk, CallOk
<1>3. ASSUME NEW i \in rows, NEW j \in rows, i < j
      PROVE  calls[i].ordinal < calls[j].ordinal /\ made[a][calls[j].n].parent # calls[i].n
  <2>1. Ordered(made, calls[i], calls[j]) BY <1>2, <1>3 DEF SpanIInv, LogOk
  <2> QED BY <1>2, <2>1 DEF Ordered
<1>4. ASSUME Missing(a) = {}, NEW i \in rows, NEW k \in 0..(calls[i].ordinal - 1)
      PROVE  \E j \in rows : j < i /\ calls[j].ordinal = k
  <2>1. k \in Nat /\ k < calls[i].ordinal BY <1>2
  <2>2. GapOk(a) BY DEF SpanIInv
  <2> QED BY <1>1, <1>4, <2>1, <2>2 DEF GapOk
<1> QED BY <1>1, <1>2, <1>3, <1>4 DEF Truthful

\* What the studio shows of a turn is what happened in it, whatever agents call,
\* whichever calls fail, are cut or refused, and at whatever step the process
\* dies (on_close in crates/telemetry/src/layer.rs, EventTree, tool_calls_for_turn).
THEOREM SpansAreFaithful == Spec => []SpansFaithful
<1> DEFINE Inv == RuntimeTypes /\ WorkIInv /\ SpanTypes /\ SpanIInv
<1>1. Init => Inv BY RuntimeInit, SpansStart
<1>2. Inv /\ [Next]_vars => Inv' BY RuntimeStep, SpanStep
<1>3. Inv => SpansFaithful BY TreeHolds, CallsHold DEF SpansFaithful
<1> QED BY <1>1, <1>2, <1>3, PTL DEF Spec

=============================================================================
