---------------------------- MODULE QuotaProofs ----------------------------
(***************************************************************************)
(* Proofs about Quota.  The argument: every byte stored that the live      *)
(* sample does not show belongs to a write whose cost is in written and    *)
(* not below base.  It needs sums of costs over sets of requests, so the   *)
(* module begins with the facts about Costs.                               *)
(***************************************************************************)
EXTENDS Quota, FiniteSetTheorems, WellFoundedInduction, TLAPS

-----------------------------------------------------------------------------
(* Sums of costs. *)

Pick(s) == CHOOSE x \in s : TRUE

SumsTo(g, r, S) ==
  g = [s \in SUBSET S |-> IF s = {} THEN 0 ELSE r[Pick(s)].cost + g[s \ {Pick(s)}]]

(* A nonempty set of subsets of a finite set has a minimal one. *)
LEMMA MinimalSubset ==
  ASSUME NEW S, IsFiniteSet(S), NEW B, B \subseteq SUBSET S, B # {}
  PROVE  \E T \in B : \A U \in B : U \subseteq T => U = T
<1> DEFINE R == StrictSubsetOrdering(S)
<1>1. IsWellFoundedOn(R, SUBSET S)
  BY FS_StrictSubsetOrderingWellFounded, FS_FiniteSubsetsOfFinite
<1> HIDE DEF R
<1>2. PICK T \in B : \A U \in B : ~(<<U, T>> \in R)
  BY <1>1, WFMin
<1>3. ASSUME NEW U \in B, U \subseteq T, U # T PROVE <<U, T>> \in R
  BY <1>3 DEF R, StrictSubsetOrdering
<1>4. \A U \in B : U \subseteq T => U = T
  BY <1>2, <1>3, Zenon
<1>5. QED
  BY <1>4, Zenon

LEMMA PickIn == ASSUME NEW s, s # {} PROVE Pick(s) \in s
  BY DEF Pick

LEMMA SumUnique ==
  ASSUME NEW r, NEW S, IsFiniteSet(S), NEW T \in SUBSET S, NEW g, NEW h, SumsTo(g, r, S), SumsTo(h, r, T)
  PROVE  \A s \in SUBSET T : g[s] = h[s]
<1> DEFINE B == {s \in SUBSET T : g[s] # h[s]}
<1> SUFFICES ASSUME B # {} PROVE FALSE
  OBVIOUS
<1>1. PICK s \in B : \A u \in B : u \subseteq s => u = s
  <2>1. B \subseteq SUBSET S
    OBVIOUS
  <2> HIDE DEF B
  <2>2. QED
    BY <2>1, MinimalSubset
<1>2. s \in SUBSET S /\ s \in SUBSET T
  BY <1>1
<1>3. /\ g[s] = IF s = {} THEN 0 ELSE r[Pick(s)].cost + g[s \ {Pick(s)}]
      /\ h[s] = IF s = {} THEN 0 ELSE r[Pick(s)].cost + h[s \ {Pick(s)}]
  BY <1>2 DEF SumsTo
<1>4. s # {}
  BY <1>1, <1>3
<1>5. s \ {Pick(s)} \notin B
  BY <1>1, <1>4, PickIn
<1>6. g[s \ {Pick(s)}] = h[s \ {Pick(s)}]
  BY <1>2, <1>5
<1>7. QED
  BY <1>1, <1>3, <1>4, <1>6

LEMMA SumExists ==
  ASSUME NEW r, NEW S, IsFiniteSet(S)
  PROVE  \E g : SumsTo(g, r, S)
<1> DEFINE G(t) == CHOOSE g : SumsTo(g, r, t)
           B == {t \in SUBSET S : ~ \E g : SumsTo(g, r, t)}
<1> SUFFICES ASSUME B # {} PROVE FALSE
  OBVIOUS
<1>1. PICK T \in B : \A u \in B : u \subseteq T => u = T
  <2>1. B \subseteq SUBSET S
    OBVIOUS
  <2> HIDE DEF B
  <2>2. QED
    BY <2>1, MinimalSubset
<1>2. T \in SUBSET S /\ ~ \E g : SumsTo(g, r, T)
  BY <1>1
<1>3. ASSUME NEW u \in SUBSET T, u # T PROVE SumsTo(G(u), r, u) /\ IsFiniteSet(u)
  <2>1. u \notin B /\ u \in SUBSET S
    BY <1>1, <1>2, <1>3
  <2>2. QED
    BY <2>1, FS_Subset
<1> HIDE DEF G
<1> DEFINE g == [t \in SUBSET T |-> IF t = {} THEN 0 ELSE r[Pick(t)].cost + G(t \ {Pick(t)})[t \ {Pick(t)}]]
<1>4. ASSUME NEW u \in SUBSET T, u # T PROVE g[u] = G(u)[u]
  <2>1. CASE u = {}
    BY <1>3, <2>1 DEF SumsTo
  <2>2. CASE u # {}
    <3> DEFINE v == u \ {Pick(u)}
    <3>1. v \in SUBSET u /\ v \in SUBSET T /\ v # T
      BY <1>4
    <3>2. SumsTo(G(u), r, u) /\ SumsTo(G(v), r, v) /\ IsFiniteSet(u)
      BY <1>3, <1>4, <3>1
    <3>3. G(u)[v] = G(v)[v]
      BY <3>1, <3>2, SumUnique
    <3>4. G(u)[u] = r[Pick(u)].cost + G(u)[v]
      BY <2>2, <3>2 DEF SumsTo
    <3>5. g[u] = r[Pick(u)].cost + G(v)[v]
      BY <2>2
    <3>6. QED
      BY <3>3, <3>4, <3>5
  <2>3. QED
    BY <2>1, <2>2
<1>5. ASSUME NEW t \in SUBSET T
      PROVE  g[t] = IF t = {} THEN 0 ELSE r[Pick(t)].cost + g[t \ {Pick(t)}]
  <2>1. CASE t = {}
    BY <2>1
  <2>2. CASE t # {}
    <3> DEFINE u == t \ {Pick(t)}
    <3>1. u \in SUBSET T /\ u # T
      BY <2>2, PickIn
    <3>2. g[u] = G(u)[u]
      BY <1>4, <3>1
    <3>3. g[t] = r[Pick(t)].cost + G(u)[u]
      BY <2>2
    <3>4. QED
      BY <2>2, <3>2, <3>3
  <2>3. QED
    BY <2>1, <2>2
<1>6. g = [t \in SUBSET T |-> g[t]]
  OBVIOUS
<1> HIDE DEF g
<1>7. SumsTo(g, r, T)
  BY <1>5, <1>6 DEF SumsTo
<1>8. QED
  BY <1>2, <1>7

LEMMA CostsDef == ASSUME NEW r, NEW S PROVE Costs(r, S) = (CHOOSE g : SumsTo(g, r, S))[S]
  BY DEF Costs, MapThenSumSet, MapThenFoldSet, SumsTo, Pick

LEMMA CostsRec ==
  ASSUME NEW r, NEW S, IsFiniteSet(S)
  PROVE  Costs(r, S) = IF S = {} THEN 0 ELSE r[Pick(S)].cost + Costs(r, S \ {Pick(S)})
<1> DEFINE G(t) == CHOOSE g : SumsTo(g, r, t)
           v == S \ {Pick(S)}
<1>1. SumsTo(G(S), r, S)
  BY SumExists
<1>2. IsFiniteSet(v) /\ v \in SUBSET S
  BY FS_Subset
<1>3. SumsTo(G(v), r, v)
  BY <1>2, SumExists
<1>4. Costs(r, S) = G(S)[S] /\ Costs(r, v) = G(v)[v]
  BY CostsDef
<1> HIDE DEF G, v
<1>5. G(S)[v] = G(v)[v]
  BY <1>1, <1>2, <1>3, SumUnique
<1>6. G(S)[S] = IF S = {} THEN 0 ELSE r[Pick(S)].cost + G(S)[v]
  BY <1>1 DEF SumsTo, v
<1>7. QED
  BY <1>4, <1>5, <1>6 DEF v

LEMMA CostsType ==
  ASSUME NEW r, NEW S, IsFiniteSet(S), \A w \in S : r[w].cost \in Nat
  PROVE  Costs(r, S) \in Nat
<1> DEFINE B == {s \in SUBSET S : Costs(r, s) \notin Nat}
<1>1. ASSUME B # {} PROVE FALSE
  <2>1. PICK s \in B : \A u \in B : u \subseteq s => u = s
    <3>1. B \subseteq SUBSET S
      OBVIOUS
    <3> HIDE DEF B
    <3>2. QED
      BY <1>1, <3>1, MinimalSubset
  <2>2. IsFiniteSet(s) /\ s \in SUBSET S
    BY FS_Subset
  <2>3. CASE s = {}
    BY <2>1, <2>2, <2>3, CostsRec
  <2>4. CASE s # {}
    <3>1. Pick(s) \in s
      BY <2>4, PickIn
    <3>2. Costs(r, s \ {Pick(s)}) \in Nat
      BY <2>1, <2>2, <3>1
    <3>3. r[Pick(s)].cost \in Nat
      BY <2>2, <3>1
    <3>4. Costs(r, s) = r[Pick(s)].cost + Costs(r, s \ {Pick(s)})
      BY <2>2, <2>4, CostsRec
    <3>5. Costs(r, s) \in Nat
      BY <3>2, <3>3, <3>4
    <3>6. QED
      BY <2>1, <3>5
  <2>5. QED
    BY <2>3, <2>4
<1>2. QED
  BY <1>1

LEMMA CostsRemove ==
  ASSUME NEW r, NEW S, IsFiniteSet(S), \A w \in S : r[w].cost \in Nat, NEW x \in S
  PROVE  Costs(r, S) = r[x].cost + Costs(r, S \ {x})
<1> DEFINE B == {s \in SUBSET S : \E y \in s : Costs(r, s) # r[y].cost + Costs(r, s \ {y})}
<1>1. ASSUME B # {} PROVE FALSE
  <2>1. PICK s \in B : \A u \in B : u \subseteq s => u = s
    <3>1. B \subseteq SUBSET S
      OBVIOUS
    <3> HIDE DEF B
    <3>2. QED
      BY <1>1, <3>1, MinimalSubset
  <2>2. PICK y \in s : Costs(r, s) # r[y].cost + Costs(r, s \ {y})
    BY <2>1
  <2>3. s \in SUBSET S /\ IsFiniteSet(s) /\ IsFiniteSet(s \ {y}) /\ IsFiniteSet(s \ {Pick(s)})
    BY FS_Subset
  <2> DEFINE p == Pick(s)
             rest == s \ {y, p}
  <2>4. p \in s /\ Costs(r, s) = r[p].cost + Costs(r, s \ {p})
    BY <2>2, <2>3, PickIn, CostsRec
  <2>5. y # p
    BY <2>2, <2>4
  <2>6. (s \ {p}) \notin B /\ (s \ {y}) \notin B
    BY <2>1, <2>2, <2>4
  <2> HIDE DEF p
  <2>7. Costs(r, s \ {p}) = r[y].cost + Costs(r, (s \ {p}) \ {y})
    BY <2>2, <2>3, <2>5, <2>6
  <2>8. Costs(r, s \ {y}) = r[p].cost + Costs(r, (s \ {y}) \ {p})
    BY <2>3, <2>4, <2>5, <2>6
  <2>9. (s \ {p}) \ {y} = rest /\ (s \ {y}) \ {p} = rest
    OBVIOUS
  <2>10. Costs(r, rest) \in Nat /\ r[y].cost \in Nat /\ r[p].cost \in Nat
    <3>1. IsFiniteSet(rest) /\ rest \subseteq S
      BY <2>3, FS_Subset
    <3>2. QED
      BY <2>2, <2>3, <2>4, <3>1, CostsType
  <2> HIDE DEF rest, B
  <2>11. Costs(r, s) = r[y].cost + Costs(r, s \ {y})
    <3>1. Costs(r, s) = r[p].cost + (r[y].cost + Costs(r, rest))
      BY <2>4, <2>7, <2>9
    <3>2. Costs(r, s \ {y}) = r[p].cost + Costs(r, rest)
      BY <2>8, <2>9
    <3> DEFINE a == r[p].cost
               b == r[y].cost
               c == Costs(r, rest)
    <3>3. a \in Nat /\ b \in Nat /\ c \in Nat
      BY <2>10
    <3> HIDE DEF a, b, c
    <3>4. a + (b + c) = b + (a + c)
      BY <3>3
    <3>5. QED
      BY <3>1, <3>2, <3>4 DEF a, b, c
  <2>12. QED
    BY <2>2, <2>11
<1>2. QED
  BY <1>1

LEMMA CostsSame ==
  ASSUME NEW r, NEW q, NEW S, IsFiniteSet(S), \A w \in S : r[w].cost = q[w].cost
  PROVE  Costs(r, S) = Costs(q, S)
<1> DEFINE B == {s \in SUBSET S : Costs(r, s) # Costs(q, s)}
<1>1. ASSUME B # {} PROVE FALSE
  <2>1. PICK s \in B : \A u \in B : u \subseteq s => u = s
    <3>1. B \subseteq SUBSET S
      OBVIOUS
    <3> HIDE DEF B
    <3>2. QED
      BY <1>1, <3>1, MinimalSubset
  <2>2. IsFiniteSet(s) /\ s \in SUBSET S
    BY FS_Subset
  <2>3. CASE s = {}
    BY <2>1, <2>2, <2>3, CostsRec
  <2>4. CASE s # {}
    <3>1. Pick(s) \in s
      BY <2>4, PickIn
    <3>2. Costs(r, s \ {Pick(s)}) = Costs(q, s \ {Pick(s)})
      BY <2>1, <2>2, <3>1
    <3>3. r[Pick(s)].cost = q[Pick(s)].cost
      BY <2>2, <3>1
    <3>4. /\ Costs(r, s) = r[Pick(s)].cost + Costs(r, s \ {Pick(s)})
          /\ Costs(q, s) = q[Pick(s)].cost + Costs(q, s \ {Pick(s)})
      BY <2>2, <2>4, CostsRec
    <3>5. QED
      BY <2>1, <3>2, <3>3, <3>4
  <2>5. QED
    BY <2>3, <2>4
<1>2. QED
  BY <1>1

LEMMA CostsUnion ==
  ASSUME NEW r, NEW S, NEW T, IsFiniteSet(S), IsFiniteSet(T), S \cap T = {},
         \A w \in S \cup T : r[w].cost \in Nat
  PROVE  Costs(r, S \cup T) = Costs(r, S) + Costs(r, T)
<1> DEFINE B == {s \in SUBSET S : Costs(r, s \cup T) # Costs(r, s) + Costs(r, T)}
<1>1. ASSUME B # {} PROVE FALSE
  <2>1. PICK s \in B : \A u \in B : u \subseteq s => u = s
    <3>1. B \subseteq SUBSET S
      OBVIOUS
    <3> HIDE DEF B
    <3>2. QED
      BY <1>1, <3>1, MinimalSubset
  <2>2. IsFiniteSet(s) /\ s \in SUBSET S /\ Costs(r, T) \in Nat
    BY FS_Subset, CostsType
  <2>3. CASE s = {}
    <3>1. Costs(r, s) = 0 /\ s \cup T = T
      BY <2>2, <2>3, CostsRec
    <3>2. Costs(r, s \cup T) # Costs(r, s) + Costs(r, T)
      BY <2>1
    <3>3. Costs(r, T) # 0 + Costs(r, T)
      BY <3>1, <3>2
    <3> DEFINE c == Costs(r, T)
    <3>4. c \in Nat
      BY <2>2
    <3> HIDE DEF c, B
    <3>5. c = 0 + c
      BY <3>4
    <3>6. QED
      BY <3>3, <3>5 DEF c
  <2>4. CASE s # {}
    <3>1. PICK x \in s : TRUE
      BY <2>4
    <3> DEFINE u == s \ {x}
    <3>2. u \in SUBSET S /\ u # s /\ u \subseteq s
      BY <2>2, <3>1
    <3>3. Costs(r, u \cup T) = Costs(r, u) + Costs(r, T)
      BY <2>1, <3>2
    <3>4. Costs(r, s) = r[x].cost + Costs(r, u)
      BY <2>2, CostsRemove
    <3>5. IsFiniteSet(s \cup T) /\ IsFiniteSet(u)
      BY <2>2, FS_Union, FS_Subset
    <3>6. (s \cup T) \ {x} = u \cup T
      BY <2>2
    <3>7. Costs(r, s \cup T) = r[x].cost + Costs(r, u \cup T)
      <4>1. x \in s \cup T /\ \A w \in s \cup T : r[w].cost \in Nat
        BY <2>2
      <4>2. Costs(r, s \cup T) = r[x].cost + Costs(r, (s \cup T) \ {x})
        BY <3>5, <4>1, CostsRemove
      <4>3. QED
        BY <3>6, <4>2
    <3>8. Costs(r, u) \in Nat /\ r[x].cost \in Nat
      BY <2>2, <3>5, CostsType
    <3>9. Costs(r, s \cup T) # Costs(r, s) + Costs(r, T)
      BY <2>1
    <3> HIDE DEF u, B
    <3> DEFINE a == r[x].cost
               b == Costs(r, u)
               c == Costs(r, T)
    <3>10. a \in Nat /\ b \in Nat /\ c \in Nat
      BY <2>2, <3>8
    <3> HIDE DEF a, b, c
    <3>11. a + (b + c) = (a + b) + c
      BY <3>10
    <3>12. QED
      BY <3>3, <3>4, <3>7, <3>9, <3>11 DEF a, b, c
  <2>5. QED
    BY <2>3, <2>4
<1>2. QED
  BY <1>1

-----------------------------------------------------------------------------
(* The inductive invariant. *)

(* No key is ahead of the newest row, and one without a live row has no old value. *)
RowInv ==
  \A k \in Keys : row[k].rev <= revision /\ (row[k].rev = 0 => row[k].size = 0)

(* What a lane has charged a request covers the row it would write now. *)
Charged(r) ==
  /\ r.lane = "create" => r.rev = 0 /\ r.cost = KeyLen + r.val
  /\ r.lane \in {"control", "cleanup"} =>
       r.rev > 0 /\ r.rev <= revision /\ (canWrite(r) => rowBytes(r) <= r.cost)

(* A request at a revision that is no longer its key's, never to be again. *)
Lost(r) == r.rev > 0 /\ r.rev <= revision /\ ~canWrite(r)

RequestInv(r) ==
  /\ r.st \in {"live", "reserve", "giveback", "admit"} => KeyLen + r.val > 0
  /\ r.st \in {"live", "reserve"} => r.cost > 0
  /\ r.st = "admit" => r.lane = "below"
  /\ r.st \in {"live", "reserve", "call"} => Charged(r)
  /\ r.st = "call" => r.cost > 0 \/ r.ahead \/ Lost(r)

(* written is what is committed and what requests hold. *)
Balance == written = committed + Costs(req, Holding)

(* The bases and marks are ordered as the samples they come from. *)
MarksOrdered ==
  base <= marks[1] /\ marks[1] <= marks[2] /\ marks[2] <= sampler.mark /\ sampler.mark <= committed

(* What covers the stored bytes: committed costs, written rows that are not
   settled yet, and the rows the code does not count. *)
Wrote == {w \in Writers : req[w].st = "settle" /\ req[w].wrote}
Credit == committed + Costs(req, Wrote) + uncounted

(* The rows of the last intervals were credited after the marks of these. *)
YoungCovered ==
  /\ Stored + base <= live + Credit
  /\ sampler.st = "advance" => Stored + marks[1] <= live + Credit
  /\ IF sampler.st = "idle"
     THEN /\ young[1] + marks[2] <= Credit
          /\ young[1] + young[2] + marks[1] <= Credit
          /\ young[1] + young[2] + young[3] + base <= Credit
     ELSE /\ young[1] + sampler.mark <= Credit
          /\ young[1] + young[2] + marks[2] <= Credit
          /\ young[1] + young[2] + young[3] + marks[1] <= Credit

(* A figure that is half loaded is not low either. *)
LoadedCovers(r) ==
  /\ r.st = "live" => r.base <= base
  /\ r.st = "reserve" => Stored + r.base <= r.live + Credit

(* That needs an interval between samples. *)
Covered == YoungCovered /\ \A w \in Writers : LoadedCovers(req[w])

QuotaInv ==
  /\ TypeOK /\ RowInv /\ Balance /\ MarksOrdered
  /\ \A w \in Writers : RequestInv(req[w])
  /\ ~CloseTicks => Covered

-----------------------------------------------------------------------------
(* Requests and the sums over them. *)

Requests == [st : {"idle", "live", "reserve", "giveback", "admit", "call", "settle"},
             lane : {"below", "create", "control", "cleanup"}, key : Keys, val : Nat,
             rev : Nat, ahead : BOOLEAN, cost : Nat, base : Nat, live : Nat, wrote : BOOLEAN]

(* What a request counts in Holding, and in Wrote. *)
held(r) == IF r.st \in {"giveback", "call", "settle"} THEN r.cost ELSE 0
wroteCost(r) == IF r.st = "settle" /\ r.wrote THEN r.cost ELSE 0

(* The sum over a set of requests has the type of a cost. *)
LEMMA CostsNat ==
  ASSUME NEW r \in [Writers -> Requests], NEW S \in SUBSET Writers
  PROVE  IsFiniteSet(S) /\ Costs(r, S) \in Nat
<1>1. IsFiniteSet(S)
  BY FS_Subset, QuotaAssumption
<1>2. \A w \in S : r[w].cost \in Nat
  BY DEF Requests
<1>3. QED
  BY <1>1, <1>2, CostsType

(* One request changes: both sums are a sum over the others and its own cost. *)
LEMMA CostsMoved ==
  ASSUME NEW r \in [Writers -> Requests], NEW q \in [Writers -> Requests], NEW w \in Writers,
         \A x \in Writers \ {w} : q[x] = r[x],
         NEW S \in SUBSET Writers, NEW T \in SUBSET Writers, S \ {w} = T \ {w}
  PROVE  \E c \in Nat : /\ Costs(r, S) = c + (IF w \in S THEN r[w].cost ELSE 0)
                        /\ Costs(q, T) = c + (IF w \in T THEN q[w].cost ELSE 0)
<1> DEFINE R == S \ {w}
           c == Costs(r, R)
<1>1. R \in SUBSET Writers
  OBVIOUS
<1>2. c \in Nat /\ r[w].cost \in Nat /\ q[w].cost \in Nat
  <2>1. c \in Nat
    BY <1>1, CostsNat
  <2>2. QED
    BY <2>1 DEF Requests
<1>3. Costs(q, R) = c
  <2>1. IsFiniteSet(R)
    BY <1>1, CostsNat
  <2>2. \A x \in R : r[x].cost = q[x].cost
    OBVIOUS
  <2> HIDE DEF R
  <2>3. Costs(r, R) = Costs(q, R)
    BY <2>1, <2>2, CostsSame
  <2>4. QED
    BY <2>3
<1>4. Costs(r, S) = c + (IF w \in S THEN r[w].cost ELSE 0)
  <2>1. CASE w \in S
    <3>1. IsFiniteSet(S) /\ \A x \in S : r[x].cost \in Nat
      BY CostsNat DEF Requests
    <3>2. Costs(r, S) = r[w].cost + c
      BY <2>1, <3>1, CostsRemove
    <3> HIDE DEF c
    <3>3. QED
      BY <1>2, <2>1, <3>2
  <2>2. CASE w \notin S
    <3>1. R = S
      BY <2>2
    <3>2. Costs(r, S) = c
      BY <3>1
    <3> HIDE DEF c
    <3>3. QED
      BY <1>2, <2>2, <3>2
  <2>3. QED
    BY <2>1, <2>2
<1>5. Costs(q, T) = c + (IF w \in T THEN q[w].cost ELSE 0)
  <2>1. CASE w \in T
    <3>1. IsFiniteSet(T) /\ \A x \in T : q[x].cost \in Nat
      BY <1>1, CostsNat DEF Requests
    <3>2. Costs(q, T) = q[w].cost + Costs(q, T \ {w})
      BY <2>1, <3>1, CostsRemove
    <3>3. Costs(q, T \ {w}) = c
      BY <1>3
    <3> HIDE DEF c
    <3>4. QED
      BY <1>1, <1>2, <2>1, <3>2, <3>3
  <2>2. CASE w \notin T
    <3>1. R = T
      BY <2>2
    <3>2. Costs(q, T) = c
      BY <1>3, <3>1
    <3> HIDE DEF c
    <3>3. QED
      BY <1>2, <2>2, <3>2
  <2>3. QED
    BY <2>1, <2>2
<1> HIDE DEF c
<1>6. QED
  BY <1>2, <1>4, <1>5

LEMMA SumsTyped ==
  ASSUME TypeOK
  PROVE  /\ req \in [Writers -> Requests]
         /\ Costs(req, Holding) \in Nat /\ Costs(req, Wrote) \in Nat /\ Credit \in Nat
<1>1. req \in [Writers -> Requests]
  BY DEF TypeOK, Requests
<1>2. Holding \in SUBSET Writers /\ Wrote \in SUBSET Writers
  BY DEF Holding, Wrote
<1>3. Costs(req, Holding) \in Nat /\ Costs(req, Wrote) \in Nat
  BY <1>1, <1>2, CostsNat
<1>4. committed \in Nat /\ uncounted \in Nat
  BY DEF TypeOK
<1>5. QED
  BY <1>1, <1>3, <1>4 DEF Credit

(* A step of one request moves its own costs in the sums and no other. *)
LEMMA SumsMoved ==
  ASSUME TypeOK, NEW w \in Writers, NEW v \in Requests,
         req' \in [Writers -> Requests], req'[w] = v, \A x \in Writers \ {w} : req'[x] = req[x]
  PROVE  /\ Costs(req', Holding') \in Nat /\ Costs(req', Wrote') \in Nat
         /\ Costs(req', Holding') - held(v) = Costs(req, Holding) - held(req[w])
         /\ Costs(req', Wrote') - wroteCost(v) = Costs(req, Wrote) - wroteCost(req[w])
<1>1. req \in [Writers -> Requests]
  BY SumsTyped
<1>2. /\ Holding \in SUBSET Writers /\ Holding' \in SUBSET Writers
      /\ Wrote \in SUBSET Writers /\ Wrote' \in SUBSET Writers
  BY DEF Holding, Wrote
<1>3. Holding \ {w} = Holding' \ {w} /\ Wrote \ {w} = Wrote' \ {w}
  BY <1>1 DEF Holding, Wrote
<1>4. PICK h \in Nat : /\ Costs(req, Holding) = h + (IF w \in Holding THEN req[w].cost ELSE 0)
                       /\ Costs(req', Holding') = h + (IF w \in Holding' THEN req'[w].cost ELSE 0)
  BY <1>1, <1>2, <1>3, CostsMoved
<1>5. PICK x \in Nat : /\ Costs(req, Wrote) = x + (IF w \in Wrote THEN req[w].cost ELSE 0)
                       /\ Costs(req', Wrote') = x + (IF w \in Wrote' THEN req'[w].cost ELSE 0)
  BY <1>1, <1>2, <1>3, CostsMoved
<1>6. /\ (w \in Holding) <=> req[w].st \in {"giveback", "call", "settle"}
      /\ (w \in Holding') <=> v.st \in {"giveback", "call", "settle"}
      /\ (w \in Wrote) <=> (req[w].st = "settle" /\ req[w].wrote)
      /\ (w \in Wrote') <=> (v.st = "settle" /\ v.wrote)
  BY <1>1 DEF Holding, Wrote
<1>7. v.cost \in Nat /\ req[w].cost \in Nat
  BY <1>1 DEF Requests
<1>8. /\ Costs(req, Holding) = h + held(req[w]) /\ Costs(req', Holding') = h + held(v)
      /\ Costs(req, Wrote) = x + wroteCost(req[w]) /\ Costs(req', Wrote') = x + wroteCost(v)
  BY <1>1, <1>4, <1>5, <1>6 DEF held, wroteCost
<1>9. held(v) \in Nat /\ held(req[w]) \in Nat /\ wroteCost(v) \in Nat /\ wroteCost(req[w]) \in Nat
  BY <1>7 DEF held, wroteCost
<1>10. QED
  BY <1>8, <1>9

-----------------------------------------------------------------------------
(* What steps do to the parts of the invariant. *)

(* The young rows grow by b, and the credit by b at least. *)
LEMMA Grown ==
  ASSUME TypeOK, NEW b \in Nat, Credit' \in Nat, Credit' >= Credit + b,
         old' = old, young' \in Nat \X Nat \X Nat,
         young'[1] = young[1] + b, young'[2] = young[2], young'[3] = young[3],
         UNCHANGED <<live, base, marks, sampler>>
  PROVE  Stored' = Stored + b /\ (YoungCovered => YoungCovered')
<1>1. /\ live \in Nat /\ base \in Nat /\ marks[1] \in Nat /\ marks[2] \in Nat /\ sampler.mark \in Nat
      /\ old \in Nat /\ young[1] \in Nat /\ young[2] \in Nat /\ young[3] \in Nat
  BY DEF TypeOK
<1>2. Credit \in Nat
  BY SumsTyped
<1>3. Stored' = Stored + b /\ Stored \in Nat
  BY <1>1 DEF Stored
<1> SUFFICES ASSUME YoungCovered PROVE YoungCovered'
  BY <1>3
<1>4. Stored' + base' <= live' + Credit'
  <2>1. Stored + base <= live + Credit
    BY DEF YoungCovered
  <2>2. PICK d \in Nat : d = Credit' /\ Credit + b <= d
    OBVIOUS
  <2>3. Stored + b + base <= live + d
    <3>1. Credit + b <= d
      BY <2>2
    <3>2. live \in Nat /\ base \in Nat /\ Stored \in Nat
      BY <1>1, <1>3
    <3>3. QED
      BY <1>2, <2>1, <3>1, <3>2
  <2>4. QED
    BY <1>3, <2>2, <2>3
<1>5. sampler'.st = "advance" => Stored' + marks'[1] <= live' + Credit'
  BY <1>1, <1>2, <1>3 DEF YoungCovered
<1>6. CASE sampler.st = "idle"
  <2>1. /\ young'[1] + marks[2] <= Credit'
        /\ young'[1] + young'[2] + marks[1] <= Credit'
        /\ young'[1] + young'[2] + young'[3] + base <= Credit'
    BY <1>1, <1>2, <1>6 DEF YoungCovered
  <2>2. QED
    BY <1>3, <1>4, <1>5, <1>6, <2>1 DEF YoungCovered
<1>7. CASE sampler.st # "idle"
  <2>1. /\ young'[1] + sampler.mark <= Credit'
        /\ young'[1] + young'[2] + marks[2] <= Credit'
        /\ young'[1] + young'[2] + young'[3] + marks[1] <= Credit'
    BY <1>1, <1>2, <1>7 DEF YoungCovered
  <2>2. QED
    BY <1>3, <1>4, <1>5, <1>7, <2>1 DEF YoungCovered
<1>8. QED
  BY <1>6, <1>7

(* A request whose bytes stored, reserved and committed are accounted for keeps the invariant. *)
LEMMA RequestMoves ==
  ASSUME QuotaInv, NEW w \in Writers, NEW v \in Requests, Step(w, v), NEW b \in Nat,
         UNCHANGED <<live, base, marks, sampler>>,
         old' = old, young' \in Nat \X Nat \X Nat,
         young'[1] = young[1] + b, young'[2] = young[2], young'[3] = young[3],
         committed' \in Nat, committed' >= committed, uncounted' \in Nat, written' \in Int,
         written' - committed' - held(v) = written - committed - held(req[w]),
         committed' + wroteCost(v) + uncounted' >= committed + wroteCost(req[w]) + uncounted + b,
         row' \in [Keys -> [rev : 0 .. MaxRev, size : Nat]], revision' \in 0 .. MaxRev, RowInv',
         \A x \in Writers \ {w} : RequestInv(req[x]) => RequestInv(req[x])', RequestInv(v)',
         v.st = "live" => v.base <= base,
         v.st = "reserve" /\ ~CloseTicks => Stored + v.base <= v.live + Credit
  PROVE  QuotaInv'
<1>1. TypeOK /\ Balance /\ MarksOrdered /\ (~CloseTicks => Covered)
      /\ \A x \in Writers : RequestInv(req[x])
  BY DEF QuotaInv
<1>2. /\ req \in [Writers -> Requests] /\ Costs(req, Holding) \in Nat /\ Costs(req, Wrote) \in Nat
      /\ Credit \in Nat
  BY <1>1, SumsTyped
<1>3. /\ req' \in [Writers -> Requests] /\ req'[w] = v
      /\ \A x \in Writers \ {w} : req'[x] = req[x]
  BY <1>2 DEF Step
<1>4. /\ Costs(req', Holding') \in Nat /\ Costs(req', Wrote') \in Nat
      /\ Costs(req', Holding') - held(v) = Costs(req, Holding) - held(req[w])
      /\ Costs(req', Wrote') - wroteCost(v) = Costs(req, Wrote) - wroteCost(req[w])
  <2> HIDE DEF Step
  <2>1. QED
    BY <1>1, <1>3, SumsMoved
<1>5. held(v) \in Nat /\ held(req[w]) \in Nat /\ wroteCost(v) \in Nat /\ wroteCost(req[w]) \in Nat
  BY <1>2 DEF held, wroteCost, Requests
<1>6. committed \in Nat /\ uncounted \in Nat /\ written \in Nat /\ base \in Nat /\ live \in Nat
  BY <1>1 DEF TypeOK
<1>7. written' = committed' + Costs(req', Holding') /\ written' \in Nat
  <2> DEFINE h == Costs(req, Holding)
             h2 == Costs(req', Holding')
  <2>1. written = committed + h
    BY <1>1 DEF Balance
  <2>2. h \in Nat /\ h2 \in Nat /\ h2 - held(v) = h - held(req[w])
    BY <1>2, <1>4
  <2> HIDE DEF h, h2
  <2>3. written' = committed' + h2
    BY <1>5, <1>6, <2>1, <2>2
  <2>4. QED
    BY <2>2, <2>3 DEF h2
<1>8. Credit' \in Nat /\ Credit' >= Credit + b
  <2> DEFINE x == Costs(req, Wrote)
             x2 == Costs(req', Wrote')
  <2>1. x \in Nat /\ x2 \in Nat /\ x2 - wroteCost(v) = x - wroteCost(req[w])
    BY <1>2, <1>4
  <2>2. Credit = committed + x + uncounted /\ Credit' = committed' + x2 + uncounted'
    BY DEF Credit
  <2> HIDE DEF x, x2
  <2> DEFINE y == wroteCost(req[w])
             y2 == wroteCost(v)
  <2>3. /\ y \in Nat /\ y2 \in Nat /\ x2 = x - y + y2
        /\ committed' + y2 + uncounted' >= committed + y + uncounted + b
    BY <1>5, <2>1
  <2> HIDE DEF y, y2
  <2>4. committed' + x2 + uncounted' >= committed + x + uncounted + b
    <3>1. PICK c2 \in Nat, u2 \in Nat, z2 \in Nat : c2 = committed' /\ u2 = uncounted' /\ z2 = x2
      BY <2>1
    <3>2. c2 + y2 + u2 >= committed + y + uncounted + b /\ z2 = x - y + y2
      BY <2>3, <3>1
    <3>3. c2 + z2 + u2 >= committed + x + uncounted + b
      BY <1>6, <2>1, <2>3, <3>2
    <3>4. QED
      BY <3>1, <3>3
  <2>5. committed' + x2 + uncounted' \in Nat
    <3>1. PICK c2 \in Nat, u2 \in Nat, z2 \in Nat : c2 = committed' /\ u2 = uncounted' /\ z2 = x2
      BY <2>1
    <3>2. c2 + z2 + u2 \in Nat
      OBVIOUS
    <3>3. QED
      BY <3>1, <3>2
  <2>6. QED
    BY <2>2, <2>4, <2>5
<1>9. Stored' = Stored + b /\ (YoungCovered => YoungCovered')
  BY <1>1, <1>8, Grown
<1>10. MarksOrdered'
  <2>1. sampler.mark \in Nat
    BY <1>1 DEF TypeOK
  <2>2. QED
    BY <1>1, <1>6, <2>1 DEF MarksOrdered
<1>11. Balance'
  BY <1>7 DEF Balance
<1>12. TypeOK'
  BY <1>1, <1>3, <1>7 DEF TypeOK, Requests
<1>13. Stored \in Nat
  BY <1>1 DEF TypeOK, Stored
<1>14. ASSUME NEW x \in Writers PROVE RequestInv(req[x])'
  BY <1>1, <1>3
<1>15. ASSUME ~CloseTicks, NEW x \in Writers PROVE LoadedCovers(req[x])'
  <2>1. CASE x = w
    <3>1. v.base \in Nat /\ v.live \in Nat
      BY DEF Requests
    <3>2. QED
      BY <1>2, <1>3, <1>6, <1>8, <1>9, <1>13, <1>15, <2>1, <3>1 DEF LoadedCovers
  <2>2. CASE x # w
    <3>1. req'[x] = req[x] /\ req[x].base \in Nat /\ req[x].live \in Nat /\ LoadedCovers(req[x])
      BY <1>1, <1>2, <1>3, <1>15, <2>2 DEF Requests, Covered
    <3>2. QED
      BY <1>2, <1>6, <1>8, <1>9, <1>13, <3>1 DEF LoadedCovers
  <2>3. QED
    BY <2>1, <2>2
<1>16. ~CloseTicks => Covered'
  BY <1>1, <1>9, <1>15 DEF Covered
<1>17. QED
  BY <1>10, <1>11, <1>12, <1>14, <1>16 DEF QuotaInv

(* A step that leaves the database and the atomics alone. *)
LEMMA RequestQuiet ==
  ASSUME QuotaInv, NEW w \in Writers, NEW v \in Requests, Step(w, v),
         UNCHANGED <<atomics, marks, sampler, database>>,
         held(v) = held(req[w]), wroteCost(v) >= wroteCost(req[w]), RequestInv(v),
         v.st = "live" => v.base <= base,
         v.st = "reserve" /\ ~CloseTicks => Stored + v.base <= v.live + Credit
  PROVE  QuotaInv'
<1>1. TypeOK /\ RowInv /\ req \in [Writers -> Requests]
  BY SumsTyped DEF QuotaInv
<1>2. /\ UNCHANGED <<live, written, committed, base, marks, sampler>>
      /\ UNCHANGED <<row, revision, old, young, uncounted>>
  BY DEF atomics, database
<1>3. /\ young' \in Nat \X Nat \X Nat /\ young'[1] = young[1] + 0 /\ young'[2] = young[2] /\ young'[3] = young[3]
      /\ committed' \in Nat /\ committed' >= committed /\ uncounted' \in Nat /\ written' \in Int
      /\ row' \in [Keys -> [rev : 0 .. MaxRev, size : Nat]] /\ revision' \in 0 .. MaxRev
  BY <1>1, <1>2 DEF TypeOK
<1>4. wroteCost(v) \in Nat /\ wroteCost(req[w]) \in Nat /\ held(v) \in Nat
  BY <1>1 DEF Requests, wroteCost, held
<1>5. /\ written' - committed' - held(v) = written - committed - held(req[w])
      /\ committed' + wroteCost(v) + uncounted' >= committed + wroteCost(req[w]) + uncounted + 0
  BY <1>1, <1>2, <1>4 DEF TypeOK
<1>6. RowInv'
  BY <1>1, <1>2 DEF RowInv
<1>7. \A r \in Requests : RequestInv(r) => RequestInv(r)'
  BY <1>2 DEF RequestInv, Charged, Lost, canWrite, rowBytes
<1>8. \A x \in Writers \ {w} : req[x] \in Requests /\ req'[x] = req[x]
  BY <1>1 DEF Step
<1>9. \A x \in Writers \ {w} : RequestInv(req[x]) => RequestInv(req[x])'
  BY <1>2, <1>8 DEF RequestInv, Charged, Lost, canWrite, rowBytes
<1>10. QED
  BY <1>2, <1>3, <1>5, <1>6, <1>7, <1>9, RequestMoves

(* A new row has a new revision or none: what was charged by an older one cannot write any more. *)
LEMMA RowsInserted ==
  ASSUME TypeOK, RowInv, NEW k \in Keys, NEW rv \in {0, revision + 1}, NEW z \in Nat, rv = 0 => z = 0,
         NEW b \in Nat, insertRow(k, rv, z, b)
  PROVE  /\ old' = old /\ young' \in Nat \X Nat \X Nat
         /\ young'[1] = young[1] + b /\ young'[2] = young[2] /\ young'[3] = young[3]
         /\ row' \in [Keys -> [rev : 0 .. MaxRev, size : Nat]] /\ revision' \in 0 .. MaxRev
         /\ RowInv'
         /\ \A r \in Requests : RequestInv(r) => RequestInv(r)'
<1>1. /\ revision \in Nat /\ MaxRev \in Nat /\ revision < MaxRev /\ revision' = revision + 1
      /\ row \in [Keys -> [rev : 0 .. MaxRev, size : Nat]]
  BY QuotaAssumption DEF TypeOK, insertRow
<1>2. old' = old /\ young' = [young EXCEPT ![1] = @ + b] /\ young \in Nat \X Nat \X Nat
  BY DEF TypeOK, insertRow
<1>3. /\ young' \in Nat \X Nat \X Nat
      /\ young'[1] = young[1] + b /\ young'[2] = young[2] /\ young'[3] = young[3]
  BY <1>2
<1>4. rv \in 0 .. MaxRev /\ rv <= revision + 1
  BY <1>1
<1>5. row' = [row EXCEPT ![k] = [rev |-> rv, size |-> z]]
  BY DEF insertRow
<1>6. row' \in [Keys -> [rev : 0 .. MaxRev, size : Nat]] /\ revision' \in 0 .. MaxRev
  BY <1>1, <1>4, <1>5
<1>7. row'[k].rev = rv /\ row'[k].size = z /\ \A l \in Keys \ {k} : row'[l] = row[l]
  BY <1>1, <1>5
<1>8. RowInv'
  <2>1. ASSUME NEW l \in Keys PROVE row'[l].rev <= revision' /\ (row'[l].rev = 0 => row'[l].size = 0)
    <3>1. CASE l = k
      BY <1>1, <1>4, <1>7, <3>1
    <3>2. CASE l # k
      <4>1. row'[l] = row[l] /\ row[l].rev \in Nat /\ row[l].rev <= revision
            /\ (row[l].rev = 0 => row[l].size = 0)
        BY <1>1, <1>7, <3>2 DEF RowInv
      <4>2. QED
        BY <1>1, <4>1
    <3>3. QED
      BY <3>1, <3>2
  <2>2. QED
    BY <2>1 DEF RowInv
<1>9. ASSUME NEW r \in Requests, RequestInv(r) PROVE RequestInv(r)'
  <2>1. r.rev \in Nat /\ r.key \in Keys
    BY DEF Requests
  <2>2. r.rev <= revision => r.rev <= revision' /\ r.rev # revision + 1
    BY <1>1, <2>1
  <2>3. Lost(r) => Lost(r)'
    BY <1>7, <2>1, <2>2 DEF Lost, canWrite
  <2>4. r.rev > 0 /\ r.rev <= revision /\ canWrite(r)' => canWrite(r) /\ rowBytes(r)' = rowBytes(r)
    BY <1>7, <2>1, <2>2 DEF canWrite, rowBytes
  <2>5. Charged(r) => Charged(r)'
    BY <2>2, <2>4 DEF Charged
  <2>6. QED
    BY <1>9, <2>3, <2>5 DEF RequestInv
<1>10. QED
  BY <1>2, <1>3, <1>6, <1>8, <1>9

LEMMA IdleTyped ==
  Idle \in Requests
<1>1. (CHOOSE k \in Keys : TRUE) \in Keys
  BY QuotaAssumption
<1>2. QED
  BY <1>1 DEF Idle, Requests

(* A request in its call that inserts its row and goes on to settle. *)
LEMMA RequestInserts ==
  ASSUME QuotaInv, NEW w \in Writers, req[w].st = "call", canWrite(req[w]), NEW wrote \in BOOLEAN,
         Step(w, settling(req[w], wrote)),
         insertRow(req[w].key, revision + 1, req[w].val, rowBytes(req[w])),
         UNCHANGED <<atomics, marks, sampler>>, uncounted' \in Nat,
         (IF wrote THEN req[w].cost ELSE 0) + uncounted' >= uncounted + rowBytes(req[w])
  PROVE  QuotaInv'
<1> DEFINE r == req[w]
<1>1. TypeOK /\ RowInv /\ req \in [Writers -> Requests] /\ KeyLen \in Nat
  BY SumsTyped, QuotaAssumption DEF QuotaInv
<1>2. /\ r \in Requests /\ r.key \in Keys /\ r.val \in Nat /\ r.cost \in Nat
      /\ revision + 1 # 0 /\ rowBytes(r) \in Nat
  BY <1>1 DEF TypeOK, Requests, rowBytes
<1>3. PICK v \in Requests :
         /\ v = settling(req[w], wrote)
         /\ v.st = "settle" /\ v.cost = r.cost /\ v.wrote = wrote /\ v.rev = 0
  <2>1. settling(r, wrote) \in Requests
    BY <1>2, IdleTyped DEF Requests, settling
  <2>2. /\ settling(r, wrote).st = "settle" /\ settling(r, wrote).cost = r.cost
        /\ settling(r, wrote).wrote = wrote /\ settling(r, wrote).rev = 0
    BY DEF settling, Idle
  <2>3. QED
    BY <2>1, <2>2
<1>4. /\ old' = old /\ young' \in Nat \X Nat \X Nat
      /\ young'[1] = young[1] + rowBytes(r) /\ young'[2] = young[2] /\ young'[3] = young[3]
      /\ row' \in [Keys -> [rev : 0 .. MaxRev, size : Nat]] /\ revision' \in 0 .. MaxRev
      /\ RowInv'
      /\ \A q \in Requests : RequestInv(q) => RequestInv(q)'
  BY <1>1, <1>2, RowsInserted
<1>5. UNCHANGED <<live, base, marks, sampler, written, committed>>
  BY DEF atomics
<1>6. held(v) = held(r) /\ wroteCost(r) = 0 /\ wroteCost(v) = IF wrote THEN r.cost ELSE 0
  BY <1>3 DEF held, wroteCost
<1>7. committed' \in Nat /\ committed' >= committed /\ written' \in Int /\ uncounted \in Nat
  BY <1>1, <1>5 DEF TypeOK
<1>8. written' - committed' - held(v) = written - committed - held(r)
  BY <1>5, <1>6
<1>9. committed' + wroteCost(v) + uncounted' >= committed + wroteCost(r) + uncounted + rowBytes(r)
  <2>1. PICK u \in Nat : u = uncounted' /\ wroteCost(v) + u >= uncounted + rowBytes(r)
    BY <1>6
  <2>2. wroteCost(v) \in Nat /\ committed \in Nat
    BY <1>1, <1>2, <1>6 DEF TypeOK
  <2>3. committed + wroteCost(v) + u >= committed + 0 + uncounted + rowBytes(r)
    BY <1>2, <1>7, <2>1, <2>2
  <2>4. QED
    BY <1>5, <1>6, <2>1, <2>3
<1>10. RequestInv(v)'
  <2>1. revision' \in Nat
    BY <1>4
  <2>2. QED
    BY <1>3, <2>1 DEF RequestInv
<1>11. \A x \in Writers \ {w} : req[x] \in Requests /\ req'[x] = req[x]
  BY <1>1 DEF Step
<1>12. \A x \in Writers \ {w} : RequestInv(req[x]) => RequestInv(req[x])'
  <2>1. ASSUME NEW x \in Writers \ {w}, RequestInv(req[x]) PROVE RequestInv(req[x])'
    <3>1. PICK q \in Requests : q = req[x] /\ q = req'[x]
      BY <1>11
    <3>2. RequestInv(q)'
      BY <1>4, <2>1, <3>1
    <3>3. QED
      BY <3>1, <3>2 DEF RequestInv, Charged, Lost, canWrite, rowBytes
  <2>2. QED
    BY <2>1
<1>13. Step(w, v)
  BY <1>3
<1> HIDE DEF r
<1>14. QED
  BY <1>2, <1>3, <1>4, <1>5, <1>7, <1>8, <1>9, <1>10, <1>12, <1>13, RequestMoves DEF r

-----------------------------------------------------------------------------
(* The steps of a request, one by one. *)

(* A request begins to load a figure. *)
LEMMA TriesKeeps ==
  ASSUME QuotaInv, NEW w \in Writers, NEW r \in Requests, NEW cost \in Nat,
         NEW lane \in {"below", "create", "control", "cleanup"},
         req[w].st \in {"idle", "admit"}, cost > 0, KeyLen + r.val > 0,
         lane = "create" => r.rev = 0 /\ cost = KeyLen + r.val,
         lane \in {"control", "cleanup"} =>
           r.rev > 0 /\ r.rev <= revision /\ (canWrite(r) => rowBytes(r) <= cost),
         Step(w, tries(r, lane, cost)), UNCHANGED <<atomics, marks, sampler, database>>
  PROVE  QuotaInv'
<1>1. base \in Nat
  BY DEF QuotaInv, TypeOK
<1>2. tries(r, lane, cost) \in Requests
  BY <1>1 DEF tries, Requests
<1>3. PICK v \in Requests : v = tries(r, lane, cost)
  BY <1>2
<1>4. /\ v.st = "live" /\ v.lane = lane /\ v.cost = cost /\ v.base = base
      /\ v.key = r.key /\ v.val = r.val /\ v.rev = r.rev
  BY <1>3 DEF tries, Requests
<1>5. RequestInv(v)
  <2>1. canWrite(v) <=> canWrite(r)
    BY <1>4 DEF canWrite
  <2>2. rowBytes(v) = rowBytes(r)
    BY <1>4 DEF rowBytes
  <2>3. Charged(v)
    BY <1>4, <2>1, <2>2 DEF Charged
  <2>4. QED
    BY <1>4, <2>3 DEF RequestInv
<1>6. held(v) = held(req[w]) /\ wroteCost(v) >= wroteCost(req[w])
  BY <1>4 DEF held, wroteCost
<1>7. v.base <= base /\ v.st # "reserve"
  BY <1>1, <1>4
<1>8. Step(w, v)
  BY <1>3
<1>9. QED
  BY <1>5, <1>6, <1>7, <1>8, RequestQuiet

(* A request that holds nothing ends. *)
LEMMA EndKeeps ==
  ASSUME QuotaInv, NEW w \in Writers, req[w].st \in {"idle", "admit"}, Step(w, Idle),
         UNCHANGED <<atomics, marks, sampler, database>>
  PROVE  QuotaInv'
<1>1. PICK v \in Requests : v = Idle
  BY IdleTyped
<1>2. v.st = "idle" /\ v.rev = 0 /\ revision \in Nat
  BY <1>1 DEF Idle, QuotaInv, TypeOK
<1>3. RequestInv(v)
  BY <1>2 DEF RequestInv
<1>4. held(v) = held(req[w]) /\ wroteCost(v) >= wroteCost(req[w])
  BY <1>2 DEF held, wroteCost
<1>5. Step(w, v)
  BY <1>1
<1>6. QED
  BY <1>2, <1>3, <1>4, <1>5, RequestQuiet

LEMMA CreateKeeps ==
  ASSUME QuotaInv, NEW w \in Writers, Create(w) PROVE QuotaInv'
<1>1. PICK k \in Keys, z \in Sizes :
        Step(w, tries([Idle EXCEPT !.key = k, !.val = z], "below", KeyLen + z))
  BY DEF Create
<1> DEFINE r == [Idle EXCEPT !.key = k, !.val = z]
<1>2. z \in Nat /\ KeyLen + z \in Nat /\ KeyLen + z > 0 /\ revision \in Nat
  BY QuotaAssumption DEF QuotaInv, TypeOK
<1>3. r \in Requests /\ r.rev = 0 /\ r.val = z
  BY <1>2, IdleTyped DEF Idle, Requests
<1>4. req[w].st = "idle" /\ UNCHANGED <<atomics, marks, sampler, database>>
  BY DEF Create
<1> HIDE DEF r
<1>5. Step(w, tries(r, "below", KeyLen + z))
  BY <1>1 DEF r
<1>6. QED
  BY <1>2, <1>3, <1>4, <1>5, TriesKeeps

LEMMA UpdateKeeps ==
  ASSUME QuotaInv, NEW w \in Writers, Update(w) PROVE QuotaInv'
<1>1. PICK k \in Keys, z \in Sizes, rv \in 1 .. MaxRev :
        Step(w, tries([Idle EXCEPT !.key = k, !.val = z, !.rev = rv], "below", KeyLen + 2 * z))
  BY DEF Update
<1> DEFINE r == [Idle EXCEPT !.key = k, !.val = z, !.rev = rv]
<1>2. z \in Nat /\ KeyLen \in Nat /\ KeyLen + z > 0 /\ MaxRev \in Nat
  BY QuotaAssumption
<1>3. KeyLen + 2 * z \in Nat /\ KeyLen + 2 * z > 0 /\ rv \in Nat
  BY <1>2
<1>4. r \in Requests /\ r.rev = rv /\ r.val = z
  BY <1>2, <1>3, IdleTyped DEF Idle, Requests
<1>5. req[w].st = "idle" /\ UNCHANGED <<atomics, marks, sampler, database>>
  BY DEF Update
<1> HIDE DEF r
<1>6. Step(w, tries(r, "below", KeyLen + 2 * z))
  BY <1>1 DEF r
<1>7. QED
  BY <1>2, <1>3, <1>4, <1>5, <1>6, TriesKeeps

LEMMA LoadLiveKeeps ==
  ASSUME QuotaInv, NEW w \in Writers, LoadLive(w) PROVE QuotaInv'
<1>1. /\ req \in [Writers -> Requests] /\ live \in Nat /\ base \in Nat /\ Stored \in Nat /\ Credit \in Nat
      /\ RequestInv(req[w])
      /\ ~CloseTicks => LoadedCovers(req[w]) /\ Stored + base <= live + Credit
  BY SumsTyped DEF QuotaInv, TypeOK, Stored, Covered, YoungCovered
<1>2. /\ req[w].st = "live" /\ Step(w, [req[w] EXCEPT !.st = "reserve", !.live = live])
      /\ UNCHANGED <<atomics, marks, sampler, database>>
  BY DEF LoadLive
<1>3. PICK v \in Requests : v = [req[w] EXCEPT !.st = "reserve", !.live = live]
  BY <1>1 DEF Requests
<1>4. /\ v.st = "reserve" /\ v.live = live /\ v.base = req[w].base /\ v.lane = req[w].lane
      /\ v.cost = req[w].cost /\ v.key = req[w].key /\ v.val = req[w].val /\ v.rev = req[w].rev
  BY <1>1, <1>3 DEF Requests
<1>5. RequestInv(v)
  <2>1. Charged(req[w])
    BY <1>1, <1>2 DEF RequestInv
  <2>2. Charged(v)
    BY <1>4, <2>1 DEF Charged, canWrite, rowBytes
  <2>3. QED
    BY <1>1, <1>2, <1>4, <2>2 DEF RequestInv
<1>6. held(v) = held(req[w]) /\ wroteCost(v) >= wroteCost(req[w])
  BY <1>2, <1>4 DEF held, wroteCost
<1>7. ASSUME ~CloseTicks PROVE Stored + v.base <= v.live + Credit
  <2>1. v.base \in Nat /\ v.base <= base
    BY <1>1, <1>2, <1>4, <1>7 DEF LoadedCovers, Requests
  <2>2. QED
    BY <1>1, <1>4, <1>7, <2>1
<1>8. Step(w, v) /\ v.st # "live"
  BY <1>2, <1>3, <1>4
<1>9. QED
  BY <1>2, <1>5, <1>6, <1>7, <1>8, RequestQuiet

(* The reservations move, and no row. *)
LEMMA WrittenMoves ==
  ASSUME QuotaInv, NEW w \in Writers, NEW v \in Requests, Step(w, v), written' \in Int,
         UNCHANGED <<live, base, marks, sampler, database>>,
         committed' \in Nat, committed' >= committed,
         written' - committed' - held(v) = written - committed - held(req[w]),
         committed' + wroteCost(v) >= committed + wroteCost(req[w]),
         RequestInv(v), v.st \notin {"live", "reserve"}
  PROVE  QuotaInv'
<1>1. TypeOK /\ RowInv /\ req \in [Writers -> Requests]
  BY SumsTyped DEF QuotaInv
<1>2. UNCHANGED <<live, base, marks, sampler, row, revision, old, young, uncounted>>
  BY DEF database
<1>3. /\ young' \in Nat \X Nat \X Nat /\ young'[1] = young[1] + 0 /\ young'[2] = young[2] /\ young'[3] = young[3]
      /\ uncounted' \in Nat
      /\ row' \in [Keys -> [rev : 0 .. MaxRev, size : Nat]] /\ revision' \in 0 .. MaxRev
  BY <1>1, <1>2 DEF TypeOK
<1>4. committed' + wroteCost(v) + uncounted' >= committed + wroteCost(req[w]) + uncounted + 0
  <2>1. wroteCost(v) \in Nat /\ wroteCost(req[w]) \in Nat /\ committed \in Nat /\ uncounted \in Nat
    BY <1>1 DEF Requests, wroteCost, TypeOK
  <2>2. PICK c \in Nat : c = committed' /\ c + wroteCost(v) >= committed + wroteCost(req[w])
    OBVIOUS
  <2>3. c + wroteCost(v) + uncounted >= committed + wroteCost(req[w]) + uncounted + 0
    BY <2>1, <2>2
  <2>4. QED
    BY <1>2, <2>2, <2>3
<1>5. RowInv'
  BY <1>1, <1>2 DEF RowInv
<1>6. RequestInv(v)'
  BY <1>2 DEF RequestInv, Charged, Lost, canWrite, rowBytes
<1>7. \A x \in Writers \ {w} : req'[x] = req[x]
  BY <1>1 DEF Step
<1>8. \A x \in Writers \ {w} : RequestInv(req[x]) => RequestInv(req[x])'
  BY <1>2, <1>7 DEF RequestInv, Charged, Lost, canWrite, rowBytes
<1>9. QED
  BY <1>2, <1>3, <1>4, <1>5, <1>6, <1>8, RequestMoves

LEMMA ReserveKeeps ==
  ASSUME QuotaInv, NEW w \in Writers, Reserve(w) PROVE QuotaInv'
<1>1. /\ req \in [Writers -> Requests] /\ written \in Nat /\ committed \in Nat
      /\ RequestInv(req[w])
  BY SumsTyped DEF QuotaInv, TypeOK
<1>2. /\ req[w].st = "reserve" /\ written' = written + req[w].cost
      /\ UNCHANGED <<live, committed, base, marks, sampler, database>>
  BY DEF Reserve
<1>3. PICK st \in {"call", "giveback"} : Step(w, decided(req[w], st))
  BY DEF Reserve
<1>4. PICK v \in Requests : v = decided(req[w], st)
  BY <1>1 DEF Requests, decided
<1>5. /\ v.st = st /\ v.lane = req[w].lane
      /\ v.cost = req[w].cost /\ v.key = req[w].key /\ v.val = req[w].val /\ v.rev = req[w].rev
  BY <1>1, <1>4 DEF Requests, decided
<1>6. RequestInv(v)
  <2>1. Charged(req[w]) /\ req[w].cost > 0
    BY <1>1, <1>2 DEF RequestInv
  <2>2. Charged(v)
    BY <1>5, <2>1 DEF Charged, canWrite, rowBytes
  <2>3. QED
    BY <1>1, <1>2, <1>5, <2>1, <2>2 DEF RequestInv
<1>7. held(v) = req[w].cost /\ held(req[w]) = 0 /\ wroteCost(v) = 0 /\ wroteCost(req[w]) = 0
  BY <1>2, <1>5 DEF held, wroteCost
<1>8. req[w].cost \in Nat
  BY <1>1 DEF Requests
<1>9. /\ written' \in Int /\ committed' \in Nat /\ committed' >= committed
      /\ written' - committed' - held(v) = written - committed - held(req[w])
      /\ committed' + wroteCost(v) >= committed + wroteCost(req[w])
  BY <1>1, <1>2, <1>7, <1>8
<1>10. Step(w, v) /\ v.st \notin {"live", "reserve"}
  BY <1>3, <1>4, <1>5
<1>11. QED
  BY <1>2, <1>6, <1>9, <1>10, WrittenMoves

LEMMA GiveBackKeeps ==
  ASSUME QuotaInv, NEW w \in Writers, GiveBack(w) PROVE QuotaInv'
<1>1. /\ req \in [Writers -> Requests] /\ written \in Nat /\ committed \in Nat
      /\ RequestInv(req[w]) /\ revision \in Nat
  BY SumsTyped DEF QuotaInv, TypeOK
<1>2. /\ req[w].st = "giveback" /\ written' = written - req[w].cost
      /\ UNCHANGED <<live, committed, base, marks, sampler, database>>
  BY DEF GiveBack
<1>3. PICK v \in Requests :
        v = IF req[w].lane = "below" THEN [req[w] EXCEPT !.st = "admit", !.cost = 0] ELSE Idle
  BY <1>1, IdleTyped DEF Requests
<1>4. \/ v.st = "admit" /\ v.lane = "below" /\ v.rev = req[w].rev /\ v.val = req[w].val
      \/ v.st = "idle" /\ v.rev = 0
  BY <1>1, <1>3 DEF Requests, Idle
<1>5. RequestInv(v)
  BY <1>1, <1>2, <1>4 DEF RequestInv
<1>6. held(v) = 0 /\ held(req[w]) = req[w].cost /\ wroteCost(v) = 0 /\ wroteCost(req[w]) = 0
  BY <1>2, <1>4 DEF held, wroteCost
<1>7. req[w].cost \in Nat
  BY <1>1 DEF Requests
<1>8. /\ written' \in Int /\ committed' \in Nat /\ committed' >= committed
      /\ written' - committed' - held(v) = written - committed - held(req[w])
      /\ committed' + wroteCost(v) >= committed + wroteCost(req[w])
  BY <1>1, <1>2, <1>6, <1>7
<1>9. Step(w, v) /\ v.st \notin {"live", "reserve"}
  BY <1>3, <1>4 DEF GiveBack
<1>10. QED
  BY <1>2, <1>5, <1>8, <1>9, WrittenMoves

LEMMA AdmitControlCreateKeeps ==
  ASSUME QuotaInv, NEW w \in Writers, admitControlCreate(w) PROVE QuotaInv'
<1>1. /\ req \in [Writers -> Requests] /\ RequestInv(req[w]) /\ revision \in Nat
  BY SumsTyped DEF QuotaInv, TypeOK
<1>2. /\ req[w].st = "admit" /\ req[w].rev = 0
      /\ UNCHANGED <<atomics, marks, sampler, database>>
  BY DEF admitControlCreate
<1>3. CASE isControl(req[w])
  <2>1. PICK r \in Requests : r = req[w]
    BY <1>1
  <2>2. r.val \in Nat /\ KeyLen \in Nat
    BY QuotaAssumption DEF Requests
  <2>3. Step(w, tries(r, "create", KeyLen + r.val))
    BY <1>3, <2>1 DEF admitControlCreate
  <2>4. KeyLen + r.val > 0
    BY <1>1, <1>2, <2>1 DEF RequestInv
  <2>5. QED
    BY <1>1, <1>2, <2>1, <2>2, <2>3, <2>4, TriesKeeps
<1>4. CASE ~isControl(req[w])
  <2>1. Step(w, Idle)
    BY <1>4 DEF admitControlCreate
  <2>2. QED
    BY <1>2, <2>1, EndKeeps
<1>5. QED
  BY <1>3, <1>4

LEMMA AdmitUpdateKeeps ==
  ASSUME QuotaInv, NEW w \in Writers, admitUpdate(w) PROVE QuotaInv'
<1>1. /\ req \in [Writers -> Requests] /\ RequestInv(req[w]) /\ revision \in Nat
      /\ row \in [Keys -> [rev : 0 .. MaxRev, size : Nat]] /\ KeyLen \in Nat
  BY SumsTyped, QuotaAssumption DEF QuotaInv, TypeOK
<1>2. PICK r \in Requests : r = req[w]
  BY <1>1
<1>3. /\ r.st = "admit" /\ r.rev > 0 /\ UNCHANGED <<atomics, marks, sampler, database>>
      /\ KeyLen + r.val > 0 /\ r.lane = "below"
  BY <1>1, <1>2 DEF admitUpdate, RequestInv
<1>4. r.key \in Keys /\ r.val \in Nat /\ r.rev \in Nat /\ row[r.key].size \in Nat
  BY <1>1 DEF Requests
<1>5. CASE loses(r)
  <2>1. Step(w, [r EXCEPT !.st = "call", !.cost = 0, !.ahead = r.rev > revision])
    BY <1>2, <1>5 DEF admitUpdate
  <2>2. PICK a \in BOOLEAN : a = (r.rev > revision)
    <3>1. CASE r.rev > revision
      BY <3>1, TRUE = (r.rev > revision), Zenon
    <3>2. CASE ~(r.rev > revision)
      BY <3>2, FALSE = (r.rev > revision), Zenon
    <3>3. QED
      BY <3>1, <3>2, Zenon
  <2>3. PICK v \in Requests :
          /\ v = [r EXCEPT !.st = "call", !.cost = 0, !.ahead = a]
          /\ v.st = "call" /\ v.cost = 0 /\ v.lane = "below" /\ v.rev = r.rev /\ v.key = r.key
          /\ v.ahead = a
    <3>1. [r EXCEPT !.st = "call", !.cost = 0, !.ahead = a] \in Requests
      BY DEF Requests
    <3>2. QED
      BY <1>3, <3>1 DEF Requests
  <2>4. a \/ Lost(v)
    <3>1. a \/ ~(r.rev > revision)
      BY <2>2, Zenon
    <3>2. ~(r.rev > revision) => Lost(v)
      BY <1>1, <1>3, <1>4, <1>5, <2>3 DEF loses, canWrite, Lost
    <3>3. QED
      BY <3>1, <3>2, Zenon
  <2>5. RequestInv(v)
    BY <1>3, <2>3, <2>4, Zenon DEF RequestInv, Charged
  <2>6. held(v) = held(req[w]) /\ wroteCost(v) >= wroteCost(req[w])
    BY <1>2, <1>3, <2>3 DEF held, wroteCost
  <2>7. Step(w, v) /\ v.st \notin {"live", "reserve"}
    BY <2>1, <2>2, <2>3
  <2>8. QED
    BY <1>3, <2>5, <2>6, <2>7, RequestQuiet
<1>6. CASE ~loses(r) /\ r.val - row[r.key].size > GrowthSlack
  <2>1. Step(w, Idle)
    BY <1>2, <1>6 DEF admitUpdate
  <2>2. QED
    BY <1>2, <1>3, <2>1, EndKeeps
<1>7. CASE ~loses(r) /\ ~(r.val - row[r.key].size > GrowthSlack)
  <2> DEFINE lane == IF isControl(r) THEN "control" ELSE "cleanup"
  <2>1. PICK c \in Nat : c = KeyLen + r.val + row[r.key].size /\ c > 0
    <3>1. KeyLen + r.val + row[r.key].size \in Nat /\ KeyLen + r.val + row[r.key].size > 0
      BY <1>1, <1>3, <1>4
    <3>2. QED
      BY <3>1
  <2>2. PICK l \in {"control", "cleanup"} : l = lane
    OBVIOUS
  <2>3. Step(w, tries(r, l, c))
    BY <1>2, <1>7, <2>1, <2>2 DEF admitUpdate
  <2>4. rowBytes(r) <= c /\ r.rev <= revision
    BY <1>4, <1>7, <2>1 DEF rowBytes, loses, QuotaInv, RowInv
  <2>5. QED
    BY <1>2, <1>3, <2>1, <2>2, <2>3, <2>4, TriesKeeps
<1>8. QED
  BY <1>5, <1>6, <1>7

(* A call that writes no row goes on to settle. *)
LEMMA CallEnds ==
  ASSUME QuotaInv, NEW w \in Writers, NEW wrote \in BOOLEAN, req[w].st = "call",
         Step(w, settling(req[w], wrote)), UNCHANGED <<atomics, marks, sampler, database>>
  PROVE  QuotaInv'
<1>1. req \in [Writers -> Requests] /\ revision \in Nat
  BY SumsTyped DEF QuotaInv, TypeOK
<1>2. req[w].cost \in Nat
  BY <1>1 DEF Requests
<1>3. settling(req[w], wrote) \in Requests
  BY <1>2, IdleTyped DEF Requests, settling
<1>4. PICK v \in Requests : v = settling(req[w], wrote)
  BY <1>3
<1>5. v.st = "settle" /\ v.cost = req[w].cost /\ v.rev = 0
  BY <1>4 DEF settling, Idle
<1>6. RequestInv(v)
  BY <1>1, <1>5 DEF RequestInv
<1>7. held(v) = held(req[w]) /\ wroteCost(v) >= wroteCost(req[w])
  BY <1>2, <1>5 DEF held, wroteCost
<1>8. Step(w, v) /\ v.st \notin {"live", "reserve"}
  BY <1>4, <1>5
<1>9. QED
  BY <1>6, <1>7, <1>8, RequestQuiet

LEMMA CallWritesKeeps ==
  ASSUME QuotaInv, NEW w \in Writers, CallWrites(w) PROVE QuotaInv'
<1>1. /\ req \in [Writers -> Requests] /\ RequestInv(req[w]) /\ uncounted \in Nat /\ RowInv
      /\ row \in [Keys -> [rev : 0 .. MaxRev, size : Nat]] /\ KeyLen \in Nat
  BY SumsTyped, QuotaAssumption DEF QuotaInv, TypeOK
<1>2. /\ req[w].st = "call" /\ canWrite(req[w]) /\ uncounted' = uncounted + undercharged(req[w])
      /\ insertRow(req[w].key, revision + 1, req[w].val, rowBytes(req[w]))
      /\ Step(w, settling(req[w], TRUE)) /\ UNCHANGED <<atomics, marks, sampler>>
  BY DEF CallWrites
<1>3. /\ req[w].cost \in Nat /\ req[w].key \in Keys /\ req[w].val \in Nat
      /\ req[w].lane \in {"below", "create", "control", "cleanup"}
  BY <1>1 DEF Requests
<1>4. rowBytes(req[w]) \in Nat
  BY <1>1, <1>3 DEF rowBytes
<1>5. req[w].lane # "below" => rowBytes(req[w]) <= req[w].cost
  <2>1. Charged(req[w])
    BY <1>1, <1>2 DEF RequestInv
  <2>2. CASE req[w].lane = "create"
    <3>1. row[req[w].key].rev = 0
      BY <1>2, <2>1, <2>2 DEF Charged, canWrite
    <3>2. row[req[w].key].size = 0
      BY <1>1, <1>3, <3>1 DEF RowInv
    <3>3. QED
      BY <1>1, <1>3, <2>1, <2>2, <3>2 DEF Charged, rowBytes
  <2>3. CASE req[w].lane \in {"control", "cleanup"}
    BY <1>2, <2>1, <2>3 DEF Charged
  <2>4. QED
    BY <1>3, <2>2, <2>3
<1>6. undercharged(req[w]) \in Nat /\ req[w].cost + undercharged(req[w]) >= rowBytes(req[w])
  BY <1>3, <1>4, <1>5 DEF undercharged
<1>7. uncounted' \in Nat /\ req[w].cost + uncounted' >= uncounted + rowBytes(req[w])
  BY <1>1, <1>2, <1>3, <1>4, <1>6
<1>8. QED
  BY <1>2, <1>7, RequestInserts

LEMMA CallSwallowedKeeps ==
  ASSUME QuotaInv, NEW w \in Writers, CallSwallowed(w) PROVE QuotaInv'
<1>1. /\ req \in [Writers -> Requests] /\ uncounted \in Nat
      /\ row \in [Keys -> [rev : 0 .. MaxRev, size : Nat]] /\ KeyLen \in Nat
  BY SumsTyped, QuotaAssumption DEF QuotaInv, TypeOK
<1>2. /\ req[w].st = "call" /\ canWrite(req[w]) /\ uncounted' = uncounted + rowBytes(req[w])
      /\ insertRow(req[w].key, revision + 1, req[w].val, rowBytes(req[w]))
      /\ Step(w, settling(req[w], FALSE)) /\ UNCHANGED <<atomics, marks, sampler>>
  BY DEF CallSwallowed
<1>3. rowBytes(req[w]) \in Nat
  BY <1>1 DEF Requests, rowBytes
<1>4. uncounted' \in Nat /\ 0 + uncounted' >= uncounted + rowBytes(req[w])
  BY <1>1, <1>2, <1>3
<1>5. QED
  BY <1>2, <1>4, RequestInserts

LEMMA SettleKeeps ==
  ASSUME QuotaInv, NEW w \in Writers, settle(w) PROVE QuotaInv'
<1>1. /\ req \in [Writers -> Requests] /\ written \in Nat /\ committed \in Nat /\ revision \in Nat
  BY SumsTyped DEF QuotaInv, TypeOK
<1>2. /\ req[w].st = "settle" /\ Step(w, Idle)
      /\ UNCHANGED <<live, base, marks, sampler, database>>
  BY DEF settle
<1>3. PICK v \in Requests : v = Idle
  BY IdleTyped
<1>4. v.st = "idle" /\ v.rev = 0
  BY <1>3 DEF Idle
<1>5. RequestInv(v)
  BY <1>1, <1>4 DEF RequestInv
<1>6. req[w].cost \in Nat
  BY <1>1 DEF Requests
<1>7. held(v) = 0 /\ held(req[w]) = req[w].cost /\ wroteCost(v) = 0
  BY <1>2, <1>4 DEF held, wroteCost
<1>8. Step(w, v) /\ v.st \notin {"live", "reserve"}
  BY <1>2, <1>3, <1>4
<1>9. CASE req[w].wrote
  <2>1. committed' = committed + req[w].cost /\ written' = written /\ wroteCost(req[w]) = req[w].cost
    BY <1>2, <1>9 DEF settle, wroteCost
  <2>2. /\ written' \in Int /\ committed' \in Nat /\ committed' >= committed
        /\ written' - committed' - held(v) = written - committed - held(req[w])
        /\ committed' + wroteCost(v) >= committed + wroteCost(req[w])
    BY <1>1, <1>6, <1>7, <2>1
  <2>3. QED
    BY <1>2, <1>5, <1>8, <2>2, WrittenMoves
<1>10. CASE ~req[w].wrote
  <2>1. written' = written - req[w].cost /\ committed' = committed /\ wroteCost(req[w]) = 0
    BY <1>2, <1>10 DEF settle, wroteCost
  <2>2. /\ written' \in Int /\ committed' \in Nat /\ committed' >= committed
        /\ written' - committed' - held(v) = written - committed - held(req[w])
        /\ committed' + wroteCost(v) >= committed + wroteCost(req[w])
    BY <1>1, <1>6, <1>7, <2>1
  <2>3. QED
    BY <1>2, <1>5, <1>8, <2>2, WrittenMoves
<1>11. QED
  BY <1>9, <1>10

-----------------------------------------------------------------------------
(* Deletes and the sampler. *)

LEMMA SumsSame ==
  ASSUME TypeOK, UNCHANGED <<req, committed>>, NEW b \in Nat, uncounted' = uncounted + b
  PROVE  /\ Costs(req', Holding') = Costs(req, Holding)
         /\ Credit \in Nat /\ Credit' = Credit + b
<1>1. Holding' = Holding /\ Wrote' = Wrote
  BY DEF Holding, Wrote
<1>2. Costs(req', Holding') = Costs(req, Holding) /\ Costs(req', Wrote') = Costs(req, Wrote)
  BY <1>1
<1>3. PICK x \in Nat : x = Costs(req, Wrote)
  BY SumsTyped
<1>4. committed \in Nat /\ uncounted \in Nat
  BY DEF TypeOK
<1>5. Credit = committed + x + uncounted /\ Credit' = committed + x + (uncounted + b)
  BY <1>2, <1>3 DEF Credit
<1>6. QED
  BY <1>2, <1>4, <1>5

LEMMA DeleteKeeps ==
  ASSUME QuotaInv, NEW k \in Keys, Delete(k) PROVE QuotaInv'
<1>1. /\ TypeOK /\ RowInv /\ Balance /\ MarksOrdered /\ (~CloseTicks => Covered)
      /\ row \in [Keys -> [rev : 0 .. MaxRev, size : Nat]] /\ KeyLen \in Nat /\ uncounted \in Nat
      /\ req \in [Writers -> Requests]
      /\ \A x \in Writers : RequestInv(req[x])
  BY SumsTyped, QuotaAssumption DEF QuotaInv, TypeOK
<1>2. PICK b \in Nat : b = KeyLen + row[k].size
  BY <1>1
<1>3. /\ insertRow(k, 0, 0, b) /\ uncounted' = uncounted + b
      /\ UNCHANGED <<live, written, committed, base, marks, sampler, req>>
  BY <1>1, <1>2 DEF Delete, atomics
<1>4. /\ old' = old /\ young' \in Nat \X Nat \X Nat
      /\ young'[1] = young[1] + b /\ young'[2] = young[2] /\ young'[3] = young[3]
      /\ row' \in [Keys -> [rev : 0 .. MaxRev, size : Nat]] /\ revision' \in 0 .. MaxRev
      /\ RowInv'
      /\ \A q \in Requests : RequestInv(q) => RequestInv(q)'
  BY <1>1, <1>3, RowsInserted
<1>5. Costs(req', Holding') = Costs(req, Holding) /\ Credit \in Nat /\ Credit' = Credit + b
  BY <1>1, <1>3, SumsSame
<1>6. Credit' \in Nat /\ Credit' >= Credit + b
  BY <1>5
<1>7. Stored' = Stored + b /\ (YoungCovered => YoungCovered')
  BY <1>1, <1>3, <1>4, <1>6, Grown
<1>8. Balance' /\ MarksOrdered'
  BY <1>1, <1>3, <1>5 DEF Balance, MarksOrdered
<1>9. TypeOK'
  BY <1>1, <1>3, <1>4 DEF TypeOK
<1>10. ASSUME NEW x \in Writers PROVE RequestInv(req[x])' /\ (LoadedCovers(req[x]) => LoadedCovers(req[x])')
  <2>1. PICK q \in Requests : q = req[x] /\ q = req'[x]
    BY <1>1, <1>3
  <2>2. RequestInv(q)'
    BY <1>1, <1>4, <2>1
  <2>3. RequestInv(req[x])'
    BY <2>1, <2>2 DEF RequestInv, Charged, Lost, canWrite, rowBytes
  <2>4. Stored \in Nat /\ q.base \in Nat /\ q.live \in Nat
    BY <1>1 DEF TypeOK, Stored, Requests
  <2>5. Stored + q.base <= q.live + Credit => Stored + b + q.base <= q.live + (Credit + b)
    BY <1>5, <2>4
  <2>6. LoadedCovers(req[x]) => LoadedCovers(req[x])'
    BY <1>1, <1>3, <1>5, <1>7, <2>1, <2>5 DEF LoadedCovers
  <2>7. QED
    BY <2>3, <2>6
<1>11. ~CloseTicks => Covered'
  BY <1>1, <1>7, <1>10 DEF Covered
<1>12. QED
  BY <1>1, <1>4, <1>8, <1>9, <1>10, <1>11 DEF QuotaInv

(* The sampler changes the live sample, the base and the marks, and how old rows are. *)
LEMMA SamplerMoves ==
  ASSUME QuotaInv, UNCHANGED <<written, committed, req, row, revision, uncounted>>,
         TypeOK', MarksOrdered', base' >= base, Stored' = Stored,
         Credit' = Credit /\ ~CloseTicks /\ YoungCovered => YoungCovered'
  PROVE  QuotaInv'
<1>1. /\ TypeOK /\ RowInv /\ Balance /\ (~CloseTicks => Covered)
      /\ req \in [Writers -> Requests] /\ base \in Nat /\ uncounted \in Nat
      /\ \A x \in Writers : RequestInv(req[x])
  BY SumsTyped DEF QuotaInv, TypeOK
<1>2. uncounted' = uncounted + 0
  BY <1>1
<1>3. Costs(req', Holding') = Costs(req, Holding) /\ Credit \in Nat /\ Credit' = Credit + 0
  BY <1>1, <1>2, SumsSame
<1>4. Credit' = Credit
  BY <1>3
<1>5. RowInv' /\ Balance' /\ (~CloseTicks => YoungCovered')
  BY <1>1, <1>3, <1>4 DEF RowInv, Balance, Covered
<1>6. ASSUME NEW x \in Writers PROVE RequestInv(req[x])' /\ (LoadedCovers(req[x]) => LoadedCovers(req[x])')
  <2>1. RequestInv(req[x])'
    BY <1>1 DEF RequestInv, Charged, Lost, canWrite, rowBytes
  <2>2. req[x].base \in Nat /\ base' \in Nat
    BY <1>1 DEF Requests, TypeOK
  <2>3. req[x].base <= base => req[x].base <= base'
    BY <1>1, <2>2
  <2>4. LoadedCovers(req[x]) => LoadedCovers(req[x])'
    BY <1>1, <1>4, <2>3 DEF LoadedCovers
  <2>5. QED
    BY <2>1, <2>4
<1>7. ~CloseTicks => Covered'
  BY <1>1, <1>5, <1>6 DEF Covered
<1>8. QED
  BY <1>5, <1>6, <1>7 DEF QuotaInv

(* What the numbers of the sampler are. *)
LEMMA SamplerTyped ==
  ASSUME QuotaInv
  PROVE  /\ live \in Nat /\ base \in Nat /\ committed \in Nat /\ old \in Nat
         /\ marks \in Nat \X Nat /\ marks[1] \in Nat /\ marks[2] \in Nat
         /\ sampler \in [st : {"idle", "query", "advance"}, mark : Nat] /\ sampler.mark \in Nat
         /\ young \in Nat \X Nat \X Nat
         /\ young[1] \in Nat /\ young[2] \in Nat /\ young[3] \in Nat
         /\ Credit \in Nat /\ Credit >= committed
         /\ TypeOK /\ MarksOrdered
<1>1. TypeOK /\ MarksOrdered
  BY DEF QuotaInv
<1>2. PICK x \in Nat : x = Costs(req, Wrote)
  BY <1>1, SumsTyped
<1>3. committed \in Nat /\ uncounted \in Nat
  BY <1>1 DEF TypeOK
<1>4. Credit \in Nat /\ Credit >= committed
  BY <1>2, <1>3 DEF Credit
<1>5. QED
  BY <1>1, <1>4 DEF TypeOK

LEMMA SampleBeginsKeeps ==
  ASSUME QuotaInv, SampleBegins PROVE QuotaInv'
<1>1. /\ sampler.st = "idle" /\ sampler' = [st |-> "query", mark |-> committed]
      /\ \/ old' = old + young[3] /\ young' = <<0, young[1], young[2]>>
         \/ CloseTicks /\ old' = old /\ young' = young
      /\ UNCHANGED <<live, written, committed, base, marks, req, row, revision, uncounted>>
  BY DEF SampleBegins, committedMark, atomics
<1>2. /\ live \in Nat /\ base \in Nat /\ committed \in Nat /\ old \in Nat
      /\ marks[1] \in Nat /\ marks[2] \in Nat /\ sampler.mark \in Nat
      /\ young[1] \in Nat /\ young[2] \in Nat /\ young[3] \in Nat
      /\ Credit \in Nat /\ Credit >= committed
      /\ TypeOK /\ MarksOrdered
  BY SamplerTyped
<1>3. TypeOK'
  BY <1>1, <1>2 DEF TypeOK
<1>4. MarksOrdered' /\ base' >= base
  BY <1>1, <1>2 DEF MarksOrdered
<1>5. ~CloseTicks => young'[1] = 0 /\ young'[2] = young[1] /\ young'[3] = young[2]
  BY <1>1
<1>6. Stored' = Stored
  BY <1>1, <1>2 DEF Stored
<1>7. ASSUME Credit' = Credit, ~CloseTicks, YoungCovered PROVE YoungCovered'
  <2>1. /\ Stored + base <= live + Credit
        /\ young[1] + marks[2] <= Credit
        /\ young[1] + young[2] + marks[1] <= Credit
    BY <1>1, <1>7 DEF YoungCovered
  <2>2. /\ 0 + committed <= Credit /\ 0 + young[1] + marks[2] <= Credit
        /\ 0 + young[1] + young[2] + marks[1] <= Credit
    BY <1>2, <2>1
  <2>3. sampler'.st = "query" /\ sampler'.mark = committed
    BY <1>1
  <2>4. QED
    BY <1>7, <1>1, <1>5, <1>6, <2>1, <2>2, <2>3 DEF YoungCovered
<1>8. QED
  BY <1>1, <1>3, <1>4, <1>6, <1>7, SamplerMoves

LEMMA SampleFailsKeeps ==
  ASSUME QuotaInv, SampleFails PROVE QuotaInv'
<1>1. /\ sampler.st = "query" /\ sampler' = [sampler EXCEPT !.st = "idle"]
      /\ UNCHANGED <<live, written, committed, base, marks, req, row, revision, old, young, uncounted>>
  BY DEF SampleFails, atomics, database
<1>2. /\ live \in Nat /\ base \in Nat
      /\ marks[1] \in Nat /\ marks[2] \in Nat
      /\ sampler \in [st : {"idle", "query", "advance"}, mark : Nat] /\ sampler.mark \in Nat
      /\ young[1] \in Nat /\ young[2] \in Nat /\ young[3] \in Nat /\ Credit \in Nat
      /\ TypeOK /\ MarksOrdered
  BY SamplerTyped
<1>3. sampler'.st = "idle" /\ sampler'.mark = sampler.mark
  BY <1>1, <1>2
<1>4. TypeOK'
  BY <1>1, <1>2 DEF TypeOK
<1>5. MarksOrdered' /\ base' >= base /\ Stored' = Stored
  BY <1>1, <1>2, <1>3 DEF MarksOrdered, Stored
<1>6. ASSUME Credit' = Credit, ~CloseTicks, YoungCovered PROVE YoungCovered'
  <2>1. /\ Stored + base <= live + Credit
        /\ young[1] + sampler.mark <= Credit
        /\ young[1] + young[2] + marks[2] <= Credit
        /\ young[1] + young[2] + young[3] + marks[1] <= Credit
    BY <1>1, <1>6 DEF YoungCovered
  <2>2. base <= marks[1] /\ marks[1] <= marks[2] /\ marks[2] <= sampler.mark
    BY <1>2 DEF MarksOrdered
  <2>3. /\ young[1] + marks[2] <= Credit
        /\ young[1] + young[2] + marks[1] <= Credit
        /\ young[1] + young[2] + young[3] + base <= Credit
    BY <1>2, <2>1, <2>2
  <2>4. QED
    BY <1>6, <1>1, <1>3, <1>5, <2>1, <2>3 DEF YoungCovered
<1>7. QED
  BY <1>1, <1>4, <1>5, <1>6, SamplerMoves

LEMMA SampleStoredKeeps ==
  ASSUME QuotaInv, SampleStored PROVE QuotaInv'
<1>1. /\ sampler.st = "query" /\ sampler' = [sampler EXCEPT !.st = "advance"]
      /\ live' \in {old, Stored}
      /\ UNCHANGED <<written, committed, base, marks, req, row, revision, old, young, uncounted>>
  BY DEF SampleStored, database, Shown
<1>2. /\ base \in Nat /\ old \in Nat
      /\ marks[1] \in Nat /\ marks[2] \in Nat
      /\ sampler \in [st : {"idle", "query", "advance"}, mark : Nat] /\ sampler.mark \in Nat
      /\ young[1] \in Nat /\ young[2] \in Nat /\ young[3] \in Nat /\ Credit \in Nat
      /\ TypeOK /\ MarksOrdered
  BY SamplerTyped
<1>3. sampler'.st = "advance" /\ sampler'.mark = sampler.mark
  BY <1>1, <1>2
<1>4. Stored \in Nat /\ Stored = old + young[1] + young[2] + young[3] /\ live' \in Nat
  BY <1>1, <1>2 DEF Stored
<1>5. TypeOK'
  BY <1>1, <1>2, <1>4 DEF TypeOK
<1>6. MarksOrdered' /\ base' >= base /\ Stored' = Stored
  BY <1>1, <1>2, <1>3 DEF MarksOrdered, Stored
<1>7. ASSUME Credit' = Credit, ~CloseTicks, YoungCovered PROVE YoungCovered'
  <2>1. /\ young[1] + sampler.mark <= Credit
        /\ young[1] + young[2] + marks[2] <= Credit
        /\ young[1] + young[2] + young[3] + marks[1] <= Credit
    BY <1>1, <1>7 DEF YoungCovered
  <2>2. base <= marks[1]
    BY <1>2 DEF MarksOrdered
  <2>3. PICK l \in {old, Stored} : l = live'
    BY <1>1
  <2>4. Stored + marks[1] <= l + Credit /\ Stored + base <= l + Credit
    BY <1>2, <1>4, <2>1, <2>2, <2>3
  <2>5. QED
    BY <1>7, <1>1, <1>3, <1>6, <2>1, <2>3, <2>4 DEF YoungCovered
<1>8. QED
  BY <1>1, <1>5, <1>6, <1>7, SamplerMoves

LEMMA SampleAdvancesKeeps ==
  ASSUME QuotaInv, SampleAdvances PROVE QuotaInv'
<1>1. /\ sampler.st = "advance" /\ sampler' = [sampler EXCEPT !.st = "idle"]
      /\ base' = marks[1] /\ marks' = <<marks[2], sampler.mark>>
      /\ UNCHANGED <<live, written, committed, req, row, revision, old, young, uncounted>>
  BY DEF SampleAdvances, newBase, database
<1>2. /\ live \in Nat /\ base \in Nat /\ committed \in Nat
      /\ marks[1] \in Nat /\ marks[2] \in Nat
      /\ sampler \in [st : {"idle", "query", "advance"}, mark : Nat] /\ sampler.mark \in Nat
      /\ TypeOK /\ MarksOrdered
  BY SamplerTyped
<1>3. sampler'.st = "idle" /\ sampler'.mark = sampler.mark /\ marks'[1] = marks[2] /\ marks'[2] = sampler.mark
  BY <1>1, <1>2
<1>4. TypeOK'
  BY <1>1, <1>2 DEF TypeOK
<1>5. MarksOrdered' /\ base' >= base
  BY <1>1, <1>2, <1>3 DEF MarksOrdered
<1>6. Stored' = Stored
  BY <1>1 DEF Stored
<1>7. ASSUME Credit' = Credit, ~CloseTicks, YoungCovered PROVE YoungCovered'
  <2>1. /\ Stored + marks[1] <= live + Credit
        /\ young[1] + sampler.mark <= Credit
        /\ young[1] + young[2] + marks[2] <= Credit
        /\ young[1] + young[2] + young[3] + marks[1] <= Credit
    BY <1>1, <1>7 DEF YoungCovered
  <2>2. QED
    BY <1>7, <1>1, <1>3, <1>6, <2>1 DEF YoungCovered
<1>8. QED
  BY <1>1, <1>4, <1>5, <1>6, <1>7, SamplerMoves

LEMMA ResampleKeeps ==
  ASSUME QuotaInv, Resample PROVE QuotaInv'
<1>1. /\ sampler.st = "idle" /\ live' \in {old, Stored}
      /\ UNCHANGED <<written, committed, base, marks, sampler, req, row, revision, old, young, uncounted>>
  BY DEF Resample, database, Shown
<1>2. /\ base \in Nat /\ old \in Nat
      /\ young[1] \in Nat /\ young[2] \in Nat /\ young[3] \in Nat /\ Credit \in Nat
      /\ TypeOK /\ MarksOrdered
  BY SamplerTyped
<1>3. Stored \in Nat /\ Stored = old + young[1] + young[2] + young[3] /\ live' \in Nat
  BY <1>1, <1>2 DEF Stored
<1>4. TypeOK'
  BY <1>1, <1>2, <1>3 DEF TypeOK
<1>5. MarksOrdered' /\ base' >= base /\ Stored' = Stored
  BY <1>1, <1>2 DEF MarksOrdered, Stored
<1>6. ASSUME Credit' = Credit, ~CloseTicks, YoungCovered PROVE YoungCovered'
  <2>1. /\ young[1] + marks[2] <= Credit
        /\ young[1] + young[2] + marks[1] <= Credit
        /\ young[1] + young[2] + young[3] + base <= Credit
    BY <1>1, <1>6 DEF YoungCovered
  <2>2. PICK l \in {old, Stored} : l = live'
    BY <1>1
  <2>3. Stored + base <= l + Credit
    BY <1>2, <1>3, <2>1, <2>2
  <2>4. QED
    BY <1>6, <1>1, <1>5, <2>1, <2>2, <2>3 DEF YoungCovered
<1>7. QED
  BY <1>1, <1>4, <1>5, <1>6, SamplerMoves

-----------------------------------------------------------------------------
(* The theorems. *)

LEMMA QuotaInitInv ==
  Init => QuotaInv
<1> SUFFICES ASSUME Init PROVE QuotaInv
  OBVIOUS
<1>1. req = [w \in Writers |-> Idle] /\ \A w \in Writers : req[w].st = "idle" /\ req[w].rev = 0
  BY DEF Init, Idle
<1>2. req \in [Writers -> Requests]
  BY <1>1, IdleTyped
<1>3. Holding = {} /\ Wrote = {}
  BY <1>1 DEF Holding, Wrote
<1>4. Costs(req, {}) = 0
  BY CostsRec, FS_EmptySet
<1>5. Costs(req, Holding) = 0 /\ Costs(req, Wrote) = 0
  BY <1>3, <1>4
<1>6. /\ old \in Nat /\ live = old /\ written = 0 /\ committed = 0 /\ base = 0 /\ marks = <<0, 0>>
      /\ sampler = [st |-> "idle", mark |-> 0] /\ young = <<0, 0, 0>> /\ uncounted = 0
      /\ row = [k \in Keys |-> [rev |-> 0, size |-> 0]] /\ revision = 0 /\ MaxRev \in Nat
  BY QuotaAssumption DEF Init
<1>7. Credit = 0 /\ Stored = old
  BY <1>5, <1>6 DEF Credit, Stored
<1>8. TypeOK
  BY <1>2, <1>6 DEF TypeOK, Requests
<1>9. RowInv /\ MarksOrdered
  BY <1>6 DEF RowInv, MarksOrdered
<1>10. Balance
  BY <1>5, <1>6 DEF Balance
<1>11. YoungCovered
  BY <1>6, <1>7 DEF YoungCovered
<1>12. \A w \in Writers : RequestInv(req[w]) /\ LoadedCovers(req[w])
  BY <1>1 DEF RequestInv, LoadedCovers
<1>13. QED
  BY <1>8, <1>9, <1>10, <1>11, <1>12 DEF QuotaInv, Covered

LEMMA RequestKeeps ==
  ASSUME QuotaInv, NEW w \in Writers, Request(w) PROVE QuotaInv'
<1>1. CASE Create(w)
  BY <1>1, CreateKeeps
<1>2. CASE Update(w)
  BY <1>2, UpdateKeeps
<1>3. CASE LoadLive(w)
  BY <1>3, LoadLiveKeeps
<1>4. CASE Reserve(w)
  BY <1>4, ReserveKeeps
<1>5. CASE GiveBack(w)
  BY <1>5, GiveBackKeeps
<1>6. CASE admitControlCreate(w)
  BY <1>6, AdmitControlCreateKeeps
<1>7. CASE admitUpdate(w)
  BY <1>7, AdmitUpdateKeeps
<1>8. CASE admitReadFails(w)
  BY <1>8, EndKeeps DEF admitReadFails
<1>9. CASE CallWrites(w)
  BY <1>9, CallWritesKeeps
<1>10. CASE CallFails(w)
  BY <1>10, CallEnds DEF CallFails
<1>11. CASE CallRefused(w)
  BY <1>11, CallEnds DEF CallRefused
<1>12. CASE CallSwallowed(w)
  BY <1>12, CallSwallowedKeeps
<1>13. CASE settle(w)
  BY <1>13, SettleKeeps
<1>14. QED
  BY <1>1, <1>2, <1>3, <1>4, <1>5, <1>6, <1>7, <1>8, <1>9, <1>10, <1>11, <1>12, <1>13 DEF Request

LEMMA QuotaStepInv ==
  QuotaInv /\ [Next]_vars => QuotaInv'
<1> SUFFICES ASSUME QuotaInv, [Next]_vars PROVE QuotaInv'
  OBVIOUS
<1>1. CASE Sampler
  BY <1>1, SampleBeginsKeeps, SampleFailsKeeps, SampleStoredKeeps, SampleAdvancesKeeps, ResampleKeeps
  DEF Sampler
<1>2. ASSUME NEW w \in Writers, Request(w) PROVE QuotaInv'
  BY <1>2, RequestKeeps
<1>3. ASSUME NEW k \in Keys, Delete(k) PROVE QuotaInv'
  BY <1>3, DeleteKeeps
<1>4. CASE UNCHANGED vars
  <2>1. UNCHANGED <<live, written, committed, base, marks, sampler, req, row, revision, old, young, uncounted>>
    BY <1>4 DEF vars, atomics, database
  <2>2. TypeOK' /\ MarksOrdered' /\ Stored' = Stored /\ base' >= base
    BY <2>1 DEF QuotaInv, TypeOK, MarksOrdered, Stored
  <2>3. Credit' = Credit /\ YoungCovered => YoungCovered'
    BY <2>1, <2>2 DEF YoungCovered
  <2>4. QED
    BY <2>1, <2>2, <2>3, SamplerMoves
<1>5. QED
  BY <1>1, <1>2, <1>3, <1>4 DEF Next

(* The invariant holds. *)
LEMMA QuotaInvariant ==
  Spec => []QuotaInv
BY QuotaInitInv, QuotaStepInv, PTL DEF Spec

(***************************************************************************)
(* The reservations, the marks and the requests keep their types.  For     *)
(* `written', a natural number, that says that no reservation is given     *)
(* back twice: the code subtracts from an int64 that could go below zero.  *)
(***************************************************************************)
THEOREM QuotaTypeCorrect ==
  Spec => []TypeOK
<1>1. QuotaInv => TypeOK
  BY DEF QuotaInv
<1>2. QED
  BY <1>1, QuotaInvariant, PTL

(* Every reservation is given back or committed exactly once, for any number of writers: settle    *)
(* and the refusals of reserveBelow and reserveWithin.                                             *)
THEOREM ReservationsBalanced ==
  Spec => []ReservationsBalance
<1>1. QuotaInv => ReservationsBalance
  <2> SUFFICES ASSUME QuotaInv PROVE ReservationsBalance
    OBVIOUS
  <2>1. Costs(req, Holding) \in Nat /\ committed \in Nat /\ written = committed + Costs(req, Holding)
    BY SumsTyped DEF QuotaInv, Balance, TypeOK
  <2>2. PICK h \in Nat : h = Costs(req, Holding)
    BY <2>1
  <2>3. written - committed = h
    BY <2>1, <2>2
  <2>4. QED
    BY <2>2, <2>3 DEF ReservationsBalance
<1>2. QED
  BY <1>1, QuotaInvariant, PTL

(* An update that admitUpdate passes without a reservation writes no row, whatever other writers   *)
(* did to its key since its read, if the revision it compares with was there at that read: no      *)
(* later row gets that revision.                                                                   *)
THEOREM FreePassIsFree ==
  Spec => []FreePassWritesNothing
<1>1. QuotaInv => FreePassWritesNothing
  BY DEF QuotaInv, RequestInv, Lost, FreePassWritesNothing
<1>2. QED
  BY <1>1, QuotaInvariant, PTL

(* What others hold in a call, and the rows written that are not settled, are all reserved. *)
LEMMA HeldCovers ==
  ASSUME TypeOK, NEW w \in Writers
  PROVE  /\ Costs(req, Others(w)) \in Nat /\ Costs(req, Wrote) \in Nat /\ Costs(req, Holding) \in Nat
         /\ Costs(req, Others(w)) + Costs(req, Wrote) <= Costs(req, Holding)
<1> DEFINE O == Others(w)
           R == Holding \ (O \cup Wrote)
<1>1. req \in [Writers -> Requests]
  BY SumsTyped
<1>2. /\ O \in SUBSET Writers /\ Wrote \in SUBSET Writers /\ R \in SUBSET Writers
      /\ O \cup Wrote \in SUBSET Writers /\ Holding \in SUBSET Writers
      /\ O \cap Wrote = {} /\ (O \cup Wrote) \cap R = {}
      /\ Holding = (O \cup Wrote) \cup R
  BY DEF Others, Wrote, Holding
<1> HIDE DEF O, R
<1>3. \A x \in Writers : req[x].cost \in Nat
  BY <1>1 DEF Requests
<1>4. /\ IsFiniteSet(O) /\ IsFiniteSet(Wrote) /\ IsFiniteSet(R) /\ IsFiniteSet(O \cup Wrote)
      /\ Costs(req, O) \in Nat /\ Costs(req, Wrote) \in Nat /\ Costs(req, R) \in Nat
      /\ Costs(req, Holding) \in Nat
  BY <1>1, <1>2, CostsNat
<1>5. Costs(req, O \cup Wrote) = Costs(req, O) + Costs(req, Wrote)
  BY <1>2, <1>3, <1>4, CostsUnion
<1>6. Costs(req, (O \cup Wrote) \cup R) = Costs(req, O \cup Wrote) + Costs(req, R)
  BY <1>2, <1>3, <1>4, CostsUnion
<1>7. Costs(req, Holding) = Costs(req, O) + Costs(req, Wrote) + Costs(req, R)
  BY <1>2, <1>5, <1>6
<1>8. PICK o \in Nat, x \in Nat, y \in Nat :
        o = Costs(req, O) /\ x = Costs(req, Wrote) /\ y = Costs(req, R)
  BY <1>4
<1>9. o + x <= o + x + y
  BY <1>8
<1>10. QED
  BY <1>4, <1>7, <1>8, <1>9 DEF O

(* The figure is never below the bytes stored, for any number of writers, any statistics lag of up *)
(* to two samples, and any interleaving of the loads and adds of figure, settle and sample.        *)
THEOREM FigureNeverLow ==
  ASSUME ~CloseTicks PROVE Spec => []FigureCovers
<1>1. QuotaInv => FigureCovers
  <2> SUFFICES ASSUME QuotaInv PROVE FigureCovers
    OBVIOUS
  <2>1. /\ TypeOK /\ Stored + base <= live + Credit /\ Balance
        /\ live \in Nat /\ base \in Nat /\ committed \in Nat /\ uncounted \in Nat /\ Stored \in Nat
    BY DEF QuotaInv, Covered, YoungCovered, TypeOK, Stored
  <2>2. PICK x \in Nat, h \in Nat : x = Costs(req, Wrote) /\ h = Costs(req, Holding)
    BY <2>1, SumsTyped
  <2>3. x <= h
    <3>1. CASE Writers = {}
      <4>1. Wrote = {} /\ Holding = {}
        BY <3>1 DEF Wrote, Holding
      <4>2. QED
        BY <2>2, <4>1
    <3>2. CASE Writers # {}
      <4>1. PICK w \in Writers : TRUE
        BY <3>2
      <4>2. PICK o \in Nat : o = Costs(req, Others(w)) /\ o + x <= h
        BY <2>1, <2>2, HeldCovers
      <4>3. QED
        BY <4>2
    <3>3. QED
      BY <3>1, <3>2
  <2>4. written = committed + h /\ Credit = committed + x + uncounted
    BY <2>1, <2>2 DEF Balance, Credit
  <2>5. live + (committed + h) - base + uncounted >= Stored
    BY <2>1, <2>3, <2>4
  <2>6. QED
    BY <2>4, <2>5 DEF FigureCovers, Figure
<1>2. QED
  BY <1>1, QuotaInvariant, PTL

(* Only Reserve takes a request to its call. *)
LEMMA OnlyReserveAdmits ==
  ASSUME TypeOK, Next, NEW w \in Writers, req[w].st = "reserve", req'[w].st = "call"
  PROVE  reserved(req[w])
<1>1. req \in [Writers -> Requests]
  BY SumsTyped
<1>2. CASE Sampler
  BY <1>2 DEF Sampler, SampleBegins, SampleFails, SampleStored, SampleAdvances, Resample
<1>3. ASSUME NEW k \in Keys, Delete(k) PROVE FALSE
  BY <1>3 DEF Delete
<1>4. ASSUME NEW x \in Writers, Request(x) PROVE reserved(req[w])
  <2>1. PICK v : Step(x, v)
    BY <1>4 DEF Request, Create, Update, LoadLive, Reserve, GiveBack, admitControlCreate, admitUpdate,
       admitReadFails, CallWrites, CallFails, CallRefused, CallSwallowed, settle
  <2>2. x = w
    BY <1>1, <2>1 DEF Step
  <2>3. Reserve(w)
    BY <1>4, <2>2 DEF Request, Create, Update, LoadLive, GiveBack, admitControlCreate, admitUpdate,
       admitReadFails, CallWrites, CallFails, CallRefused, CallSwallowed, settle
  <2>4. ~Step(w, decided(req[w], "giveback"))
    BY <1>1 DEF Step, decided, Requests
  <2>5. QED
    BY <2>3, <2>4 DEF Reserve
<1>5. QED
  BY <1>2, <1>3, <1>4 DEF Next

LEMMA AdmittedWithin ==
  ASSUME ~CloseTicks, QuotaInv, Next, NEW w \in Writers, req[w].st = "reserve", req'[w].st = "call"
  PROVE  Stored - uncounted + Costs(req, Others(w)) + (IF req[w].lane = "below" THEN 0 ELSE req[w].cost)
           <= capOf(req[w].lane)
<1>1. /\ TypeOK /\ Balance /\ req \in [Writers -> Requests] /\ LoadedCovers(req[w])
      /\ committed \in Nat /\ written \in Nat /\ uncounted \in Nat /\ Stored \in Nat
  BY SumsTyped DEF QuotaInv, Covered, TypeOK, Stored
<1>2. PICK o \in Nat, x \in Nat, h \in Nat :
        /\ o = Costs(req, Others(w)) /\ x = Costs(req, Wrote) /\ h = Costs(req, Holding)
        /\ o + x <= h
  BY <1>1, HeldCovers
<1>3. written = committed + h /\ Credit = committed + x + uncounted
  BY <1>1, <1>2 DEF Balance, Credit
<1>4. PICK r \in Requests : r = req[w]
  BY <1>1
<1>5. r.live \in Nat /\ r.base \in Nat /\ r.cost \in Nat /\ r.lane \in {"below", "create", "control", "cleanup"}
  BY DEF Requests
<1>6. Stored + r.base <= r.live + (committed + x + uncounted)
  BY <1>1, <1>3, <1>4 DEF LoadedCovers
<1>7. Stored - uncounted + o <= r.live + written - r.base
  BY <1>1, <1>2, <1>3, <1>5, <1>6
<1>8. reserved(r)
  BY <1>1, <1>4, OnlyReserveAdmits
<1>9. figure(r) = r.live + written - r.base + r.cost /\ figure(r) \in Int
  BY <1>1, <1>5 DEF figure
<1>10. createCap \in Int /\ ceiling \in Int /\ cleanupCap \in Int /\ limit \in Nat
  BY QuotaAssumption DEF createCap, ceiling, cleanupCap
<1>11. CASE r.lane = "below"
  <2>1. figure(r) - r.cost < limit
    BY <1>8, <1>11 DEF reserved, reserveBelow
  <2>2. Stored - uncounted + o + 0 <= limit - 1
    BY <1>1, <1>2, <1>5, <1>7, <1>9, <1>10, <2>1
  <2>3. QED
    BY <1>2, <1>4, <1>11, <2>2 DEF capOf
<1>12. CASE r.lane # "below"
  <2>1. PICK c \in Int : c = capOf(r.lane)
    BY <1>5, <1>10, <1>12 DEF capOf
  <2>2. figure(r) <= c
    BY <1>5, <1>8, <1>12, <2>1 DEF reserved, reserveWithin, capOf
  <2>3. Stored - uncounted + o + r.cost <= c
    BY <1>1, <1>2, <1>5, <1>7, <1>9, <2>2
  <2>4. QED
    BY <1>2, <1>4, <1>12, <2>1, <2>3
<1>13. QED
  BY <1>11, <1>12

(* "Concurrent writes see each other: the limit is passed by one write at most" (kubehz_quota.go), *)
(* for any number of concurrent requests and any limit and margins, while an interval passes       *)
(* between samples; and what a lane admits stays within that lane's cap.                           *)
THEOREM LimitIsKept ==
  ASSUME ~CloseTicks PROVE Spec => LimitHolds
<1>1. QuotaInv /\ [Next]_vars => [\A w \in Writers :
        req[w].st = "reserve" /\ req'[w].st = "call" =>
          Stored - uncounted + Costs(req, Others(w)) + (IF req[w].lane = "below" THEN 0 ELSE req[w].cost)
            <= capOf(req[w].lane)]_vars
  BY AdmittedWithin
<1>2. QED
  BY <1>1, QuotaInvariant, PTL DEF Spec, LimitHolds

=============================================================================
