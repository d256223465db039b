----------------------------- MODULE NatsProofs -----------------------------
(***************************************************************************)
(* Proofs about Nats: the types, that a delete marker follows its          *)
(* tombstone, that a watch has no gap, that acknowledged writes are read,  *)
(* that the index has the newest version of what it has passed, that no    *)
(* lease is forgotten, and that reads of the index are exact.              *)
(***************************************************************************)
EXTENDS Nats, FiniteSetTheorems, WellFoundedInduction, SequenceTheorems, TLAPS

-----------------------------------------------------------------------------
(* Least and greatest numbers of a set. *)

LEMMA LeastNumber ==
  ASSUME NEW S \in SUBSET Nat, S # {}
  PROVE  \E m \in S : \A n \in S : m <= n
<1>1. IsWellFoundedOn(OpToRel(<, Nat), Nat)
  BY NatLessThanWellFounded
<1> DEFINE R == OpToRel(<, Nat)
<1> HIDE DEF R
<1>2. PICK m \in S : \A n \in S : ~(<<n, m>> \in R)
  BY <1>1, WFMin DEF R
<1>3. ASSUME NEW n \in S PROVE m <= n
  <2>1. ~(n < m)
    BY <1>2 DEF R, OpToRel
  <2>2. QED
    BY <2>1
<1>4. QED
  BY <1>3

LEMMA MinOf ==
  ASSUME NEW S \in SUBSET Nat, S # {}
  PROVE  Min(S) \in S /\ \A n \in S : Min(S) <= n
<1>1. \E m \in S : \A n \in S : m <= n
  BY LeastNumber
<1>2. QED
  BY <1>1, Zenon DEF Min

(* The greatest is the one that is least far from a bound. *)
LEMMA MaxOf ==
  ASSUME NEW S \in SUBSET Nat, S # {}, NEW b \in Nat, \A n \in S : n <= b
  PROVE  Max(S) \in S /\ \A n \in S : n <= Max(S)
<1> DEFINE D == {b - n : n \in S}
<1>1. D \in SUBSET Nat /\ D # {}
  <2>1. ASSUME NEW n \in S PROVE b - n \in Nat /\ b - n \in D
    BY SMT
  <2>2. QED
    BY <2>1, Zenon
<1> HIDE DEF D
<1>2. PICK d \in D : \A e \in D : d <= e
  BY <1>1, LeastNumber
<1>3. PICK m \in S : d = b - m
  BY <1>2 DEF D
<1>4. ASSUME NEW n \in S PROVE m >= n
  <2>1. b - n \in D
    BY DEF D
  <2>2. d <= b - n
    BY <1>2, <2>1
  <2>3. QED
    BY <1>3, <2>2
<1>5. \E x \in S : \A y \in S : x >= y
  BY <1>4
<1>6. Max(S) \in S /\ \A y \in S : Max(S) >= y
  BY <1>5, Zenon DEF Max
<1>7. QED
  BY <1>6

-----------------------------------------------------------------------------
(* The stream. *)

Ops == {"put", "tomb", "del"}
Entries == [seq : Seqs, op : Ops]
Reqs == [st : {"idle", "get", "write", "wait", "marker", "history"}, op : {"create", "update", "delete"}, key : Keys,
         leased : BOOLEAN, last : Seqs, seq : Seqs]

LEMMA StreamTyped ==
  ASSUME TypeOK
  PROVE  /\ Len(stream) \in Nat /\ Len(stream) \in Seqs /\ DOMAIN stream = 1 .. Len(stream)
         /\ \A s \in 1 .. Len(stream) : stream[s] \in Message
         /\ MaxSeq \in Nat /\ \A n \in Nat : n <= Len(stream) => n \in Seqs /\ n \in 0 .. Len(stream)
<1>1. stream \in Seq(Message) /\ Len(stream) <= MaxSeq /\ MaxSeq \in Nat
  BY NatsAssumption DEF TypeOK
<1> DEFINE M == Message
<1>2. stream \in Seq(M)
  BY <1>1
<1> HIDE DEF M
<1>3. Len(stream) \in Nat /\ DOMAIN stream = 1 .. Len(stream) /\ \A s \in 1 .. Len(stream) : stream[s] \in M
  BY <1>2
<1>4. Len(stream) \in Seqs /\ \A n \in Nat : n <= Len(stream) => n \in Seqs /\ n \in 0 .. Len(stream)
  BY <1>1, <1>3 DEF Seqs
<1>5. QED
  BY <1>1, <1>3, <1>4 DEF M

LEMMA LastOfSpec ==
  ASSUME TypeOK, NEW k
  PROVE  /\ LastOf(k) \in 0 .. Len(stream) /\ LastOf(k) \in Seqs
         /\ LastOf(k) # 0 => LastOf(k) \in SeqsOf(k) /\ stream[LastOf(k)].key = k
         /\ \A t \in SeqsOf(k) : t \in 1 .. Len(stream) /\ stream[t].key = k /\ LastOf(k) # 0 /\ t <= LastOf(k)
<1>1. /\ Len(stream) \in Nat /\ DOMAIN stream = 1 .. Len(stream)
      /\ \A n \in Nat : n <= Len(stream) => n \in Seqs /\ n \in 0 .. Len(stream)
  BY StreamTyped
<1>2. \A t \in SeqsOf(k) : t \in 1 .. Len(stream) /\ t \in Nat /\ t <= Len(stream) /\ stream[t].key = k
  BY <1>1 DEF SeqsOf
<1>3. CASE SeqsOf(k) = {}
  <2>1. LastOf(k) = 0
    BY <1>3 DEF LastOf
  <2>2. QED
    BY <1>1, <1>3, <2>1
<1>4. CASE SeqsOf(k) # {}
  <2>1. SeqsOf(k) \in SUBSET Nat
    BY <1>2
  <2>2. Max(SeqsOf(k)) \in SeqsOf(k) /\ \A n \in SeqsOf(k) : n <= Max(SeqsOf(k))
    BY <1>1, <1>2, <1>4, <2>1, MaxOf
  <2>3. LastOf(k) = Max(SeqsOf(k))
    BY <1>4 DEF LastOf
  <2>4. LastOf(k) \in SeqsOf(k) /\ \A n \in SeqsOf(k) : n <= LastOf(k)
    BY <2>2, <2>3
  <2>5. LastOf(k) \in 1 .. Len(stream) /\ stream[LastOf(k)].key = k
    BY <1>2, <2>4
  <2>6. LastOf(k) \in Nat /\ LastOf(k) <= Len(stream) /\ LastOf(k) # 0
    BY <1>1, <2>5
  <2>7. QED
    BY <1>1, <1>2, <2>4, <2>5, <2>6
<1>5. QED
  BY <1>3, <1>4

LEMMA NextFromSpec ==
  ASSUME TypeOK, NEW p \in Nat, NEW K, NEW s, s = NextFrom(p, K), s # 0
  PROVE  /\ s \in 1 .. Len(stream) /\ s \in Seqs /\ s >= p /\ stream[s].key \in K /\ Kept(s)
         /\ \A t \in 1 .. Len(stream) : t >= p /\ t < s /\ stream[t].key \in K => ~Kept(t)
<1> DEFINE next == {x \in DOMAIN stream : x >= p /\ stream[x].key \in K /\ Kept(x)}
<1>1. /\ Len(stream) \in Nat /\ DOMAIN stream = 1 .. Len(stream)
      /\ \A n \in Nat : n <= Len(stream) => n \in Seqs /\ n \in 0 .. Len(stream)
  BY StreamTyped
<1>2. next # {} /\ s = Min(next)
  BY DEF NextFrom
<1>3. next \in SUBSET Nat /\ next \subseteq 1 .. Len(stream)
  BY <1>1
<1> HIDE DEF next
<1>4. s \in next /\ \A n \in next : s <= n
  BY <1>2, <1>3, MinOf
<1>5. ASSUME NEW t \in 1 .. Len(stream), t >= p, t < s, stream[t].key \in K PROVE ~Kept(t)
  <2>1. t \notin next
    BY <1>3, <1>4, <1>5
  <2>2. QED
    BY <1>1, <1>5, <2>1 DEF next
<1>6. s \in Seqs
  <2>1. s \in Nat /\ s <= Len(stream)
    BY <1>1, <1>3, <1>4
  <2>2. QED
    BY <1>1, <2>1
<1>7. QED
  BY <1>1, <1>3, <1>4, <1>5, <1>6 DEF next

(* The newest message of a key is kept. *)
LEMMA LastKept ==
  ASSUME TypeOK, NEW k, LastOf(k) # 0
  PROVE  Kept(LastOf(k))
<1>1. /\ stream[LastOf(k)].key = k /\ \A t \in SeqsOf(k) : t <= LastOf(k) /\ t \in Nat
      /\ LastOf(k) \in Nat
  BY LastOfSpec, StreamTyped
<1>2. {t \in SeqsOf(stream[LastOf(k)].key) : t > LastOf(k)} = {}
  BY <1>1
<1>3. Cardinality({}) = 0 /\ 0 < History
  BY FS_EmptySet, NatsAssumption
<1>4. QED
  BY <1>2, <1>3 DEF Kept

(* What a message more does to the stream; what is not kept stays so. *)
LEMMA Published ==
  ASSUME TypeOK, NEW k \in AllKeys, NEW op \in Ops, NEW leased \in BOOLEAN, NEW rev \in Seqs,
         Publish(k, op, leased, rev)
  PROVE  /\ stream' \in Seq(Message) /\ Len(stream') = Len(stream) + 1 /\ Len(stream') <= MaxSeq
         /\ DOMAIN stream' = 1 .. Len(stream) + 1
         /\ \A s \in 1 .. Len(stream) : stream'[s] = stream[s]
         /\ stream'[Len(stream) + 1] = [key |-> k, op |-> op, leased |-> leased, rev |-> rev]
         /\ Len(stream) + 1 \in Seqs
<1> DEFINE m == [key |-> k, op |-> op, leased |-> leased, rev |-> rev]
           M == Message
<1>1. m \in Message
  BY DEF Message, Ops
<1>2. stream' = Append(stream, m) /\ Len(stream) < MaxSeq /\ stream \in Seq(Message)
  BY DEF Publish, TypeOK
<1>3. Len(stream) \in Nat /\ MaxSeq \in Nat
  BY StreamTyped
<1>4. m \in M /\ stream \in Seq(M)
  BY <1>1, <1>2
<1> HIDE DEF m, M
<1>5. /\ Append(stream, m) \in Seq(M) /\ Len(Append(stream, m)) = Len(stream) + 1
      /\ \A s \in 1 .. Len(stream) : Append(stream, m)[s] = stream[s]
      /\ Append(stream, m)[Len(stream) + 1] = m
  BY <1>4, AppendProperties
<1>6. DOMAIN stream' = 1 .. Len(stream) + 1
  BY <1>2, <1>5
<1>7. Len(stream) + 1 <= MaxSeq /\ Len(stream) + 1 \in Seqs
  BY <1>2, <1>3 DEF Seqs
<1>8. QED
  BY <1>2, <1>5, <1>6, <1>7 DEF m, M

LEMMA PublishedSeqs ==
  ASSUME TypeOK, NEW k \in AllKeys, NEW op \in Ops, NEW leased \in BOOLEAN, NEW rev \in Seqs,
         Publish(k, op, leased, rev), NEW l
  PROVE  /\ SeqsOf(l)' = IF l = k THEN SeqsOf(l) \cup {Len(stream) + 1} ELSE SeqsOf(l)
         /\ LastOf(l)' = IF l = k THEN Len(stream) + 1 ELSE LastOf(l)
<1>1. /\ DOMAIN stream' = 1 .. Len(stream) + 1
      /\ \A s \in 1 .. Len(stream) : stream'[s] = stream[s]
      /\ stream'[Len(stream) + 1] = [key |-> k, op |-> op, leased |-> leased, rev |-> rev]
  BY Published
<1>2. Len(stream) \in Nat /\ DOMAIN stream = 1 .. Len(stream)
  BY StreamTyped
<1>3. PICK n \in Nat : n = Len(stream)
  BY <1>2
<1>4. stream'[n + 1].key = k
  BY <1>1, <1>3
<1>5. SeqsOf(l)' = IF l = k THEN SeqsOf(l) \cup {n + 1} ELSE SeqsOf(l)
  BY <1>1, <1>2, <1>3, <1>4 DEF SeqsOf
<1>6. CASE l # k
  BY <1>3, <1>5, <1>6 DEF LastOf
<1>7. CASE l = k
  <2> DEFINE S == SeqsOf(l) \cup {n + 1}
  <2>1. S \in SUBSET Nat /\ n + 1 \in S /\ \A t \in S : t <= n + 1
    BY <1>2, <1>3 DEF SeqsOf
  <2>2. Max(S) \in S /\ \A t \in S : t <= Max(S)
    <3> HIDE DEF S
    <3>1. S # {} /\ n + 1 \in Nat
      BY <2>1
    <3>2. QED
      BY <2>1, <3>1, MaxOf
  <2>3. Max(S) = n + 1
    BY <2>1, <2>2
  <2>4. SeqsOf(l)' = S
    BY <1>5, <1>7
  <2> HIDE DEF S
  <2>5. LastOf(l)' = n + 1
    BY <2>1, <2>3, <2>4 DEF LastOf
  <2>6. QED
    BY <1>3, <1>5, <1>7, <2>5
<1>8. QED
  BY <1>6, <1>7

-----------------------------------------------------------------------------
(* Types. *)

LEMMA StartTyped ==
  /\ IdleReq \in Reqs /\ 0 \in Seqs /\ MaxSeq \in Nat
  /\ NotCompacting \in [st : {"idle", "read"}, target : Seqs, seq : Seqs]
  /\ NoWatch \in [on : BOOLEAN, start : 0 .. MaxSeq + 1, pos : 0 .. MaxSeq + 1, sent : SUBSET Seqs]
<1>1. 0 \in Seqs /\ MaxSeq \in Nat /\ 0 \in 0 .. MaxSeq + 1
  BY NatsAssumption DEF Seqs
<1>2. (CHOOSE k \in Keys : TRUE) \in Keys
  BY NatsAssumption
<1>3. IdleReq \in Reqs
  BY <1>1, <1>2 DEF IdleReq, Reqs
<1>4. QED
  BY <1>1, <1>3 DEF NotCompacting, NoWatch

LEMMA NatsInitType ==
  Init => TypeOK
<1> SUFFICES ASSUME Init PROVE TypeOK
  OBVIOUS
<1>1. /\ IdleReq \in Reqs /\ 0 \in Seqs /\ MaxSeq \in Nat
      /\ NotCompacting \in [st : {"idle", "read"}, target : Seqs, seq : Seqs]
      /\ NoWatch \in [on : BOOLEAN, start : 0 .. MaxSeq + 1, pos : 0 .. MaxSeq + 1, sent : SUBSET Seqs]
  BY StartTyped
<1>2. stream \in Seq(Message) /\ Len(stream) <= MaxSeq
  BY <1>1 DEF Init
<1>3. bt \in [AllKeys -> Seq([seq : Seqs, op : {"put", "tomb", "del"}])] /\ \A k \in AllKeys : Len(bt[k]) <= History
  BY NatsAssumption DEF Init
<1>4. consumer \in [pos : 1 .. MaxSeq + 1, target : Seqs, startup : BOOLEAN]
  BY <1>1 DEF Init
<1>5. req \in [Callers -> Reqs]
  BY <1>1 DEF Init
<1>6. faults \in [crashes : 0 .. MaxFaults, errors : 0 .. MaxFaults]
  BY NatsAssumption DEF Init
<1>7. QED
  BY <1>1, <1>2, <1>3, <1>4, <1>5, <1>6 DEF Init, TypeOK, Reqs

(* A step of requests, of one caller, that publishes nothing or one message. *)
LEMMA RequestTyped ==
  ASSUME TypeOK, NEW c \in Callers, NEW v \in Reqs, req' = [req EXCEPT ![c] = v],
         stream' \in Seq(Message), Len(stream') <= MaxSeq,
         UNCHANGED <<index, compaction, watch, faults>>,
         heap' \subseteq [key : Keys, seq : Seqs], acked' \in Seqs
  PROVE  TypeOK'
<1>1. UNCHANGED <<bt, lastSeq, consumer, ready, compactRev, compactSeen, compactor, watch, faults>>
  BY DEF index, compaction
<1>2. req' \in [Callers -> Reqs]
  BY DEF TypeOK, Reqs
<1>3. QED
  BY <1>1, <1>2 DEF TypeOK, Reqs

LEMMA RememberTyped ==
  ASSUME NEW h \in Seq(Entries), Len(h) <= History, NEW e \in Entries
  PROVE  /\ remember(h, e) \in Seq(Entries) /\ Len(remember(h, e)) <= History
         /\ remember(h, e) # <<>> /\ remember(h, e)[Len(remember(h, e))] = e
<1> DEFINE E == Entries
<1>1. h \in Seq(E) /\ e \in E /\ History \in Nat \ {0}
  BY NatsAssumption
<1> HIDE DEF E
<1>2. CASE Len(h) = History
  <2>1. h # <<>>
    BY <1>1, <1>2
  <2>2. Tail(h) \in Seq(E) /\ Len(Tail(h)) = Len(h) - 1
    BY <1>1, <2>1
  <2>3. /\ Append(Tail(h), e) \in Seq(E) /\ Len(Append(Tail(h), e)) = Len(Tail(h)) + 1
        /\ Append(Tail(h), e)[Len(Tail(h)) + 1] = e
    BY <1>1, <2>2, AppendProperties
  <2>4. Len(Append(Tail(h), e)) = History
    BY <1>1, <1>2, <2>2, <2>3
  <2>5. remember(h, e) = Append(Tail(h), e)
    BY <1>2 DEF remember
  <2>6. Append(Tail(h), e) # <<>>
    BY <1>1, <2>3, <2>4
  <2>7. QED
    BY <1>1, <2>3, <2>4, <2>5, <2>6 DEF E
<1>3. CASE Len(h) # History
  <2>1. /\ Append(h, e) \in Seq(E) /\ Len(Append(h, e)) = Len(h) + 1
        /\ Append(h, e)[Len(h) + 1] = e
    BY <1>1, AppendProperties
  <2>2. Len(Append(h, e)) <= History /\ Len(h) \in Nat
    BY <1>1, <1>3, <2>1
  <2>3. Append(h, e) # <<>>
    BY <2>1, <2>2
  <2>4. remember(h, e) = Append(h, e)
    BY <1>3 DEF remember
  <2>5. QED
    BY <2>1, <2>2, <2>3, <2>4 DEF E
<1>4. QED
  BY <1>2, <1>3

LEMMA BtreeUpdateTyped ==
  ASSUME TypeOK, btreeUpdate PROVE TypeOK'
<1> DEFINE s == NextFrom(consumer.pos, AllKeys)
           m == stream[s]
<1>1. /\ s # 0 /\ consumer' = [consumer EXCEPT !.pos = s + 1]
      /\ UNCHANGED <<stream, compactRev, compactSeen, compactor, heap, req, watch, acked, faults>>
  BY DEF btreeUpdate, compaction
<1>2. consumer \in [pos : 1 .. MaxSeq + 1, target : Seqs, startup : BOOLEAN] /\ consumer.pos \in Nat
  BY DEF TypeOK
<1>3. s \in 1 .. Len(stream) /\ s \in Seqs
  BY <1>1, <1>2, NextFromSpec
<1>4. m \in Message /\ s + 1 \in 1 .. MaxSeq + 1
  <2>1. Len(stream) \in Nat /\ Len(stream) <= MaxSeq /\ MaxSeq \in Nat
    BY StreamTyped DEF TypeOK
  <2>2. QED
    BY <1>3, <2>1, StreamTyped
<1> HIDE DEF s, m
<1>5. consumer' \in [pos : 1 .. MaxSeq + 1, target : Seqs, startup : BOOLEAN]
  BY <1>1, <1>2, <1>4
<1>6. CASE delivered(s)
  <2>1. /\ bt' = [bt EXCEPT ![m.key] = remember(@, [seq |-> s, op |-> m.op])]
        /\ lastSeq' = s /\ ready' = (ready \/ startupDone(s))
    BY <1>6 DEF btreeUpdate, s, m
  <2>2. m.key \in AllKeys /\ [seq |-> s, op |-> m.op] \in Entries
    BY <1>3, <1>4 DEF Message, Entries, Ops
  <2>3. bt \in [AllKeys -> Seq(Entries)] /\ \A k \in AllKeys : Len(bt[k]) <= History
    BY DEF TypeOK, Entries, Ops
  <2> DEFINE h == remember(bt[m.key], [seq |-> s, op |-> m.op])
             Q == Seq(Entries)
  <2>4. h \in Q /\ Len(h) <= History
    BY <2>2, <2>3, RememberTyped
  <2>5. bt' = [bt EXCEPT ![m.key] = h] /\ bt \in [AllKeys -> Q]
    BY <2>1, <2>3
  <2> HIDE DEF h, Q
  <2>6. bt' \in [AllKeys -> Q] /\ \A k \in AllKeys : Len(bt'[k]) <= History
    BY <2>2, <2>3, <2>4, <2>5
  <2>7. ready' \in BOOLEAN
    BY <2>1, Zenon
  <2>8. QED
    BY <1>1, <1>3, <1>5, <2>1, <2>6, <2>7 DEF TypeOK, Q, Entries, Ops
<1>7. CASE ~delivered(s)
  <2>1. UNCHANGED <<bt, lastSeq, ready>>
    BY <1>7 DEF btreeUpdate, s
  <2>2. QED
    BY <1>1, <1>5, <2>1 DEF TypeOK
<1>8. QED
  BY <1>6, <1>7

LEMMA ErrorTyped ==
  ASSUME TypeOK, ErrorOccurs
  PROVE  faults' \in [crashes : 0 .. MaxFaults, errors : 0 .. MaxFaults] /\ faults'.crashes = faults.crashes
<1>1. /\ faults \in [crashes : 0 .. MaxFaults, errors : 0 .. MaxFaults] /\ MaxFaults \in Nat
      /\ faults.crashes + faults.errors < MaxFaults /\ faults' = [faults EXCEPT !.errors = faults.errors + 1]
  BY NatsAssumption DEF TypeOK, ErrorOccurs
<1>2. PICK e \in 0 .. MaxFaults : e = faults.errors + 1
  BY <1>1
<1>3. faults' = [faults EXCEPT !.errors = e]
  BY <1>1, <1>2
<1>4. QED
  BY <1>1, <1>3

LEMMA BtreeRestartTyped ==
  ASSUME TypeOK, btreeRestart PROVE TypeOK'
<1>1. UNCHANGED <<stream, bt, lastSeq, ready, compactRev, compactSeen, compactor, heap, req, watch, acked>>
  BY DEF btreeRestart, compaction
<1>2. lastSeq \in Seqs /\ MaxSeq \in Nat /\ Len(stream) \in Seqs
  BY StreamTyped DEF TypeOK
<1>3. resumeAt \in 1 .. MaxSeq + 1
  BY <1>2 DEF resumeAt, Seqs
<1> DEFINE up == lastSeq = 0 /\ ~ready
<1>4. up \in BOOLEAN /\ consumer' = [pos |-> resumeAt, target |-> Len(stream), startup |-> up]
  BY DEF btreeRestart
<1> HIDE DEF up
<1>5. consumer' \in [pos : 1 .. MaxSeq + 1, target : Seqs, startup : BOOLEAN]
  BY <1>2, <1>3, <1>4
<1>6. faults' \in [crashes : 0 .. MaxFaults, errors : 0 .. MaxFaults]
  BY ErrorTyped DEF btreeRestart
<1>7. QED
  BY <1>1, <1>5, <1>6 DEF TypeOK

LEMMA LookupTyped ==
  ASSUME TypeOK, NEW c \in Callers, NEW op \in {"create", "update", "delete"}, NEW k \in Keys,
         NEW leased \in BOOLEAN, NEW last \in Seqs, Lookup(c, op, k, leased, last)
  PROVE  \E v \in Reqs : /\ req' = [req EXCEPT ![c] = v]
                         /\ v = IdleReq \/ (v.st \in {"get", "write"} /\ v.op = op /\ v.leased = leased)
<1> DEFINE there == getSeqOp(bt[k], 0) # 0
           r == [st |-> IF there THEN "get" ELSE "write", op |-> op, key |-> k, leased |-> leased, last |-> last, seq |-> 0]
<1>1. req' = [req EXCEPT ![c] = IF there \/ op = "create" THEN r ELSE IdleReq]
  BY DEF Lookup
<1>2. 0 \in Seqs /\ IdleReq \in Reqs
  BY StartTyped
<1>3. (IF there THEN "get" ELSE "write") \in {"get", "write"}
  OBVIOUS
<1>4. r \in Reqs /\ r.st \in {"get", "write"} /\ r.op = op /\ r.leased = leased
  BY <1>2, <1>3 DEF Reqs
<1> HIDE DEF r, there
<1>5. QED
  BY <1>1, <1>2, <1>4

LEMMA BeginTyped ==
  ASSUME TypeOK, NEW c \in Clients, Begin(c) PROVE TypeOK'
<1>1. PICK op \in {"create", "update", "delete"}, k \in Keys, leased \in BOOLEAN : Lookup(c, op, k, leased, 0)
  BY DEF Begin
<1>2. c \in Callers /\ 0 \in Seqs
  BY StartTyped DEF Callers
<1>3. PICK v \in Reqs : req' = [req EXCEPT ![c] = v]
  BY <1>1, <1>2, LookupTyped
<1>4. UNCHANGED <<stream, index, compaction, heap, watch, acked, faults>>
  BY DEF Begin
<1>5. /\ stream' \in Seq(Message) /\ Len(stream') <= MaxSeq
      /\ heap' \subseteq [key : Keys, seq : Seqs] /\ acked' \in Seqs
  BY <1>4 DEF TypeOK
<1>6. QED
  BY <1>2, <1>3, <1>4, <1>5, RequestTyped

LEMMA ExpireTyped ==
  ASSUME TypeOK, Expire PROVE TypeOK'
<1>1. PICK e \in heap : Lookup(Expirer, "delete", e.key, FALSE, e.seq) /\ heap' = heap \ {e}
  BY DEF Expire
<1>2. heap \subseteq [key : Keys, seq : Seqs] /\ e.key \in Keys /\ e.seq \in Seqs /\ Expirer \in Callers
  BY DEF TypeOK, Callers
<1>3. PICK v \in Reqs : req' = [req EXCEPT ![Expirer] = v]
  BY <1>1, <1>2, LookupTyped
<1>4. UNCHANGED <<stream, index, compaction, watch, acked, faults>>
  BY DEF Expire
<1>5. /\ stream' \in Seq(Message) /\ Len(stream') <= MaxSeq
      /\ heap' \subseteq [key : Keys, seq : Seqs] /\ acked' \in Seqs
  BY <1>1, <1>2, <1>4 DEF TypeOK
<1>6. QED
  BY <1>2, <1>3, <1>4, <1>5, RequestTyped

(* What Get makes of a request. *)
LEMMA GetMoves ==
  ASSUME TypeOK, NEW c \in Callers, Get(c)
  PROVE  \E v \in Reqs :
           /\ req' = [req EXCEPT ![c] = v]
           /\ \/ v = IdleReq
              \/ /\ v.st = "write" /\ v.op = req[c].op /\ v.key = req[c].key /\ v.leased = req[c].leased
                 /\ v.last = 0 \/ v.last = LastOf(v.key)
<1> DEFINE r == req[c]
           s == LastOf(r.key)
           found == IF s = 0 THEN "del" ELSE stream[s].op
           goesOn == CASE r.op = "create" -> found # "put"
                       [] OTHER -> found = "put" /\ r.last \in {0, s}
           l == IF found = "del" THEN 0 ELSE s
           w == [r EXCEPT !.st = "write", !.last = l]
<1>1. req' = [req EXCEPT ![c] = IF goesOn THEN w ELSE IdleReq]
  BY DEF Get
<1>2. r \in Reqs /\ s \in Seqs /\ 0 \in Seqs /\ IdleReq \in Reqs
  BY LastOfSpec, StartTyped DEF TypeOK, Reqs
<1>3. l \in Seqs /\ (l = 0 \/ l = LastOf(r.key))
  BY <1>2
<1> HIDE DEF r, s, found, goesOn, l
<1>4. w \in Reqs /\ w.st = "write" /\ w.op = r.op /\ w.key = r.key /\ w.leased = r.leased /\ w.last = l
  BY <1>2, <1>3 DEF Reqs
<1> HIDE DEF w
<1>5. QED
  BY <1>1, <1>2, <1>3, <1>4 DEF r

LEMMA GetTyped ==
  ASSUME TypeOK, NEW c \in Callers, Get(c) PROVE TypeOK'
<1>1. PICK v \in Reqs : req' = [req EXCEPT ![c] = v]
  BY GetMoves
<1>2. UNCHANGED <<stream, index, compaction, heap, watch, acked, faults>>
  BY DEF Get
<1>3. /\ stream' \in Seq(Message) /\ Len(stream') <= MaxSeq
      /\ heap' \subseteq [key : Keys, seq : Seqs] /\ acked' \in Seqs
  BY <1>2 DEF TypeOK
<1>4. QED
  BY <1>1, <1>2, <1>3, RequestTyped

(* A request whose message is in the stream waits for it. *)
LEMMA WaitingTyped ==
  ASSUME TypeOK, NEW c \in Callers, Len(stream) < MaxSeq
  PROVE  LET v == [req[c] EXCEPT !.st = "wait", !.seq = Len(stream) + 1] IN
         /\ v \in Reqs /\ v.st = "wait" /\ v.seq = Len(stream) + 1
         /\ v.op = req[c].op /\ v.key = req[c].key /\ v.leased = req[c].leased
<1>1. req[c] \in Reqs
  BY DEF TypeOK, Reqs
<1>2. PICK n \in Seqs : n = Len(stream) + 1
  BY StreamTyped DEF Seqs
<1>3. QED
  BY <1>1, <1>2 DEF Reqs

(* What Write makes of a request; the answer of one that is done may be lost. *)
LEMMA WriteMoves ==
  ASSUME TypeOK, NEW c \in Callers, Write(c)
  PROVE  \/ req' = [req EXCEPT ![c] = IdleReq] /\ UNCHANGED stream
         \/ /\ req' = [req EXCEPT ![c] = IdleReq] /\ RequestFails
            /\ Publish(req[c].key, IF req[c].op = "delete" THEN "tomb" ELSE "put", req[c].leased, 0)
         \/ /\ req' = [req EXCEPT ![c] = [req[c] EXCEPT !.st = "wait", !.seq = Len(stream) + 1]]
            /\ Publish(req[c].key, IF req[c].op = "delete" THEN "tomb" ELSE "put", req[c].leased, 0)
            /\ Accepts(req[c].key, req[c].last)
  BY DEF Write, Outcomes

LEMMA MarkerMoves ==
  ASSUME TypeOK, NEW c \in Callers, Marker(c)
  PROVE  \E v \in Reqs :
           /\ req' = [req EXCEPT ![c] = v]
           /\ v = IdleReq \/ (v = [req[c] EXCEPT !.st = "history"] /\ v.st = "history" /\ v.op = req[c].op
                              /\ v.key = req[c].key /\ v.leased = req[c].leased /\ v.seq = req[c].seq)
           /\ \/ v = IdleReq /\ UNCHANGED stream
              \/ Publish(req[c].key, "del", FALSE, 0) /\ LastOf(req[c].key) = req[c].seq
<1>1. req[c] \in Reqs /\ IdleReq \in Reqs
  BY StartTyped DEF TypeOK, Reqs
<1>2. PICK w : w = [req[c] EXCEPT !.st = "history"]
  OBVIOUS
<1>3. w \in Reqs /\ w.st = "history" /\ w.op = req[c].op /\ w.key = req[c].key /\ w.leased = req[c].leased /\ w.seq = req[c].seq
  BY <1>1, <1>2 DEF Reqs
<1>4. \/ req' = [req EXCEPT ![c] = IdleReq] /\ UNCHANGED stream
      \/ /\ req' = [req EXCEPT ![c] = IdleReq] \/ req' = [req EXCEPT ![c] = w]
         /\ Publish(req[c].key, "del", FALSE, 0) /\ LastOf(req[c].key) = req[c].seq
  BY <1>2 DEF Marker, markerLast
<1>5. QED
  BY <1>1, <1>2, <1>3, <1>4

(* What MarkerHistory makes of a Delete: it waits for a delete marker, or returns. *)
LEMMA HistoryMoves ==
  ASSUME TypeOK, NEW c \in Callers, MarkerHistory(c)
  PROVE  \E v \in Reqs :
           /\ req' = [req EXCEPT ![c] = v]
           /\ \/ v = IdleReq /\ acked' \in {acked, req[c].seq}
              \/ /\ v.st = "wait" /\ v.seq = LastOf(req[c].key) /\ stream[LastOf(req[c].key)].op = "del"
                 /\ v.op = req[c].op /\ v.key = req[c].key /\ v.leased = req[c].leased /\ UNCHANGED acked
<1>1. req[c] \in Reqs /\ IdleReq \in Reqs /\ LastOf(req[c].key) \in Seqs
  BY StartTyped, LastOfSpec DEF TypeOK, Reqs
<1>2. PICK n \in Seqs : n = LastOf(req[c].key)
  BY <1>1
<1>3. PICK w : w = [req[c] EXCEPT !.st = "wait", !.seq = n]
  OBVIOUS
<1>4. w \in Reqs /\ w.st = "wait" /\ w.seq = n /\ w.op = req[c].op /\ w.key = req[c].key /\ w.leased = req[c].leased
  BY <1>1, <1>2, <1>3 DEF Reqs
<1>5. \/ req' = [req EXCEPT ![c] = IdleReq] /\ acked' \in {acked, req[c].seq}
      \/ req' = [req EXCEPT ![c] = w] /\ stream[n].op = "del" /\ UNCHANGED acked
  BY <1>2, <1>3 DEF MarkerHistory
<1>6. QED
  BY <1>1, <1>2, <1>4, <1>5

LEMMA PublishingTyped ==
  ASSUME TypeOK, NEW c \in Callers, UNCHANGED <<index, compaction, heap, watch, acked, faults>>,
         NEW v \in Reqs, req' = [req EXCEPT ![c] = v],
         UNCHANGED stream \/ \E op \in Ops, leased \in BOOLEAN : Publish(req[c].key, op, leased, 0)
  PROVE  TypeOK'
<1>1. heap' \subseteq [key : Keys, seq : Seqs] /\ acked' \in Seqs
  BY DEF TypeOK
<1>2. CASE UNCHANGED stream
  <2>1. stream' \in Seq(Message) /\ Len(stream') <= MaxSeq
    BY <1>2 DEF TypeOK
  <2>2. QED
    BY <1>1, <2>1, RequestTyped
<1>3. CASE \E op \in Ops, leased \in BOOLEAN : Publish(req[c].key, op, leased, 0)
  <2>1. PICK op \in Ops, leased \in BOOLEAN : Publish(req[c].key, op, leased, 0)
    BY <1>3
  <2>2. req[c].key \in AllKeys /\ 0 \in Seqs
    BY StartTyped DEF TypeOK, AllKeys
  <2>3. stream' \in Seq(Message) /\ Len(stream') <= MaxSeq
    BY <2>1, <2>2, Published
  <2>4. QED
    BY <1>1, <2>3, RequestTyped
<1>4. QED
  BY <1>2, <1>3

LEMMA WriteTyped ==
  ASSUME TypeOK, NEW c \in Callers, Write(c) PROVE TypeOK'
<1>1. UNCHANGED <<index, compaction, heap, watch, acked, faults>>
  BY DEF Write
<1>2. (IF req[c].op = "delete" THEN "tomb" ELSE "put") \in Ops /\ req[c].leased \in BOOLEAN
  BY DEF Ops, TypeOK
<1>3. UNCHANGED stream \/ \E op \in Ops, leased \in BOOLEAN : Publish(req[c].key, op, leased, 0)
  BY <1>2, WriteMoves
<1>4. PICK v \in Reqs : req' = [req EXCEPT ![c] = v]
  <2>1. CASE req' = [req EXCEPT ![c] = IdleReq]
    BY <2>1, StartTyped
  <2>2. CASE /\ req' = [req EXCEPT ![c] = [req[c] EXCEPT !.st = "wait", !.seq = Len(stream) + 1]]
             /\ Publish(req[c].key, IF req[c].op = "delete" THEN "tomb" ELSE "put", req[c].leased, 0)
    <3>1. Len(stream) < MaxSeq
      BY <2>2 DEF Publish
    <3>2. QED
      BY <2>2, <3>1, WaitingTyped
  <2>3. QED
    BY <2>1, <2>2, WriteMoves
<1>5. QED
  BY <1>1, <1>3, <1>4, PublishingTyped

LEMMA MarkerTyped ==
  ASSUME TypeOK, NEW c \in Callers, Marker(c) PROVE TypeOK'
<1>1. UNCHANGED <<index, compaction, heap, watch, acked, faults>>
  BY DEF Marker
<1>2. "del" \in Ops /\ FALSE \in BOOLEAN
  BY DEF Ops
<1>3. PICK v \in Reqs : /\ req' = [req EXCEPT ![c] = v]
                        /\ UNCHANGED stream \/ Publish(req[c].key, "del", FALSE, 0)
  BY MarkerMoves
<1>4. QED
  BY <1>1, <1>2, <1>3, PublishingTyped

LEMMA HistoryTypedStep ==
  ASSUME TypeOK, NEW c \in Callers, MarkerHistory(c) PROVE TypeOK'
<1>1. UNCHANGED <<stream, index, compaction, heap, watch, faults>>
  BY DEF MarkerHistory
<1>2. PICK v \in Reqs : req' = [req EXCEPT ![c] = v] /\ acked' \in {acked, req[c].seq}
  BY HistoryMoves
<1>3. /\ stream' \in Seq(Message) /\ Len(stream') <= MaxSeq
      /\ heap' \subseteq [key : Keys, seq : Seqs] /\ acked' \in Seqs
  BY <1>1, <1>2 DEF TypeOK
<1>4. QED
  BY <1>1, <1>2, <1>3, RequestTyped

LEMMA WaitedTyped ==
  ASSUME TypeOK, NEW c \in Callers, Waited(c) PROVE TypeOK'
<1>1. req[c] \in Reqs /\ IdleReq \in Reqs /\ UNCHANGED <<stream, index, compaction, watch, faults>>
  BY StartTyped DEF Waited, TypeOK, Reqs
<1>2. PICK v \in Reqs : req' = [req EXCEPT ![c] = v]
  <2>1. [req[c] EXCEPT !.st = "marker"] \in Reqs
    BY <1>1 DEF Reqs
  <2>2. QED
    BY <1>1, <2>1 DEF Waited
<1>3. /\ stream' \in Seq(Message) /\ Len(stream') <= MaxSeq
  BY <1>1 DEF TypeOK
<1>4. heap' \subseteq [key : Keys, seq : Seqs]
  <2>1. [key |-> req[c].key, seq |-> req[c].seq] \in [key : Keys, seq : Seqs]
    BY <1>1 DEF Reqs
  <2>2. heap \subseteq [key : Keys, seq : Seqs]
    BY DEF TypeOK
  <2>3. heap' \in {heap, heap \cup {[key |-> req[c].key, seq |-> req[c].seq]}}
    BY DEF Waited
  <2>4. QED
    BY <2>1, <2>2, <2>3
<1>5. acked' \in Seqs
  BY <1>1 DEF Waited, TypeOK, Reqs
<1>6. QED
  BY <1>1, <1>2, <1>3, <1>4, <1>5, RequestTyped

(* The revisions that a compaction may be for. *)
LEMMA ToldTyped ==
  ASSUME TypeOK
  PROVE  /\ CompactValue \in Seqs /\ CompactValue \in Nat /\ Told \in Seqs
         /\ \A n \in Nat : \A t \in CompactValue + n .. Told : t \in Seqs
<1>1. lastSeq \in Seqs /\ Len(stream) \in Seqs /\ 0 \in Seqs /\ MaxSeq \in Nat
  BY StreamTyped, StartTyped DEF TypeOK
<1>2. CompactValue \in Seqs
  <2>1. CASE LastOf(CompactKey) = 0
    BY <1>1, <2>1 DEF CompactValue
  <2>2. CASE LastOf(CompactKey) # 0
    <3>1. LastOf(CompactKey) \in 1 .. Len(stream)
      BY <2>2, LastOfSpec
    <3>2. stream[LastOf(CompactKey)].rev \in Seqs
      BY <3>1, StreamTyped DEF Message
    <3>3. QED
      BY <2>2, <3>2 DEF CompactValue
  <2>3. QED
    BY <2>1, <2>2
<1>3. Told \in Seqs
  BY <1>1 DEF Told
<1>4. ASSUME NEW n \in Nat, NEW t \in CompactValue + n .. Told PROVE t \in Seqs
  BY <1>1, <1>2, <1>3, <1>4 DEF Seqs
<1>5. QED
  BY <1>2, <1>3, <1>4 DEF Seqs

LEMMA TxnPublishes ==
  ASSUME TypeOK, CompactTxn
  PROVE  \E rev \in Seqs :
           /\ CompactKey \in AllKeys /\ "put" \in Ops /\ FALSE \in BOOLEAN
           /\ Publish(CompactKey, "put", FALSE, rev) /\ rev > CompactValue /\ rev <= Told
<1>1. PICK rev \in CompactValue + 1 .. Told : Publish(CompactKey, "put", FALSE, rev)
  BY DEF CompactTxn
<1>2. rev \in Seqs /\ rev > CompactValue /\ rev <= Told
  BY ToldTyped DEF Seqs
<1>3. CompactKey \in AllKeys /\ "put" \in Ops
  BY DEF AllKeys, Ops
<1>4. QED
  BY <1>1, <1>2, <1>3

LEMMA CompactTyped ==
  ASSUME TypeOK, CompactBegin \/ CompactWrite \/ CompactTxn \/ compactWatcher PROVE TypeOK'
<1>1. CASE CompactBegin
  <2>1. UNCHANGED <<stream, bt, lastSeq, consumer, ready, compactRev, compactSeen, heap, req, watch, acked, faults>>
    BY <1>1 DEF CompactBegin, index
  <2>2. PICK t \in CompactValue + 2 .. Told : compactor' = [st |-> "read", target |-> t, seq |-> 0]
    BY <1>1 DEF CompactBegin
  <2>3. t \in Seqs /\ 0 \in Seqs
    BY <2>2, ToldTyped, StartTyped
  <2>4. compactor' \in [st : {"idle", "read"}, target : Seqs, seq : Seqs]
    BY <2>2, <2>3
  <2>5. QED
    BY <2>1, <2>4 DEF TypeOK
<1>2. CASE CompactWrite
  <2>1. UNCHANGED <<bt, lastSeq, consumer, ready, compactRev, compactSeen, heap, req, watch, acked, faults>>
    BY <1>2 DEF CompactWrite, index
  <2>2. /\ compactor \in [st : {"idle", "read"}, target : Seqs, seq : Seqs] /\ compactor.target \in Seqs
        /\ NotCompacting \in [st : {"idle", "read"}, target : Seqs, seq : Seqs] /\ 0 \in Seqs
        /\ CompactKey \in AllKeys /\ "put" \in Ops
    BY StartTyped DEF TypeOK, AllKeys, Ops
  <2>3. stream' \in Seq(Message) /\ Len(stream') <= MaxSeq
    <3>1. CASE UNCHANGED stream
      BY <3>1 DEF TypeOK
    <3>2. CASE stream' # stream
      <4>1. PICK rev \in Seqs : Publish(CompactKey, "put", FALSE, rev)
        BY <1>2, <2>2, <3>2 DEF CompactWrite
      <4>2. QED
        BY <2>2, <4>1, Published
    <3>3. QED
      BY <3>1, <3>2
  <2>4. compactor' \in [st : {"idle", "read"}, target : Seqs, seq : Seqs]
    <3>1. CASE LastOf(CompactKey) = 0
      <4>1. Len(stream) < MaxSeq /\ compactor' = [compactor EXCEPT !.seq = Len(stream) + 1]
        BY <1>2, <3>1 DEF CompactWrite, Publish
      <4>2. PICK n \in Seqs : n = Len(stream) + 1
        BY <4>1, StreamTyped DEF Seqs
      <4>3. QED
        BY <2>2, <4>1, <4>2
    <3>2. CASE LastOf(CompactKey) # 0
      BY <1>2, <2>2, <3>2 DEF CompactWrite
    <3>3. QED
      BY <3>1, <3>2
  <2>5. QED
    BY <2>1, <2>3, <2>4 DEF TypeOK
<1>3. CASE compactWatcher
  <2> DEFINE s == NextFrom(compactSeen + 1, {CompactKey})
  <2>1. /\ UNCHANGED <<stream, bt, lastSeq, consumer, ready, compactor, heap, req, watch, acked, faults>>
        /\ s # 0 /\ compactSeen' = s
        /\ compactRev' = IF delivered(s) /\ stream[s].rev > 0 THEN stream[s].rev ELSE compactRev
    BY <1>3 DEF compactWatcher, index
  <2>2. compactSeen + 1 \in Nat
    BY DEF TypeOK, Seqs
  <2>3. s \in 1 .. Len(stream) /\ s \in Seqs
    BY <2>1, <2>2, NextFromSpec
  <2>4. stream[s].rev \in Seqs
    BY <2>3, StreamTyped DEF Message
  <2> HIDE DEF s
  <2>5. compactRev' \in Seqs
    BY <2>1, <2>4 DEF TypeOK
  <2>6. QED
    BY <2>1, <2>3, <2>5 DEF TypeOK
<1>4. CASE CompactTxn
  <2>1. UNCHANGED <<bt, lastSeq, consumer, ready, compactRev, compactSeen, compactor, heap, req, watch, acked, faults>>
    BY <1>4 DEF CompactTxn, index, compaction
  <2>2. stream' \in Seq(Message) /\ Len(stream') <= MaxSeq
    BY <1>4, TxnPublishes, Published
  <2>3. QED
    BY <2>1, <2>2 DEF TypeOK
<1>5. QED
  BY <1>1, <1>2, <1>3, <1>4

LEMMA WatchTyped ==
  ASSUME TypeOK, WatchOpen \/ WatchDeliver \/ WatchError PROVE TypeOK'
<1> DEFINE W == [on : BOOLEAN, start : 0 .. MaxSeq + 1, pos : 0 .. MaxSeq + 1, sent : SUBSET Seqs]
<1>1. watch \in W /\ MaxSeq \in Nat
  BY NatsAssumption DEF TypeOK
<1>2. CASE WatchOpen
  <2>1. UNCHANGED <<stream, bt, lastSeq, consumer, ready, compactRev, compactSeen, compactor, heap, req, acked, faults>>
    BY <1>2 DEF WatchOpen, index, compaction
  <2>2. PICK start \in 0 .. lastSeq + 1 : watch' = [on |-> TRUE, start |-> start, pos |-> start, sent |-> {}]
    BY <1>2 DEF WatchOpen
  <2>3. start \in 0 .. MaxSeq + 1
    BY <1>1, <2>2 DEF TypeOK, Seqs
  <2>4. watch' \in W
    BY <2>2, <2>3
  <2>5. QED
    BY <2>1, <2>4 DEF TypeOK
<1>3. CASE WatchDeliver
  <2> DEFINE s == NextFrom(watch.pos, Keys)
             sent == IF delivered(s) /\ stream[s].op # "del" THEN watch.sent \cup {s} ELSE watch.sent
  <2>1. /\ UNCHANGED <<stream, bt, lastSeq, consumer, ready, compactRev, compactSeen, compactor, heap, req, acked, faults>>
        /\ s # 0 /\ watch' = [watch EXCEPT !.pos = s + 1, !.sent = sent]
    BY <1>3 DEF WatchDeliver, index, compaction
  <2>2. watch.pos \in Nat
    BY <1>1
  <2>3. s \in 1 .. Len(stream) /\ s \in Seqs
    BY <2>1, <2>2, NextFromSpec
  <2>4. s + 1 \in 0 .. MaxSeq + 1
    BY <1>1, <2>3 DEF Seqs
  <2>5. sent \in SUBSET Seqs
    BY <1>1, <2>3
  <2> HIDE DEF s, sent
  <2>6. watch' \in W
    BY <1>1, <2>1, <2>4, <2>5
  <2>7. QED
    BY <2>1, <2>6 DEF TypeOK
<1>4. CASE WatchError
  <2>1. /\ UNCHANGED <<stream, bt, lastSeq, consumer, ready, compactRev, compactSeen, compactor, heap, req, acked>>
        /\ ErrorOccurs /\ watch' = [watch EXCEPT !.pos = watch.start]
    BY <1>4 DEF WatchError, index, compaction, watchAgainAt
  <2>2. watch' \in W
    BY <1>1, <2>1
  <2>3. faults' \in [crashes : 0 .. MaxFaults, errors : 0 .. MaxFaults]
    BY <2>1, ErrorTyped
  <2>4. QED
    BY <2>1, <2>2, <2>3 DEF TypeOK
<1>5. QED
  BY <1>2, <1>3, <1>4

LEMMA CrashTyped ==
  ASSUME TypeOK, Crash PROVE TypeOK'
<1>1. /\ UNCHANGED <<stream, acked>>
      /\ bt' = [k \in AllKeys |-> <<>>] /\ lastSeq' = 0
      /\ consumer' = [pos |-> 1, target |-> Len(stream), startup |-> stream # <<>>]
      /\ ready' = (stream = <<>>)
      /\ compactRev' = 0 /\ compactSeen' = 0 /\ compactor' = NotCompacting
      /\ heap' = {} /\ req' = [c \in Callers |-> IdleReq] /\ watch' = NoWatch
  BY DEF Crash, Started
<1>2. /\ IdleReq \in Reqs /\ 0 \in Seqs /\ MaxSeq \in Nat
      /\ NotCompacting \in [st : {"idle", "read"}, target : Seqs, seq : Seqs]
      /\ NoWatch \in [on : BOOLEAN, start : 0 .. MaxSeq + 1, pos : 0 .. MaxSeq + 1, sent : SUBSET Seqs]
  BY StartTyped
<1>3. bt' \in [AllKeys -> Seq([seq : Seqs, op : {"put", "tomb", "del"}])] /\ \A k \in AllKeys : Len(bt'[k]) <= History
  BY <1>1, NatsAssumption
<1>4. consumer' \in [pos : 1 .. MaxSeq + 1, target : Seqs, startup : BOOLEAN]
  BY <1>1, <1>2, StreamTyped
<1>5. req' \in [Callers -> Reqs]
  BY <1>1, <1>2
<1>6. faults' \in [crashes : 0 .. MaxFaults, errors : 0 .. MaxFaults]
  <2>1. /\ faults \in [crashes : 0 .. MaxFaults, errors : 0 .. MaxFaults] /\ MaxFaults \in Nat
        /\ faults.crashes + faults.errors < MaxFaults /\ faults' = [faults EXCEPT !.crashes = faults.crashes + 1]
    BY NatsAssumption DEF TypeOK, Crash
  <2>2. PICK e \in 0 .. MaxFaults : e = faults.crashes + 1
    BY <2>1
  <2>3. QED
    BY <2>1, <2>2
<1>7. ready' \in BOOLEAN
  BY <1>1, Zenon
<1>8. QED
  BY <1>1, <1>2, <1>3, <1>4, <1>5, <1>6, <1>7 DEF TypeOK, Reqs

LEMMA NatsStepType ==
  TypeOK /\ [Next]_vars => TypeOK'
<1> SUFFICES ASSUME TypeOK, [Next]_vars PROVE TypeOK'
  OBVIOUS
<1>1. ASSUME NEW c \in Callers, RequestStep(c) PROVE TypeOK'
  BY <1>1, GetTyped, WriteTyped, WaitedTyped, MarkerTyped, HistoryTypedStep DEF RequestStep
<1>2. CASE UNCHANGED vars
  BY <1>2 DEF vars, index, compaction, TypeOK
<1>3. QED
  BY <1>1, <1>2, BtreeUpdateTyped, BtreeRestartTyped, BeginTyped, ExpireTyped, CompactTyped, WatchTyped,
     CrashTyped DEF Next

(* The model's types: histories of at most revHistory entries, revisions within the stream. *)
THEOREM NatsTypeCorrect ==
  Spec => []TypeOK
BY NatsInitType, NatsStepType, PTL DEF Spec

-----------------------------------------------------------------------------
(* The inductive invariants, in layers; each one uses the ones before it. *)

(* A request that waits has written its message or waits for one of its key, and a Delete goes on   *)
(* from its tombstone.                                                                              *)
OwnMessage(r) ==
  /\ r.op = "delete" => ~r.leased
  /\ r.st \in {"wait", "marker", "history"} =>
       /\ r.seq \in 1 .. Len(stream) /\ stream[r.seq].key = r.key
       /\ r.leased => stream[r.seq].leased
       /\ stream[r.seq].leased => r.leased
  /\ r.st = "marker" => stream[r.seq].op = "tomb"
  /\ r.st \in {"marker", "history"} => r.op = "delete"

(* Only puts have leases, only compactions revisions, and these are of the past. *)
MessageInv == \A s \in 1 .. Len(stream) :
  /\ stream[s].leased => stream[s].op = "put" /\ stream[s].key \in Keys
  /\ stream[s].op # "put" => stream[s].key \in Keys

RequestsInv == (\A c \in Callers : OwnMessage(req[c])) /\ MessageInv /\ MarkerAfterTombstone

(* The revisions of compactions grow along the stream, and compactRev follows them. *)
CompactInv ==
  /\ \A s \in SeqsOf(CompactKey) : \A t \in SeqsOf(CompactKey) : s < t => stream[s].rev <= stream[t].rev
  /\ \A s \in SeqsOf(CompactKey) : compactSeen < s => compactRev <= stream[s].rev
  /\ compactRev <= CompactValue

(* A watch is not past the end of the stream. *)
WatchInv ==
  /\ watch.on => watch.start <= Len(stream) + 1 /\ watch.pos <= Len(stream) + 1
  /\ NoGapInWatch

(* Nothing is asked of the process before its index has replayed the stream. *)
StartInv ==
  /\ lastSeq <= Len(stream) /\ lastSeq <= consumer.pos
  /\ ~ready => /\ consumer.target = Len(stream)
               /\ \A c \in Callers : req[c].st = "idle"
               /\ compactor.st = "idle" /\ compactRev = 0

(* Every acknowledged write is in the stream, and in the index that serves requests; a Delete that   *)
(* is past its first wait has its tombstone there, too.                                             *)
TombsIndexed == \A c \in Callers : req[c].st \in {"marker", "history"} => req[c].seq <= lastSeq

AcksIndexed == acked <= Len(stream) /\ ReadYourWrites

AckInv == AcksIndexed /\ TombsIndexed

(* compactRev is behind the index, so the index is told of every message that is kept. *)
BehindInv ==
  /\ consumer.pos <= lastSeq + 1
  /\ compactor.st = "read" => compactor.target <= lastSeq
  /\ \A s \in SeqsOf(CompactKey) : stream[s].rev <= s
  /\ ready => \A s \in SeqsOf(CompactKey) : stream[s].rev <= lastSeq

(* A key whose newest message the index has passed has it as the newest entry of its history. *)
NewestIndexed == \A k \in AllKeys :
  LET s == LastOf(k) IN
  s # 0 /\ s <= lastSeq =>
    bt[k] # <<>> /\ bt[k][Len(bt[k])] = [seq |-> s, op |-> stream[s].op]

(* What the heap has is in the index. *)
LeaseInv ==
  faults.crashes = 0 =>
    /\ ready /\ \A e \in heap : e.seq <= lastSeq
    /\ req[Expirer].st # "idle" => req[Expirer].op = "delete"
    /\ LeaseTracked

-----------------------------------------------------------------------------
(* Requests and their messages. *)

(* The messages that are there stay. *)
Grows == /\ Len(stream') >= Len(stream) /\ Len(stream') \in Nat
         /\ \A s \in 1 .. Len(stream) : stream'[s] = stream[s]

LEMMA OwnMessageKept ==
  ASSUME TypeOK, Grows, NEW r \in Reqs, OwnMessage(r)
  PROVE  OwnMessage(r)'
<1>1. Len(stream) \in Nat
  BY StreamTyped
<1>2. r.st \in {"wait", "marker", "history"} => r.seq \in 1 .. Len(stream') /\ stream'[r.seq] = stream[r.seq]
  BY <1>1 DEF Grows, OwnMessage
<1>3. QED
  BY <1>2 DEF OwnMessage

LEMMA MarkersAppended ==
  ASSUME TypeOK, NEW k \in AllKeys, NEW op \in Ops, NEW leased \in BOOLEAN, NEW rev \in Seqs,
         Publish(k, op, leased, rev), MarkerAfterTombstone,
         op = "del" => LastOf(k) # 0 /\ stream[LastOf(k)].op = "tomb"
  PROVE  MarkerAfterTombstone'
<1>1. /\ Len(stream') = Len(stream) + 1 /\ DOMAIN stream' = 1 .. Len(stream) + 1
      /\ \A s \in 1 .. Len(stream) : stream'[s] = stream[s]
      /\ stream'[Len(stream) + 1] = [key |-> k, op |-> op, leased |-> leased, rev |-> rev]
  BY Published
<1>2. PICK n \in Nat : n = Len(stream)
  BY StreamTyped
<1>3. DOMAIN stream = 1 .. n
  BY <1>2, StreamTyped
<1>4. ASSUME NEW s \in 1 .. n + 1, stream'[s].op = "del"
      PROVE  \E t \in 1 .. s - 1 :
               /\ stream'[t].key = stream'[s].key /\ stream'[t].op = "tomb"
               /\ \A u \in t + 1 .. s - 1 : stream'[u].key # stream'[s].key
  <2>1. CASE s \in 1 .. n
    <3>1. stream'[s] = stream[s]
      BY <1>1, <1>2, <2>1
    <3>2. PICK t \in 1 .. s - 1 : /\ stream[t].key = stream[s].key /\ stream[t].op = "tomb"
                                  /\ \A u \in t + 1 .. s - 1 : stream[u].key # stream[s].key
      BY <1>3, <1>4, <2>1, <3>1 DEF MarkerAfterTombstone
    <3>3. \A u \in 1 .. s - 1 : u \in 1 .. n /\ stream'[u] = stream[u]
      BY <1>1, <1>2, <2>1
    <3>4. \A u \in t + 1 .. s - 1 : u \in 1 .. s - 1
      BY <3>2, <2>1
    <3>5. QED
      BY <3>1, <3>2, <3>3, <3>4
  <2>2. CASE s = n + 1
    <3>1. stream'[s] = [key |-> k, op |-> op, leased |-> leased, rev |-> rev]
      BY <1>1, <1>2, <2>2
    <3>2. stream'[s].key = k /\ op = "del"
      BY <1>4, <3>1
    <3>3. PICK t : t = LastOf(k)
      OBVIOUS
    <3>4. /\ t \in 1 .. n /\ stream[t].key = k /\ stream[t].op = "tomb"
          /\ \A u \in SeqsOf(k) : u <= t
      <4>1. t \in SeqsOf(k)
        BY <3>2, <3>3, LastOfSpec
      <4>2. QED
        BY <1>2, <3>2, <3>3, <4>1, LastOfSpec
    <3>5. stream'[t].key = k /\ stream'[t].op = "tomb" /\ t \in 1 .. s - 1
      BY <1>1, <1>2, <2>2, <3>4
    <3>6. ASSUME NEW u \in t + 1 .. s - 1 PROVE stream'[u].key # k
      <4>1. u \in 1 .. n /\ u > t
        BY <2>2, <3>4
      <4>2. u \notin SeqsOf(k)
        BY <3>4, <4>1
      <4>3. stream[u].key # k
        BY <1>3, <4>1, <4>2 DEF SeqsOf
      <4>4. QED
        BY <1>1, <1>2, <4>1, <4>3
    <3>7. QED
      BY <3>2, <3>5, <3>6
  <2>3. QED
    BY <1>2, <2>1, <2>2
<1>5. QED
  BY <1>1, <1>2, <1>4 DEF MarkerAfterTombstone

LEMMA MessagesAppended ==
  ASSUME TypeOK, NEW k \in AllKeys, NEW op \in Ops, NEW leased \in BOOLEAN, NEW rev \in Seqs,
         Publish(k, op, leased, rev), MessageInv,
         leased => op = "put" /\ k \in Keys, op # "put" => k \in Keys
  PROVE  MessageInv' /\ Grows
<1>1. /\ Len(stream') = Len(stream) + 1
      /\ \A s \in 1 .. Len(stream) : stream'[s] = stream[s]
      /\ stream'[Len(stream) + 1] = [key |-> k, op |-> op, leased |-> leased, rev |-> rev]
  BY Published
<1>2. PICK n \in Nat : n = Len(stream)
  BY StreamTyped
<1>3. ASSUME NEW s \in 1 .. n + 1
      PROVE  /\ stream'[s].leased => stream'[s].op = "put" /\ stream'[s].key \in Keys
             /\ stream'[s].op # "put" => stream'[s].key \in Keys
  <2>1. CASE s \in 1 .. n
    BY <1>1, <1>2, <2>1 DEF MessageInv
  <2>2. CASE s = n + 1
    BY <1>1, <1>2, <2>2
  <2>3. QED
    BY <2>1, <2>2
<1>4. MessageInv'
  BY <1>1, <1>2, <1>3 DEF MessageInv
<1>5. Grows
  BY <1>1, <1>2 DEF Grows
<1>6. QED
  BY <1>4, <1>5

LEMMA SameMessages ==
  ASSUME UNCHANGED stream, MessageInv, MarkerAfterTombstone
  PROVE  MessageInv' /\ MarkerAfterTombstone'
<1>1. MessageInv'
  BY DEF MessageInv
<1>2. MarkerAfterTombstone'
  BY DEF MarkerAfterTombstone
<1>3. QED
  BY <1>1, <1>2

(* One request changes, the stream does not. *)
LEMMA RequestsMove ==
  ASSUME TypeOK, RequestsInv, UNCHANGED stream, NEW c \in Callers, NEW v \in Reqs,
         req' = [req EXCEPT ![c] = v], OwnMessage(v)
  PROVE  RequestsInv'
<1>1. MessageInv' /\ MarkerAfterTombstone'
  BY SameMessages DEF RequestsInv
<1>2. req \in [Callers -> Reqs]
  BY DEF TypeOK, Reqs
<1>3. ASSUME NEW d \in Callers PROVE OwnMessage(req[d])'
  <2>1. CASE d = c
    <3>1. req'[d] = v
      BY <1>2, <2>1
    <3>2. QED
      BY <3>1 DEF OwnMessage
  <2>2. CASE d # c
    <3>1. req'[d] = req[d] /\ OwnMessage(req[d])
      BY <1>2, <2>2 DEF RequestsInv
    <3>2. QED
      BY <3>1 DEF OwnMessage
  <2>3. QED
    BY <2>1, <2>2
<1>4. QED
  BY <1>1, <1>3 DEF RequestsInv

LEMMA IdleOwns ==
  OwnMessage(IdleReq)
  BY DEF OwnMessage, IdleReq

(* Write and Marker: one request changes, and its message is published. *)
LEMMA RequestsPublish ==
  ASSUME TypeOK, RequestsInv, NEW c \in Callers, NEW op \in Ops, NEW leased \in BOOLEAN,
         NEW v \in Reqs, req' = [req EXCEPT ![c] = v], OwnMessage(v)',
         Publish(req[c].key, op, leased, 0),
         leased => op = "put",
         op = "del" => LastOf(req[c].key) # 0 /\ stream[LastOf(req[c].key)].op = "tomb"
  PROVE  RequestsInv'
<1>1. /\ req \in [Callers -> Reqs] /\ req[c].key \in Keys /\ req[c].key \in AllKeys /\ 0 \in Seqs
  BY StartTyped DEF TypeOK, Reqs, AllKeys
<1>2. MessageInv' /\ Grows
  BY <1>1, MessagesAppended DEF RequestsInv
<1>3. MarkerAfterTombstone'
  BY <1>1, MarkersAppended DEF RequestsInv
<1>4. req'[c] = v /\ \A d \in Callers \ {c} : req'[d] = req[d] /\ req[d] \in Reqs
  BY <1>1
<1>5. ASSUME NEW d \in Callers PROVE OwnMessage(req[d])'
  <2>1. CASE d = c
    BY <1>4, <2>1 DEF OwnMessage
  <2>2. CASE d # c
    <3>1. PICK q \in Reqs : q = req[d] /\ q = req'[d] /\ OwnMessage(q)
      BY <1>4, <2>2 DEF RequestsInv
    <3>2. OwnMessage(q)'
      BY <1>2, <3>1, OwnMessageKept
    <3>3. QED
      BY <3>1, <3>2 DEF OwnMessage
  <2>3. QED
    BY <2>1, <2>2
<1>6. QED
  BY <1>2, <1>3, <1>5 DEF RequestsInv

(* The request of a Write owns its message. *)
LEMMA WaitingOwns ==
  ASSUME TypeOK, RequestsInv, NEW c \in Callers, NEW op \in Ops,
         Publish(req[c].key, op, req[c].leased, 0)
  PROVE  \E v \in Reqs : v = [req[c] EXCEPT !.st = "wait", !.seq = Len(stream) + 1] /\ OwnMessage(v)'
<1>1. /\ req[c].key \in AllKeys /\ req[c].leased \in BOOLEAN /\ 0 \in Seqs
      /\ Len(stream) < MaxSeq /\ Len(stream) \in Nat
  BY StartTyped, StreamTyped DEF TypeOK, Reqs, AllKeys, Publish
<1>2. PICK leased \in BOOLEAN : leased = req[c].leased
  BY <1>1
<1>3. PICK v \in Reqs : /\ v = [req[c] EXCEPT !.st = "wait", !.seq = Len(stream) + 1]
                        /\ v.st = "wait" /\ v.seq = Len(stream) + 1
                        /\ v.op = req[c].op /\ v.key = req[c].key /\ v.leased = req[c].leased
  BY <1>1, WaitingTyped
<1>4. /\ Len(stream') = Len(stream) + 1
      /\ stream'[Len(stream) + 1] = [key |-> req[c].key, op |-> op, leased |-> leased, rev |-> 0]
  BY <1>1, <1>2, Published
<1>5. v.op = "delete" => ~v.leased
  BY <1>3 DEF RequestsInv, OwnMessage
<1>6. v.seq \in 1 .. Len(stream')
  BY <1>1, <1>3, <1>4
<1>7. stream'[v.seq].key = v.key /\ stream'[v.seq].leased = v.leased
  BY <1>2, <1>3, <1>4
<1>8. OwnMessage(v)'
  BY <1>3, <1>5, <1>6, <1>7 DEF OwnMessage
<1>9. QED
  BY <1>3, <1>8

LEMMA LookupOwns ==
  ASSUME TypeOK, RequestsInv, NEW c \in Callers, NEW op \in {"create", "update", "delete"}, NEW k \in Keys,
         NEW leased \in BOOLEAN, NEW last \in Seqs, Lookup(c, op, k, leased, last), UNCHANGED stream,
         op = "delete" => ~leased
  PROVE  RequestsInv'
<1>1. PICK v \in Reqs : /\ req' = [req EXCEPT ![c] = v]
                        /\ v = IdleReq \/ (v.st \in {"get", "write"} /\ v.op = op /\ v.leased = leased)
  BY LookupTyped
<1>2. OwnMessage(v)
  BY <1>1, IdleOwns DEF OwnMessage
<1>3. QED
  BY <1>1, <1>2, RequestsMove

(* What a compaction appends: 0 to create the key, or a revision above the last one. *)
LEMMA CompactAppends ==
  ASSUME TypeOK, CompactWrite \/ CompactTxn, stream' # stream
  PROVE  \E rev \in Seqs :
           /\ CompactKey \in AllKeys /\ "put" \in Ops /\ FALSE \in BOOLEAN
           /\ Publish(CompactKey, "put", FALSE, rev)
           /\ rev > CompactValue \/ (rev = 0 /\ CompactValue = 0)
           /\ rev = 0 \/ (CompactWrite /\ rev = compactor.target) \/ (CompactTxn /\ rev <= Told)
<1>1. compactor.target \in Seqs /\ 0 \in Seqs /\ CompactValue \in Nat
  BY StartTyped, ToldTyped DEF TypeOK
<1>2. CASE CompactTxn
  BY <1>2, TxnPublishes
<1>3. CASE CompactWrite /\ LastOf(CompactKey) = 0
  <2>1. Publish(CompactKey, "put", FALSE, 0) /\ CompactValue = 0
    BY <1>3 DEF CompactWrite, CompactValue
  <2>2. QED
    BY <1>1, <2>1 DEF AllKeys, Ops
<1>4. CASE CompactWrite /\ LastOf(CompactKey) # 0
  <2>1. PICK rev \in Seqs : rev = compactor.target /\ Publish(CompactKey, "put", FALSE, rev) /\ rev > CompactValue + 1
    BY <1>1, <1>4 DEF CompactWrite
  <2>2. rev > CompactValue
    BY <1>1, <2>1 DEF Seqs
  <2>3. QED
    BY <1>4, <2>1, <2>2 DEF AllKeys, Ops
<1>5. QED
  BY <1>2, <1>3, <1>4

LEMMA RequestsStepInv ==
  TypeOK /\ RequestsInv /\ [Next]_vars => RequestsInv'
<1> SUFFICES ASSUME TypeOK, RequestsInv, [Next]_vars PROVE RequestsInv'
  OBVIOUS
<1>1. CASE UNCHANGED <<stream, req>>
  BY <1>1 DEF RequestsInv, OwnMessage, MessageInv, MarkerAfterTombstone
<1>2. ASSUME NEW c \in Clients, Begin(c) PROVE RequestsInv'
  <2>1. PICK op \in {"create", "update", "delete"}, k \in Keys, leased \in BOOLEAN :
          (op = "delete" => ~leased) /\ Lookup(c, op, k, leased, 0)
    BY <1>2 DEF Begin
  <2>2. c \in Callers /\ 0 \in Seqs /\ UNCHANGED stream
    BY <1>2, StartTyped DEF Callers, Begin
  <2>3. QED
    BY <2>1, <2>2, LookupOwns
<1>3. CASE Expire
  <2>1. PICK e \in heap : Lookup(Expirer, "delete", e.key, FALSE, e.seq)
    BY <1>3 DEF Expire
  <2>2. e.key \in Keys /\ e.seq \in Seqs /\ Expirer \in Callers /\ UNCHANGED stream
    BY <1>3 DEF Expire, TypeOK, Callers
  <2>3. QED
    BY <2>1, <2>2, LookupOwns
<1>4. ASSUME NEW c \in Callers, Get(c) PROVE RequestsInv'
  <2>1. PICK v \in Reqs : /\ req' = [req EXCEPT ![c] = v]
                          /\ v = IdleReq \/ (v.st = "write" /\ v.op = req[c].op /\ v.leased = req[c].leased)
    BY <1>4, GetMoves
  <2>2. OwnMessage(v)
    BY <2>1, IdleOwns DEF OwnMessage, RequestsInv
  <2>3. UNCHANGED stream
    BY <1>4 DEF Get
  <2>4. QED
    BY <2>1, <2>2, <2>3, RequestsMove
<1>5. ASSUME NEW c \in Callers, req' = [req EXCEPT ![c] = IdleReq], UNCHANGED stream PROVE RequestsInv'
  BY <1>5, StartTyped, IdleOwns, RequestsMove
<1>6. ASSUME NEW c \in Callers, Write(c) PROVE RequestsInv'
  <2>1. CASE req' = [req EXCEPT ![c] = IdleReq] /\ UNCHANGED stream
    BY <1>5, <2>1
  <2>2. CASE Publish(req[c].key, IF req[c].op = "delete" THEN "tomb" ELSE "put", req[c].leased, 0)
    <3>1. PICK op \in Ops : op = (IF req[c].op = "delete" THEN "tomb" ELSE "put") /\ op # "del"
      BY DEF Ops
    <3>2. req[c].leased \in BOOLEAN
      BY DEF TypeOK
    <3>3. req[c].leased => op = "put"
      BY <3>1 DEF RequestsInv, OwnMessage
    <3>4. Publish(req[c].key, op, req[c].leased, 0)
      BY <2>2, <3>1
    <3>5. PICK v \in Reqs : req' = [req EXCEPT ![c] = v] /\ OwnMessage(v)'
      <4>1. CASE req' = [req EXCEPT ![c] = IdleReq]
        <5>1. IdleReq \in Reqs /\ OwnMessage(IdleReq)'
          BY StartTyped DEF OwnMessage, IdleReq
        <5>2. QED
          BY <4>1, <5>1
      <4>2. CASE req' = [req EXCEPT ![c] = [req[c] EXCEPT !.st = "wait", !.seq = Len(stream) + 1]]
        BY <3>4, <4>2, WaitingOwns
      <4>3. QED
        BY <1>6, <4>1, <4>2, WriteMoves
    <3>6. QED
      BY <3>1, <3>2, <3>3, <3>4, <3>5, RequestsPublish
  <2>3. QED
    BY <1>6, <2>1, <2>2, WriteMoves
<1>7. ASSUME NEW c \in Callers, Marker(c) PROVE RequestsInv'
  <2>1. PICK v \in Reqs :
          /\ req' = [req EXCEPT ![c] = v]
          /\ v = IdleReq \/ (/\ v.st = "history" /\ v.op = req[c].op /\ v.key = req[c].key
                             /\ v.leased = req[c].leased /\ v.seq = req[c].seq)
          /\ \/ v = IdleReq /\ UNCHANGED stream
             \/ Publish(req[c].key, "del", FALSE, 0) /\ LastOf(req[c].key) = req[c].seq
    BY <1>7, MarkerMoves
  <2>2. CASE v = IdleReq /\ UNCHANGED stream
    BY <1>5, <2>1, <2>2
  <2>3. CASE Publish(req[c].key, "del", FALSE, 0) /\ LastOf(req[c].key) = req[c].seq
    <3>1. OwnMessage(req[c]) /\ req[c].st = "marker" /\ req[c] \in Reqs
      BY <1>7 DEF RequestsInv, Marker, TypeOK, Reqs
    <3>2. /\ req[c].seq \in 1 .. Len(stream) /\ stream[req[c].seq].op = "tomb" /\ ~req[c].leased
          /\ req[c].op = "delete" /\ stream[req[c].seq].key = req[c].key /\ ~stream[req[c].seq].leased
      BY <3>1 DEF OwnMessage
    <3>3. LastOf(req[c].key) # 0 /\ stream[LastOf(req[c].key)].op = "tomb"
      BY <2>3, <3>2
    <3>4. "del" \in Ops /\ FALSE \in BOOLEAN
      BY DEF Ops
    <3>5. req[c].key \in AllKeys /\ 0 \in Seqs
      BY <3>1, StartTyped DEF Reqs, AllKeys
    <3>6. Len(stream') = Len(stream) + 1 /\ \A s \in 1 .. Len(stream) : stream'[s] = stream[s]
      BY <2>3, <3>4, <3>5, Published
    <3>7. Len(stream) \in Nat
      BY StreamTyped
    <3>8. req[c].seq \in 1 .. Len(stream')
      BY <3>2, <3>6, <3>7
    <3>9. OwnMessage(v)'
      BY <2>1, <3>2, <3>6, <3>8 DEF OwnMessage, IdleReq
    <3>10. QED
      BY <2>1, <2>3, <3>3, <3>4, <3>9, RequestsPublish
  <2>4. QED
    BY <2>1, <2>2, <2>3
<1>8. ASSUME NEW c \in Callers, Waited(c) PROVE RequestsInv'
  <2>1. UNCHANGED stream /\ req[c] \in Reqs /\ OwnMessage(req[c]) /\ req[c].st = "wait"
    BY <1>8 DEF Waited, TypeOK, Reqs, RequestsInv
  <2>2. CASE req[c].op = "delete" /\ stream[req[c].seq].op = "tomb"
    <3>1. PICK v \in Reqs : v = [req[c] EXCEPT !.st = "marker"]
      BY <2>1 DEF Reqs
    <3>2. /\ v.st = "marker" /\ v.op = req[c].op /\ v.key = req[c].key /\ v.leased = req[c].leased
          /\ v.seq = req[c].seq
      BY <2>1, <3>1 DEF Reqs
    <3>3. OwnMessage(v)
      BY <2>1, <2>2, <3>2 DEF OwnMessage
    <3>4. req' = [req EXCEPT ![c] = v]
      BY <1>8, <2>2, <3>1 DEF Waited
    <3>5. QED
      BY <2>1, <3>3, <3>4, RequestsMove
  <2>3. CASE ~(req[c].op = "delete" /\ stream[req[c].seq].op = "tomb")
    BY <1>5, <1>8, <2>1, <2>3 DEF Waited
  <2>4. QED
    BY <2>2, <2>3
<1>9. CASE CompactWrite \/ CompactTxn
  <2>1. req' = req
    BY <1>9 DEF CompactWrite, CompactTxn
  <2>2. CASE UNCHANGED stream
    BY <1>1, <2>1, <2>2
  <2>3. CASE stream' # stream
    <3>1. PICK rev \in Seqs : /\ CompactKey \in AllKeys /\ "put" \in Ops /\ FALSE \in BOOLEAN
                              /\ Publish(CompactKey, "put", FALSE, rev)
      BY <1>9, <2>3, CompactAppends
    <3>2. MessageInv' /\ Grows
      BY <3>1, MessagesAppended DEF RequestsInv
    <3>3. MarkerAfterTombstone'
      BY <3>1, MarkersAppended DEF RequestsInv
    <3>4. ASSUME NEW d \in Callers PROVE OwnMessage(req[d])'
      <4>1. PICK q \in Reqs : q = req[d] /\ q = req'[d] /\ OwnMessage(q)
        BY <2>1 DEF RequestsInv, TypeOK, Reqs
      <4>2. OwnMessage(q)'
        BY <3>2, <4>1, OwnMessageKept
      <4>3. QED
        BY <4>1, <4>2 DEF OwnMessage
    <3>5. QED
      BY <3>2, <3>3, <3>4 DEF RequestsInv
  <2>4. QED
    BY <2>2, <2>3
<1>10. CASE Crash
  <2>1. UNCHANGED stream /\ req' = [c \in Callers |-> IdleReq]
    BY <1>10 DEF Crash, Started
  <2>2. \A d \in Callers : OwnMessage(req[d])'
    BY <2>1 DEF OwnMessage, IdleReq
  <2>3. QED
    BY <2>1, <2>2 DEF RequestsInv, MessageInv, MarkerAfterTombstone
<1>11. ASSUME NEW c \in Callers, MarkerHistory(c) PROVE RequestsInv'
  <2>1. UNCHANGED stream /\ req[c] \in Reqs /\ OwnMessage(req[c]) /\ req[c].st = "history"
    BY <1>11 DEF MarkerHistory, TypeOK, Reqs, RequestsInv
  <2>2. PICK v \in Reqs :
          /\ req' = [req EXCEPT ![c] = v]
          /\ \/ v = IdleReq
             \/ /\ v.st = "wait" /\ v.seq = LastOf(req[c].key) /\ stream[LastOf(req[c].key)].op = "del"
                /\ v.op = req[c].op /\ v.key = req[c].key /\ v.leased = req[c].leased
    BY <1>11, HistoryMoves
  <2>3. CASE v = IdleReq
    BY <1>5, <2>1, <2>2, <2>3
  <2>4. CASE v # IdleReq
    <3>1. /\ req[c].seq \in 1 .. Len(stream) /\ stream[req[c].seq].key = req[c].key
          /\ req[c].op = "delete" /\ ~req[c].leased
      BY <2>1 DEF OwnMessage
    <3>2. req[c].seq \in SeqsOf(req[c].key)
      BY <3>1, StreamTyped DEF SeqsOf
    <3>3. LastOf(req[c].key) \in SeqsOf(req[c].key)
      BY <3>2, LastOfSpec
    <3>4. v.seq \in 1 .. Len(stream) /\ stream[v.seq].key = v.key /\ stream[v.seq].op = "del"
      BY <2>2, <2>4, <3>3, LastOfSpec
    <3>5. ~stream[v.seq].leased
      BY <3>4 DEF RequestsInv, MessageInv
    <3>6. OwnMessage(v)
      BY <2>2, <2>4, <3>1, <3>4, <3>5 DEF OwnMessage
    <3>7. QED
      BY <2>1, <2>2, <3>6, RequestsMove
  <2>5. QED
    BY <2>3, <2>4
<1>12. CASE btreeUpdate \/ btreeRestart \/ CompactBegin \/ compactWatcher \/ WatchOpen \/ WatchDeliver \/ WatchError
  BY <1>1, <1>12 DEF btreeUpdate, btreeRestart, CompactBegin, compactWatcher, WatchOpen, WatchDeliver, WatchError
<1>13. CASE UNCHANGED vars
  BY <1>1, <1>13 DEF vars
<1>14. ASSUME NEW c \in Callers, RequestStep(c) PROVE RequestsInv'
  BY <1>4, <1>6, <1>7, <1>8, <1>11, <1>14 DEF RequestStep
<1>15. QED
  BY <1>2, <1>3, <1>9, <1>10, <1>12, <1>13, <1>14 DEF Next

LEMMA RequestsInitInv ==
  Init => RequestsInv
<1> SUFFICES ASSUME Init PROVE RequestsInv
  OBVIOUS
<1>1. stream = <<>> /\ Len(stream) = 0 /\ \A c \in Callers : req[c] = IdleReq
  BY DEF Init
<1>2. QED
  BY <1>1, IdleOwns DEF RequestsInv, MessageInv, MarkerAfterTombstone

LEMMA RequestsInvariant ==
  Spec => [](TypeOK /\ RequestsInv)
BY NatsInitType, NatsStepType, RequestsInitInv, RequestsStepInv, PTL DEF Spec

(* A delete marker directly follows the tombstone of its key, so that a Delete never covers a newer *)
(* put and watches see every deletion: for any number of clients, and with requests that fail,      *)
(* waits that time out and crashes between the two messages (kv.go, Delete).                        *)
THEOREM MarkersFollowTombstones ==
  Spec => []MarkerAfterTombstone
<1>1. RequestsInv => MarkerAfterTombstone
  BY DEF RequestsInv
<1>2. QED
  BY <1>1, RequestsInvariant, PTL

-----------------------------------------------------------------------------
(* Compaction, and the start of the index. *)

(* A request of a client, or of the ExpireWatcher, that appends its message. *)
Appends(c) ==
  /\ req[c].st # "idle"
  /\ \E op \in Ops, leased \in BOOLEAN : Publish(req[c].key, op, leased, 0)
  /\ UNCHANGED <<index, compaction, heap, watch, acked, faults>>

LEMMA RequestSteps ==
  ASSUME TypeOK, NEW c \in Callers, RequestStep(c)
  PROVE  Appends(c) \/ UNCHANGED <<stream, index, compaction, watch, faults>>
<1>1. CASE Get(c)
  BY <1>1 DEF Get
<1>2. CASE Waited(c)
  BY <1>2 DEF Waited
<1>3. CASE Write(c)
  <2>1. req[c].st # "idle" /\ UNCHANGED <<index, compaction, heap, watch, acked, faults>>
    BY <1>3 DEF Write
  <2>2. (IF req[c].op = "delete" THEN "tomb" ELSE "put") \in Ops /\ req[c].leased \in BOOLEAN
    BY DEF Ops, TypeOK
  <2>3. UNCHANGED stream \/ \E op \in Ops, leased \in BOOLEAN : Publish(req[c].key, op, leased, 0)
    BY <1>3, <2>2, WriteMoves
  <2>4. QED
    BY <2>1, <2>3 DEF Appends
<1>4. CASE Marker(c)
  <2>1. req[c].st # "idle" /\ UNCHANGED <<index, compaction, heap, watch, acked, faults>>
    BY <1>4 DEF Marker
  <2>2. "del" \in Ops /\ FALSE \in BOOLEAN
    BY DEF Ops
  <2>3. UNCHANGED stream \/ \E op \in Ops, leased \in BOOLEAN : Publish(req[c].key, op, leased, 0)
    BY <1>4, <2>2, MarkerMoves
  <2>4. QED
    BY <2>1, <2>3 DEF Appends
<1>5. CASE MarkerHistory(c)
  BY <1>5 DEF MarkerHistory
<1>6. QED
  BY <1>1, <1>2, <1>3, <1>4, <1>5 DEF RequestStep

(* What a request appends. *)
LEMMA AppendsOne ==
  ASSUME TypeOK, NEW c \in Callers, Appends(c)
  PROVE  \E k \in Keys, op \in Ops, leased \in BOOLEAN :
           k \in AllKeys /\ k # CompactKey /\ k = req[c].key /\ 0 \in Seqs /\ Publish(k, op, leased, 0)
<1>1. req[c].key \in Keys
  BY DEF TypeOK
<1>2. QED
  BY <1>1, StartTyped, NatsAssumption DEF Appends, AllKeys

LEMMA CompactValueIs ==
  ASSUME TypeOK, CompactInv
  PROVE  /\ CompactValue \in Seqs
         /\ LastOf(CompactKey) # 0 => CompactValue = stream[LastOf(CompactKey)].rev
         /\ \A s \in SeqsOf(CompactKey) : stream[s].rev \in Seqs /\ stream[s].rev <= CompactValue
<1>1. 0 \in Seqs /\ \A n \in Seqs : n \in Nat
  BY StartTyped DEF Seqs
<1>2. ASSUME NEW s \in SeqsOf(CompactKey)
      PROVE  /\ stream[s].rev \in Seqs /\ LastOf(CompactKey) # 0
             /\ stream[s].rev <= stream[LastOf(CompactKey)].rev
  <2>1. /\ s \in 1 .. Len(stream) /\ LastOf(CompactKey) # 0 /\ s <= LastOf(CompactKey)
        /\ LastOf(CompactKey) \in SeqsOf(CompactKey) /\ LastOf(CompactKey) \in 1 .. Len(stream)
    BY LastOfSpec
  <2>2. stream[s].rev \in Seqs /\ stream[LastOf(CompactKey)].rev \in Seqs
    BY <2>1, StreamTyped DEF Message
  <2>3. CASE s = LastOf(CompactKey)
    BY <1>1, <2>1, <2>2, <2>3
  <2>4. CASE s # LastOf(CompactKey)
    <3>1. s < LastOf(CompactKey)
      BY <2>1, <2>4, StreamTyped
    <3>2. QED
      BY <2>1, <2>2, <3>1 DEF CompactInv
  <2>5. QED
    BY <2>3, <2>4
<1>3. LastOf(CompactKey) # 0 => LastOf(CompactKey) \in SeqsOf(CompactKey)
  BY LastOfSpec
<1>4. QED
  BY <1>1, <1>2, <1>3 DEF CompactValue

(* compactRev only grows while the process runs. *)
LEMMA CompactWatched ==
  ASSUME TypeOK, CompactInv, compactWatcher
  PROVE  /\ UNCHANGED stream /\ compactSeen' \in SeqsOf(CompactKey) /\ compactSeen' > compactSeen
         /\ compactRev' \in Seqs /\ compactRev' >= compactRev
         /\ compactRev' <= stream[compactSeen'].rev
<1> DEFINE s == NextFrom(compactSeen + 1, {CompactKey})
<1>1. /\ UNCHANGED stream /\ s # 0 /\ compactSeen' = s
      /\ compactRev' = IF delivered(s) /\ stream[s].rev > 0 THEN stream[s].rev ELSE compactRev
  BY DEF compactWatcher
<1>2. compactSeen \in Nat /\ compactSeen + 1 \in Nat /\ compactRev \in Seqs /\ compactRev \in Nat
  BY DEF TypeOK, Seqs
<1>3. s \in 1 .. Len(stream) /\ s >= compactSeen + 1 /\ stream[s].key = CompactKey
  BY <1>1, <1>2, NextFromSpec
<1> HIDE DEF s
<1>4. s \in SeqsOf(CompactKey) /\ s > compactSeen
  BY <1>2, <1>3, StreamTyped DEF SeqsOf
<1>5. stream[s].rev \in Seqs /\ stream[s].rev \in Nat
  BY <1>3, StreamTyped DEF Message, Seqs
<1>6. compactRev <= stream[s].rev
  BY <1>4 DEF CompactInv
<1>7. QED
  BY <1>1, <1>2, <1>4, <1>5, <1>6

LEMMA CompactAppended ==
  ASSUME TypeOK, CompactInv, NEW k \in AllKeys, NEW op \in Ops, NEW leased \in BOOLEAN, NEW rev \in Seqs,
         Publish(k, op, leased, rev), UNCHANGED <<compactRev, compactSeen>>,
         k = CompactKey => rev >= CompactValue
  PROVE  CompactInv'
<1>1. PICK n \in Nat : n = Len(stream)
  BY StreamTyped
<1>2. /\ \A s \in 1 .. n : stream'[s] = stream[s]
      /\ stream'[n + 1] = [key |-> k, op |-> op, leased |-> leased, rev |-> rev]
  BY <1>1, Published
<1>3. \A s \in SeqsOf(CompactKey) : s \in 1 .. n
  BY <1>1, LastOfSpec
<1>4. /\ SeqsOf(CompactKey)' = IF CompactKey = k THEN SeqsOf(CompactKey) \cup {n + 1} ELSE SeqsOf(CompactKey)
      /\ LastOf(CompactKey)' = IF CompactKey = k THEN n + 1 ELSE LastOf(CompactKey)
  BY <1>1, PublishedSeqs
<1>5. /\ CompactValue \in Nat /\ compactRev \in Nat /\ compactRev <= CompactValue /\ rev \in Nat
      /\ \A s \in SeqsOf(CompactKey) : stream[s].rev \in Nat /\ stream[s].rev <= CompactValue
  <2>1. \A x \in Seqs : x \in Nat
    BY DEF Seqs
  <2>2. QED
    BY <2>1, CompactValueIs DEF CompactInv, TypeOK
<1>6. CASE k # CompactKey
  <2>1. \A s \in SeqsOf(CompactKey) : stream'[s] = stream[s]
    BY <1>2, <1>3
  <2>2. LastOf(CompactKey) # 0 => stream'[LastOf(CompactKey)] = stream[LastOf(CompactKey)]
    BY <2>1, LastOfSpec
  <2>3. CompactValue' = CompactValue
    BY <1>4, <1>6, <2>2 DEF CompactValue
  <2>4. QED
    BY <1>4, <1>6, <2>1, <2>3 DEF CompactInv
<1>7. CASE k = CompactKey
  <2>1. CompactValue' = rev
    BY <1>2, <1>4, <1>7 DEF CompactValue
  <2>2. \A s \in SeqsOf(CompactKey) : stream'[s] = stream[s] /\ s < n + 1 /\ s \in Nat
    BY <1>2, <1>3
  <2>3. stream'[n + 1].rev = rev
    BY <1>2
  <2>4. \A s \in SeqsOf(CompactKey) : stream[s].rev <= rev
    BY <1>5, <1>7
  <2>5. SeqsOf(CompactKey)' = SeqsOf(CompactKey) \cup {n + 1}
    BY <1>4, <1>7
  <2>6. ASSUME NEW s \in SeqsOf(CompactKey) \cup {n + 1}, NEW t \in SeqsOf(CompactKey) \cup {n + 1}, s < t
        PROVE  stream'[s].rev <= stream'[t].rev
    <3>1. CASE t = n + 1
      <4>1. s \in SeqsOf(CompactKey)
        BY <2>2, <2>6, <3>1
      <4>2. stream'[s] = stream[s] /\ stream[s].rev <= rev
        BY <2>2, <2>4, <4>1
      <4>3. QED
        BY <2>3, <3>1, <4>2
    <3>2. CASE t # n + 1
      <4>1. s \in SeqsOf(CompactKey) /\ t \in SeqsOf(CompactKey)
        BY <2>2, <2>6, <3>2
      <4>2. QED
        BY <2>2, <2>6, <4>1 DEF CompactInv
    <3>3. QED
      BY <3>1, <3>2
  <2>7. compactRev <= rev
    BY <1>5, <1>7
  <2>8. ASSUME NEW s \in SeqsOf(CompactKey) \cup {n + 1}, compactSeen < s PROVE compactRev <= stream'[s].rev
    <3>1. CASE s = n + 1
      BY <2>3, <2>7, <3>1
    <3>2. CASE s # n + 1
      BY <2>2, <2>8, <3>2 DEF CompactInv
    <3>3. QED
      BY <3>1, <3>2
  <2>9. QED
    BY <2>1, <2>5, <2>6, <2>7, <2>8 DEF CompactInv
<1>8. QED
  BY <1>6, <1>7

LEMMA CompactStepInv ==
  TypeOK /\ CompactInv /\ [Next]_vars => CompactInv'
<1> SUFFICES ASSUME TypeOK, CompactInv, [Next]_vars PROVE CompactInv'
  OBVIOUS
<1>1. CASE UNCHANGED <<stream, compactRev, compactSeen>>
  BY <1>1 DEF CompactInv, CompactValue, LastOf, SeqsOf
<1>2. ASSUME NEW c \in Callers, RequestStep(c) PROVE CompactInv'
  <2>1. CASE Appends(c)
    <3>1. PICK k \in Keys, op \in Ops, leased \in BOOLEAN :
            k \in AllKeys /\ k # CompactKey /\ 0 \in Seqs /\ Publish(k, op, leased, 0)
      BY <2>1, AppendsOne
    <3>2. UNCHANGED <<compactRev, compactSeen>>
      BY <2>1 DEF Appends, compaction
    <3>3. QED
      BY <3>1, <3>2, CompactAppended
  <2>2. CASE UNCHANGED <<stream, compaction>>
    BY <1>1, <2>2 DEF compaction
  <2>3. QED
    BY <1>2, <2>1, <2>2, RequestSteps
<1>3. CASE CompactWrite \/ CompactTxn
  <2>1. UNCHANGED <<compactRev, compactSeen>>
    BY <1>3 DEF CompactWrite, CompactTxn, compaction
  <2>2. CASE stream' # stream
    <3>1. PICK rev \in Seqs :
            /\ CompactKey \in AllKeys /\ "put" \in Ops /\ FALSE \in BOOLEAN
            /\ Publish(CompactKey, "put", FALSE, rev)
            /\ rev > CompactValue \/ (rev = 0 /\ CompactValue = 0)
      BY <1>3, <2>2, CompactAppends
    <3>2. CompactValue \in Nat /\ rev \in Nat
      BY ToldTyped DEF Seqs
    <3>3. rev >= CompactValue
      BY <3>1, <3>2
    <3>4. QED
      BY <2>1, <3>1, <3>3, CompactAppended
  <2>3. QED
    BY <1>1, <2>1, <2>2
<1>4. CASE compactWatcher
  <2>1. /\ UNCHANGED stream /\ compactSeen' \in SeqsOf(CompactKey) /\ compactSeen' > compactSeen
        /\ compactRev' \in Seqs /\ compactRev' <= stream[compactSeen'].rev
    BY <1>4, CompactWatched
  <2>2. PICK s, v : s = compactSeen' /\ v = compactRev'
    OBVIOUS
  <2>3. /\ CompactValue' = CompactValue /\ SeqsOf(CompactKey)' = SeqsOf(CompactKey)
    BY <2>1 DEF CompactValue, LastOf, SeqsOf
  <2>4. s \in SeqsOf(CompactKey) /\ v \in Nat /\ v <= stream[s].rev
    BY <2>1, <2>2 DEF Seqs
  <2>5. /\ CompactValue \in Nat
        /\ \A t \in SeqsOf(CompactKey) : stream[t].rev \in Nat /\ stream[t].rev <= CompactValue
    BY CompactValueIs DEF Seqs
  <2>6. \A t \in SeqsOf(CompactKey) : s < t => v <= stream[t].rev
    BY <2>4, <2>5 DEF CompactInv
  <2>7. v <= CompactValue
    BY <2>4, <2>5
  <2>8. QED
    BY <2>1, <2>2, <2>3, <2>6, <2>7 DEF CompactInv
<1>5. CASE Crash
  <2>1. UNCHANGED stream /\ compactRev' = 0 /\ compactSeen' = 0
    BY <1>5 DEF Crash, Started
  <2>2. /\ CompactValue' = CompactValue /\ SeqsOf(CompactKey)' = SeqsOf(CompactKey)
    BY <2>1 DEF CompactValue, LastOf, SeqsOf
  <2>3. /\ CompactValue \in Nat
        /\ \A t \in SeqsOf(CompactKey) : stream[t].rev \in Nat
    BY CompactValueIs DEF Seqs
  <2>4. QED
    BY <2>1, <2>2, <2>3 DEF CompactInv
<1>6. CASE btreeUpdate \/ btreeRestart \/ (\E c \in Clients : Begin(c)) \/ Expire \/ CompactBegin
           \/ WatchOpen \/ WatchDeliver \/ WatchError
  BY <1>1, <1>6 DEF btreeUpdate, btreeRestart, Begin, Expire, CompactBegin, WatchOpen, WatchDeliver, WatchError, compaction
<1>7. CASE UNCHANGED vars
  BY <1>1, <1>7 DEF vars, compaction
<1>8. QED
  BY <1>2, <1>3, <1>4, <1>5, <1>6, <1>7 DEF Next

LEMMA CompactInitInv ==
  Init => CompactInv
<1> SUFFICES ASSUME Init PROVE CompactInv
  OBVIOUS
<1>1. stream = <<>> /\ compactRev = 0
  BY DEF Init
<1>2. SeqsOf(CompactKey) = {}
  BY <1>1 DEF SeqsOf
<1>3. CompactValue = 0
  BY <1>2 DEF CompactValue, LastOf
<1>4. QED
  BY <1>1, <1>2, <1>3 DEF CompactInv

LEMMA NextAhead ==
  ASSUME TypeOK, StartInv, btreeUpdate, NEW s, s = NextFrom(consumer.pos, AllKeys)
  PROVE  /\ s \in 1 .. Len(stream) /\ consumer.pos <= s /\ lastSeq <= s /\ s \in Nat
         /\ consumer'.pos = s + 1 /\ consumer'.target = consumer.target
         /\ \/ delivered(s) /\ lastSeq' = s /\ ready' = (ready \/ startupDone(s))
            \/ ~delivered(s) /\ UNCHANGED <<bt, lastSeq, ready>>
<1>1. /\ s # 0 /\ consumer' = [consumer EXCEPT !.pos = s + 1]
      /\ \/ delivered(s) /\ lastSeq' = s /\ ready' = (ready \/ startupDone(s))
         \/ ~delivered(s) /\ UNCHANGED <<bt, lastSeq, ready>>
  BY DEF btreeUpdate
<1>2. /\ consumer \in [pos : 1 .. MaxSeq + 1, target : Seqs, startup : BOOLEAN]
      /\ consumer.pos \in Nat /\ lastSeq \in Nat /\ MaxSeq \in Nat
  BY NatsAssumption DEF TypeOK, Seqs
<1>3. s \in 1 .. Len(stream) /\ s >= consumer.pos
  BY <1>1, <1>2, NextFromSpec
<1>4. s \in Nat /\ lastSeq <= s
  BY <1>2, <1>3 DEF StartInv
<1>5. consumer'.pos = s + 1 /\ consumer'.target = consumer.target
  BY <1>1, <1>2
<1>6. QED
  BY <1>1, <1>2, <1>3, <1>4, <1>5

(* A request or a compaction is under way only in a process that is ready. *)
LEMMA Served ==
  ASSUME StartInv, (\E c \in Callers : req[c].st # "idle") \/ compactor.st # "idle"
  PROVE  ready
BY DEF StartInv

LEMMA StartStepInv ==
  TypeOK /\ StartInv /\ [Next]_vars => StartInv'
<1> SUFFICES ASSUME TypeOK, StartInv, [Next]_vars PROVE StartInv'
  OBVIOUS
<1>1. CASE UNCHANGED <<stream, index, req, compaction>>
  BY <1>1 DEF StartInv, index, compaction
<1>2. PICK n \in Nat : n = Len(stream)
  BY StreamTyped
<1>3. ASSUME ready, ready' = ready, UNCHANGED <<lastSeq, consumer>>, Len(stream') >= n, Len(stream') \in Nat PROVE StartInv'
  <2>1. lastSeq \in Nat /\ lastSeq <= n
    BY <1>2 DEF StartInv, TypeOK, Seqs
  <2>2. PICK m \in Nat : m = Len(stream') /\ m >= n
    BY <1>3
  <2>3. lastSeq <= m
    BY <2>1, <2>2
  <2>4. QED
    BY <1>3, <2>2, <2>3 DEF StartInv
<1>4. ASSUME NEW c \in Callers, RequestStep(c) PROVE StartInv'
  <2>1. ready
    BY <1>4, Served DEF RequestStep, Get, Write, Waited, Marker, MarkerHistory
  <2>2. UNCHANGED <<lastSeq, consumer, ready>>
    BY <1>4, RequestSteps DEF Appends, index
  <2>3. CASE Appends(c)
    <3>1. PICK k \in Keys, op \in Ops, leased \in BOOLEAN : k \in AllKeys /\ 0 \in Seqs /\ Publish(k, op, leased, 0)
      BY <2>3, AppendsOne
    <3>2. Len(stream') = n + 1
      BY <1>2, <3>1, Published
    <3>3. QED
      BY <1>3, <2>1, <2>2, <3>2
  <2>4. CASE UNCHANGED stream
    BY <1>2, <1>3, <2>1, <2>2, <2>4
  <2>5. QED
    BY <1>4, <2>3, <2>4, RequestSteps
<1>5. CASE CompactWrite \/ CompactTxn
  <2>1. ready /\ UNCHANGED <<lastSeq, consumer, ready>>
    BY <1>5, Served DEF CompactWrite, CompactTxn, index
  <2>2. CASE stream' # stream
    <3>1. PICK rev \in Seqs : /\ CompactKey \in AllKeys /\ "put" \in Ops /\ FALSE \in BOOLEAN
                              /\ Publish(CompactKey, "put", FALSE, rev)
      BY <1>5, <2>2, CompactAppends
    <3>2. Len(stream') = n + 1
      BY <1>2, <3>1, Published
    <3>3. QED
      BY <1>3, <2>1, <3>2
  <2>3. CASE UNCHANGED stream
    BY <1>2, <1>3, <2>1, <2>3
  <2>4. QED
    BY <2>2, <2>3
<1>6. CASE (\E c \in Clients : Begin(c)) \/ Expire \/ CompactBegin \/ compactWatcher
  <2>1. ready /\ UNCHANGED <<stream, lastSeq, consumer, ready>>
    BY <1>6 DEF Begin, Expire, Lookup, CompactBegin, compactWatcher, index
  <2>2. QED
    BY <1>2, <1>3, <2>1
<1>7. CASE btreeUpdate
  <2>1. PICK s : s = NextFrom(consumer.pos, AllKeys)
    OBVIOUS
  <2>2. /\ s \in 1 .. Len(stream) /\ lastSeq <= s /\ s \in Nat /\ consumer'.pos = s + 1
        /\ consumer'.target = consumer.target
        /\ lastSeq' = s \/ lastSeq' = lastSeq
        /\ ready => ready'
    BY <1>7, <2>1, NextAhead
  <2>3. UNCHANGED <<stream, compaction, req>> /\ lastSeq \in Nat /\ lastSeq <= n
    BY <1>2, <1>7 DEF btreeUpdate, StartInv, TypeOK, Seqs
  <2>4. PICK l \in Nat : l = lastSeq' /\ l <= s
    BY <2>2, <2>3
  <2>5. l <= n /\ l <= s + 1
    BY <1>2, <2>2, <2>4
  <2>6. lastSeq' <= Len(stream') /\ lastSeq' <= consumer'.pos
    BY <1>2, <2>2, <2>3, <2>4, <2>5
  <2>7. QED
    BY <2>2, <2>3, <2>6 DEF StartInv, compaction
<1>8. CASE btreeRestart
  <2>1. /\ UNCHANGED <<stream, lastSeq, ready, req, compaction>> /\ consumer'.pos = resumeAt
        /\ consumer'.target = Len(stream)
    BY <1>8 DEF btreeRestart
  <2>2. lastSeq <= resumeAt
    BY DEF resumeAt, TypeOK, Seqs
  <2>3. QED
    BY <2>1, <2>2 DEF StartInv, compaction
<1>9. CASE Crash
  <2>1. /\ UNCHANGED stream /\ lastSeq' = 0 /\ consumer'.pos = 1 /\ consumer'.target = Len(stream)
        /\ compactRev' = 0 /\ compactor'.st = "idle" /\ \A c \in Callers : req'[c].st = "idle"
    BY <1>9 DEF Crash, Started, NotCompacting, IdleReq
  <2>2. 0 <= n
    BY <1>2
  <2>3. QED
    BY <1>2, <2>1, <2>2 DEF StartInv
<1>10. CASE WatchOpen \/ WatchDeliver \/ WatchError \/ UNCHANGED vars
  BY <1>1, <1>10 DEF WatchOpen, WatchDeliver, WatchError, vars
<1>11. QED
  BY <1>4, <1>5, <1>6, <1>7, <1>8, <1>9, <1>10 DEF Next

LEMMA StartInitInv ==
  Init => StartInv
<1> SUFFICES ASSUME Init PROVE StartInv
  OBVIOUS
<1>1. stream = <<>> /\ lastSeq = 0 /\ consumer.pos = 1 /\ ready /\ Len(stream) = 0
  BY DEF Init
<1>2. QED
  BY <1>1 DEF StartInv

LEMMA StartInvariant ==
  Spec => [](TypeOK /\ RequestsInv /\ CompactInv /\ StartInv)
BY NatsInitType, NatsStepType, RequestsInitInv, RequestsStepInv, CompactInitInv, CompactStepInv,
   StartInitInv, StartStepInv, PTL DEF Spec

-----------------------------------------------------------------------------
(* Watches. *)

(* A message that is no longer kept never is again. *)
LEMMA KeptBefore ==
  ASSUME TypeOK, NEW k \in AllKeys, NEW op \in Ops, NEW leased \in BOOLEAN, NEW rev \in Seqs,
         Publish(k, op, leased, rev), NEW s \in 1 .. Len(stream), Kept(s)'
  PROVE  Kept(s)
<1>1. PICK n, l : n \in Nat /\ n = Len(stream) /\ l = stream[s].key
  BY StreamTyped
<1>2. stream'[s] = stream[s] /\ DOMAIN stream' = 1 .. n + 1
  BY <1>1, Published
<1>3. SeqsOf(l)' = IF l = k THEN SeqsOf(l) \cup {n + 1} ELSE SeqsOf(l)
  BY <1>1, PublishedSeqs
<1>4. PICK S, T : S = {t \in SeqsOf(l) : t > s} /\ T = {t \in SeqsOf(l)' : t > s}
  OBVIOUS
<1>5. S \subseteq T
  BY <1>3, <1>4
<1>6. IsFiniteSet(T)
  <2>1. IsFiniteSet(1 .. n + 1)
    BY <1>1, FS_Interval
  <2>2. T \subseteq 1 .. n + 1
    BY <1>2, <1>4 DEF SeqsOf
  <2>3. QED
    BY <2>1, <2>2, FS_Subset
<1>7. Cardinality(T) < History
  BY <1>1, <1>2, <1>4 DEF Kept
<1>8. /\ Cardinality(S) <= Cardinality(T) /\ Cardinality(S) \in Nat /\ Cardinality(T) \in Nat
  BY <1>5, <1>6, FS_Subset, FS_CardinalityType
<1>9. Cardinality(S) < History
  BY <1>7, <1>8, NatsAssumption
<1>10. QED
  BY <1>1, <1>4, <1>9 DEF Kept

LEMMA WatchAppended ==
  ASSUME TypeOK, WatchInv, NEW k \in AllKeys, NEW op \in Ops, NEW leased \in BOOLEAN, NEW rev \in Seqs,
         Publish(k, op, leased, rev), UNCHANGED <<watch, compactRev>>
  PROVE  WatchInv'
<1>1. PICK n \in Nat : n = Len(stream)
  BY StreamTyped
<1>2. /\ Len(stream') = n + 1 /\ DOMAIN stream' = 1 .. n + 1 /\ \A s \in 1 .. n : stream'[s] = stream[s]
      /\ DOMAIN stream = 1 .. n
  BY <1>1, Published, StreamTyped
<1>3. watch.start \in Nat /\ watch.pos \in Nat
  BY DEF TypeOK
<1>4. CASE ~watch.on
  BY <1>4 DEF WatchInv, NoGapInWatch
<1>5. CASE watch.on
  <2>1. watch.start <= n + 1 /\ watch.pos <= n + 1
    BY <1>1, <1>5 DEF WatchInv
  <2>2. ASSUME NEW s \in 1 .. n + 1, watch.start <= s, s < watch.pos, stream'[s].key \in Keys,
               stream'[s].op # "del", s >= compactRev, Kept(s)'
        PROVE  s \in watch.sent
    <3>1. s \in 1 .. n
      BY <1>3, <2>1, <2>2
    <3>2. Kept(s)
      BY <1>1, <2>2, <3>1, KeptBefore
    <3>3. QED
      BY <1>2, <1>5, <2>2, <3>1, <3>2 DEF WatchInv, NoGapInWatch
  <2>3. NoGapInWatch'
    BY <1>2, <2>2 DEF NoGapInWatch
  <2>4. watch.start <= n + 1 + 1 /\ watch.pos <= n + 1 + 1
    BY <1>3, <2>1
  <2>5. QED
    BY <1>2, <2>3, <2>4 DEF WatchInv
<1>6. QED
  BY <1>4, <1>5

LEMMA WatchStepInv ==
  TypeOK /\ CompactInv /\ StartInv /\ WatchInv /\ [Next]_vars => WatchInv'
<1> SUFFICES ASSUME TypeOK, CompactInv, StartInv, WatchInv, [Next]_vars PROVE WatchInv'
  OBVIOUS
<1>1. PICK n \in Nat : n = Len(stream) /\ DOMAIN stream = 1 .. n
  BY StreamTyped
<1>2. CASE UNCHANGED <<stream, watch>> /\ compactRev' >= compactRev /\ compactRev' \in Nat
  <2>1. PICK v \in Nat : v = compactRev' /\ v >= compactRev
    BY <1>2
  <2>2. compactRev \in Nat
    BY DEF TypeOK, Seqs
  <2>3. ASSUME NEW s \in 1 .. n, s >= v PROVE s >= compactRev
    BY <2>1, <2>2, <2>3
  <2>4. \A s : Kept(s)' <=> Kept(s)
    BY <1>2 DEF Kept, SeqsOf
  <2>5. ASSUME watch.on, NEW s \in 1 .. n, watch.start <= s, s < watch.pos, stream[s].key \in Keys,
               stream[s].op # "del", s >= v, Kept(s)
        PROVE  s \in watch.sent
    BY <1>1, <2>3, <2>5 DEF WatchInv, NoGapInWatch
  <2>6. NoGapInWatch'
    BY <1>1, <1>2, <2>1, <2>4, <2>5 DEF NoGapInWatch
  <2>7. QED
    BY <1>2, <2>6 DEF WatchInv
<1>3. CASE UNCHANGED <<stream, watch, compactRev>>
  <2>1. compactRev' >= compactRev /\ compactRev' \in Nat
    BY <1>3 DEF TypeOK, Seqs
  <2>2. QED
    BY <1>2, <1>3, <2>1
<1>4. ASSUME NEW c \in Callers, RequestStep(c) PROVE WatchInv'
  <2>1. CASE Appends(c)
    <3>1. PICK k \in Keys, op \in Ops, leased \in BOOLEAN : k \in AllKeys /\ 0 \in Seqs /\ Publish(k, op, leased, 0)
      BY <2>1, AppendsOne
    <3>2. UNCHANGED <<watch, compactRev>>
      BY <2>1 DEF Appends, compaction
    <3>3. QED
      BY <3>1, <3>2, WatchAppended
  <2>2. CASE UNCHANGED <<stream, compaction, watch>>
    BY <1>3, <2>2 DEF compaction
  <2>3. QED
    BY <1>4, <2>1, <2>2, RequestSteps
<1>5. CASE CompactWrite \/ CompactTxn
  <2>1. UNCHANGED <<watch, compactRev>>
    BY <1>5 DEF CompactWrite, CompactTxn, compaction
  <2>2. CASE stream' # stream
    <3>1. PICK rev \in Seqs : /\ CompactKey \in AllKeys /\ "put" \in Ops /\ FALSE \in BOOLEAN
                              /\ Publish(CompactKey, "put", FALSE, rev)
      BY <1>5, <2>2, CompactAppends
    <3>2. QED
      BY <2>1, <3>1, WatchAppended
  <2>3. QED
    BY <1>3, <2>1, <2>2
<1>6. CASE compactWatcher
  <2>1. UNCHANGED <<stream, watch>> /\ compactRev' >= compactRev /\ compactRev' \in Seqs
    BY <1>6, CompactWatched DEF compactWatcher
  <2>2. QED
    BY <1>2, <2>1 DEF Seqs
<1>7. CASE WatchOpen
  <2>1. PICK start \in 0 .. lastSeq + 1 : watch' = [on |-> TRUE, start |-> start, pos |-> start, sent |-> {}]
    BY <1>7 DEF WatchOpen
  <2>2. UNCHANGED stream /\ start \in Nat /\ start <= n + 1
    BY <1>1, <1>7, <2>1 DEF WatchOpen, StartInv, TypeOK, Seqs
  <2>3. \A s \in 1 .. n : ~(start <= s /\ s < start)
    BY <2>2
  <2>4. watch'.start = start /\ watch'.pos = start
    BY <2>1
  <2>5. NoGapInWatch'
    BY <1>1, <2>2, <2>3, <2>4 DEF NoGapInWatch
  <2>6. QED
    BY <1>1, <2>2, <2>4, <2>5 DEF WatchInv
<1>8. CASE WatchDeliver
  <2> DEFINE p == NextFrom(watch.pos, Keys)
             sent == IF delivered(p) /\ stream[p].op # "del" THEN watch.sent \cup {p} ELSE watch.sent
  <2>1. /\ UNCHANGED <<stream, compactRev>> /\ p # 0 /\ watch.on
        /\ watch' = [watch EXCEPT !.pos = p + 1, !.sent = sent]
    BY <1>8 DEF WatchDeliver, compaction
  <2>2. /\ watch \in [on : BOOLEAN, start : 0 .. MaxSeq + 1, pos : 0 .. MaxSeq + 1, sent : SUBSET Seqs]
        /\ watch.pos \in Nat /\ watch.start \in Nat
    BY DEF TypeOK
  <2>3. /\ p \in 1 .. n /\ p >= watch.pos
        /\ \A t \in 1 .. n : t >= watch.pos /\ t < p /\ stream[t].key \in Keys => ~Kept(t)
    BY <1>1, <2>1, <2>2, NextFromSpec
  <2>4. /\ watch.sent \subseteq sent /\ (p >= compactRev /\ stream[p].op # "del" => p \in sent)
    BY DEF delivered
  <2> HIDE DEF p, sent
  <2>5. watch'.start = watch.start /\ watch'.pos = p + 1 /\ watch'.sent = sent /\ watch'.on
    BY <2>1, <2>2
  <2>6. \A s : Kept(s)' <=> Kept(s)
    BY <2>1 DEF Kept, SeqsOf
  <2>7. ASSUME NEW s \in 1 .. n, watch.start <= s, s < p + 1, stream[s].key \in Keys,
               stream[s].op # "del", s >= compactRev, Kept(s)
        PROVE  s \in sent
    <3>1. CASE s < watch.pos
      BY <1>1, <2>1, <2>4, <2>7, <3>1 DEF WatchInv, NoGapInWatch
    <3>2. CASE s = p
      BY <2>4, <2>7, <3>2
    <3>3. CASE s >= watch.pos /\ s # p
      BY <2>2, <2>3, <2>7, <3>3
    <3>4. QED
      BY <2>2, <3>1, <3>2, <3>3
  <2>8. NoGapInWatch'
    BY <1>1, <2>1, <2>5, <2>6, <2>7 DEF NoGapInWatch
  <2>9. p + 1 <= n + 1
    BY <2>3
  <2>10. QED
    BY <1>1, <2>1, <2>5, <2>8, <2>9 DEF WatchInv
<1>9. CASE WatchError
  <2>1. UNCHANGED stream /\ watch.on /\ watch' = [watch EXCEPT !.pos = watch.start]
    BY <1>9 DEF WatchError, watchAgainAt
  <2>2. /\ watch \in [on : BOOLEAN, start : 0 .. MaxSeq + 1, pos : 0 .. MaxSeq + 1, sent : SUBSET Seqs]
        /\ watch.start \in Nat /\ watch.start <= n + 1
    BY <1>1, <2>1 DEF TypeOK, WatchInv
  <2>3. watch'.start = watch.start /\ watch'.pos = watch.start
    BY <2>1, <2>2
  <2>4. \A s \in 1 .. n : ~(watch.start <= s /\ s < watch.start)
    BY <2>2
  <2>5. NoGapInWatch'
    BY <1>1, <2>1, <2>3, <2>4 DEF NoGapInWatch
  <2>6. QED
    BY <1>1, <2>1, <2>2, <2>3, <2>5 DEF WatchInv
<1>10. CASE Crash
  BY <1>10 DEF Crash, Started, NoWatch, WatchInv, NoGapInWatch
<1>11. CASE btreeUpdate \/ btreeRestart \/ (\E c \in Clients : Begin(c)) \/ Expire \/ CompactBegin
  BY <1>3, <1>11 DEF btreeUpdate, btreeRestart, Begin, Expire, CompactBegin, compaction
<1>12. CASE UNCHANGED vars
  BY <1>3, <1>12 DEF vars, compaction
<1>13. QED
  BY <1>4, <1>5, <1>6, <1>7, <1>8, <1>9, <1>10, <1>11, <1>12 DEF Next

(* A watch of the bucket, reopened after any number of consumer failures, has sent every change    *)
(* between its start and its position that is neither compacted nor dropped by the bucket, whatever *)
(* the clients, the compactions and the crashes around it do (backend.go, Watch; kv.go, Watch).     *)
THEOREM NoWatchGap ==
  Spec => []NoGapInWatch
<1>1. Init => WatchInv
  BY DEF Init, NoWatch, WatchInv, NoGapInWatch
<1>2. WatchInv => NoGapInWatch
  BY DEF WatchInv
<1>3. QED
  BY <1>1, <1>2, StartInvariant, WatchStepInv, PTL DEF Spec

-----------------------------------------------------------------------------
(* Acknowledged writes. *)

LEMMA OneRequest ==
  ASSUME TypeOK, NEW c \in Callers, NEW v, req' = [req EXCEPT ![c] = v]
  PROVE  req'[c] = v /\ \A d \in Callers \ {c} : req'[d] = req[d]
BY DEF TypeOK

LEMMA TombsStepInv ==
  ASSUME WaitTimeout = FALSE, TypeOK, RequestsInv, StartInv, TombsIndexed, [Next]_vars
  PROVE  TombsIndexed'
<1>1. lastSeq \in Nat /\ \A c \in Callers : req[c] \in Reqs /\ req[c].seq \in Nat
  <2>1. req \in [Callers -> Reqs] /\ \A r \in Reqs : r.seq \in Nat
    BY DEF TypeOK, Reqs, Seqs
  <2>2. QED
    BY <2>1 DEF TypeOK, Seqs
<1>2. CASE UNCHANGED <<req, lastSeq>>
  BY <1>2 DEF TombsIndexed
<1>3. ASSUME UNCHANGED lastSeq, NEW c \in Callers, NEW v, req' = [req EXCEPT ![c] = v],
             v.st \in {"marker", "history"} => v.seq <= lastSeq
      PROVE  TombsIndexed'
  <2>1. req'[c] = v /\ \A d \in Callers \ {c} : req'[d] = req[d]
    BY <1>3, OneRequest
  <2>2. ASSUME NEW d \in Callers, req'[d].st \in {"marker", "history"} PROVE req'[d].seq <= lastSeq
    BY <1>3, <2>1, <2>2 DEF TombsIndexed
  <2>3. QED
    BY <1>3, <2>2 DEF TombsIndexed
<1>4. IdleReq.st = "idle"
  BY DEF IdleReq
<1>5. ASSUME NEW c \in Clients, Begin(c) PROVE TombsIndexed'
  <2>1. PICK op \in {"create", "update", "delete"}, k \in Keys, leased \in BOOLEAN : Lookup(c, op, k, leased, 0)
    BY <1>5 DEF Begin
  <2>2. c \in Callers /\ 0 \in Seqs /\ UNCHANGED lastSeq
    BY <1>5, StartTyped DEF Callers, Begin, index
  <2>3. PICK v \in Reqs : req' = [req EXCEPT ![c] = v] /\ (v = IdleReq \/ v.st \in {"get", "write"})
    BY <2>1, <2>2, LookupTyped
  <2>4. QED
    BY <1>3, <1>4, <2>2, <2>3
<1>6. CASE Expire
  <2>1. PICK e \in heap : Lookup(Expirer, "delete", e.key, FALSE, e.seq)
    BY <1>6 DEF Expire
  <2>2. e.key \in Keys /\ e.seq \in Seqs /\ Expirer \in Callers /\ UNCHANGED lastSeq
    BY <1>6 DEF Expire, TypeOK, Callers, index
  <2>3. PICK v \in Reqs : req' = [req EXCEPT ![Expirer] = v] /\ (v = IdleReq \/ v.st \in {"get", "write"})
    <3>1. "delete" \in {"create", "update", "delete"} /\ FALSE \in BOOLEAN
      OBVIOUS
    <3>2. PICK op \in {"create", "update", "delete"}, k \in Keys, leased \in BOOLEAN, last \in Seqs :
            Lookup(Expirer, op, k, leased, last)
      BY <2>1, <2>2, <3>1
    <3>3. QED
      BY <2>2, <3>2, LookupTyped
  <2>4. QED
    BY <1>3, <1>4, <2>2, <2>3
<1>7. ASSUME NEW c \in Callers, Get(c) PROVE TombsIndexed'
  <2>1. UNCHANGED lastSeq
    BY <1>7 DEF Get, index
  <2>2. PICK v \in Reqs : req' = [req EXCEPT ![c] = v] /\ (v = IdleReq \/ v.st = "write")
    BY <1>7, GetMoves
  <2>3. QED
    BY <1>3, <1>4, <2>1, <2>2
<1>8. ASSUME NEW c \in Callers, Write(c) PROVE TombsIndexed'
  <2>1. UNCHANGED lastSeq
    BY <1>8 DEF Write, index
  <2>2. PICK v : v = [req[c] EXCEPT !.st = "wait", !.seq = Len(stream) + 1]
    OBVIOUS
  <2>3. v.st = "wait"
    BY <1>1, <2>2 DEF Reqs
  <2>4. req' = [req EXCEPT ![c] = IdleReq] \/ req' = [req EXCEPT ![c] = v]
    BY <1>8, <2>2, WriteMoves
  <2>5. QED
    BY <1>3, <1>4, <2>1, <2>3, <2>4
<1>9. ASSUME NEW c \in Callers, Marker(c) PROVE TombsIndexed'
  <2>1. UNCHANGED lastSeq /\ req[c].st = "marker"
    BY <1>9 DEF Marker, index
  <2>2. PICK v \in Reqs : req' = [req EXCEPT ![c] = v] /\ (v = IdleReq \/ v.seq = req[c].seq)
    BY <1>9, MarkerMoves
  <2>3. req[c].seq <= lastSeq
    BY <2>1 DEF TombsIndexed
  <2>4. QED
    BY <1>3, <1>4, <2>1, <2>2, <2>3
<1>10. ASSUME NEW c \in Callers, MarkerHistory(c) PROVE TombsIndexed'
  <2>1. UNCHANGED lastSeq
    BY <1>10 DEF MarkerHistory, index
  <2>2. PICK v \in Reqs : req' = [req EXCEPT ![c] = v] /\ (v = IdleReq \/ v.st = "wait")
    BY <1>10, HistoryMoves
  <2>3. QED
    BY <1>3, <1>4, <2>1, <2>2
<1>11. ASSUME NEW c \in Callers, Waited(c) PROVE TombsIndexed'
  <2>1. UNCHANGED lastSeq /\ lastSeq >= req[c].seq
    BY <1>11 DEF Waited, waitForSequence, index
  <2>2. PICK w : w = [req[c] EXCEPT !.st = "marker"]
    OBVIOUS
  <2>3. w.seq = req[c].seq /\ (req' = [req EXCEPT ![c] = IdleReq] \/ req' = [req EXCEPT ![c] = w])
    BY <1>1, <1>11, <2>2 DEF Waited, Reqs
  <2>4. w.seq <= lastSeq
    BY <1>1, <2>1, <2>3
  <2>5. QED
    BY <1>3, <1>4, <2>1, <2>3, <2>4
<1>12. CASE btreeUpdate
  <2>1. PICK s : s = NextFrom(consumer.pos, AllKeys)
    OBVIOUS
  <2>2. s \in Nat /\ lastSeq <= s /\ (lastSeq' = s \/ lastSeq' = lastSeq) /\ UNCHANGED req
    BY <1>12, <2>1, NextAhead DEF btreeUpdate
  <2>3. PICK m \in Nat : m = lastSeq' /\ lastSeq <= m
    BY <1>1, <2>2
  <2>4. ASSUME NEW c \in Callers, req[c].st \in {"marker", "history"} PROVE req[c].seq <= m
    <3>1. req[c].seq <= lastSeq
      BY <2>4 DEF TombsIndexed
    <3>2. QED
      BY <1>1, <2>3, <3>1
  <2>5. QED
    BY <2>2, <2>3, <2>4 DEF TombsIndexed
<1>13. CASE Crash
  BY <1>13 DEF Crash, Started, IdleReq, TombsIndexed
<1>14. CASE btreeRestart \/ CompactBegin \/ CompactWrite \/ CompactTxn \/ compactWatcher \/ WatchOpen \/ WatchDeliver \/ WatchError
  BY <1>2, <1>14 DEF btreeRestart, CompactBegin, CompactWrite, CompactTxn, compactWatcher, WatchOpen, WatchDeliver, WatchError, index
<1>15. CASE UNCHANGED vars
  BY <1>2, <1>15 DEF vars, index
<1>16. QED
  BY <1>5, <1>6, <1>7, <1>8, <1>9, <1>10, <1>11, <1>12, <1>13, <1>14, <1>15 DEF Next, RequestStep

LEMMA AcksStepInv ==
  ASSUME WaitTimeout = FALSE, TypeOK, RequestsInv, StartInv, AckInv, [Next]_vars
  PROVE  AcksIndexed'
<1>1. PICK n \in Nat : n = Len(stream)
  BY StreamTyped
<1>2. acked \in Nat /\ lastSeq \in Nat /\ acked <= n /\ (ready => lastSeq >= acked)
  BY <1>1 DEF TypeOK, Seqs, AckInv, AcksIndexed, ReadYourWrites
<1>3. ASSUME UNCHANGED <<acked, lastSeq, ready>>, Len(stream') \in Nat, Len(stream') >= n PROVE AcksIndexed'
  <2>1. PICK m \in Nat : m = Len(stream') /\ m >= n
    BY <1>3
  <2>2. acked <= m
    BY <1>2, <2>1
  <2>3. QED
    BY <1>2, <1>3, <2>1, <2>2 DEF AcksIndexed, ReadYourWrites
<1>4. CASE UNCHANGED <<stream, acked, lastSeq, ready>>
  BY <1>1, <1>3, <1>4
<1>5. ASSUME UNCHANGED <<stream, lastSeq, ready>>, ready, NEW c \in Callers, acked' \in {acked, req[c].seq},
             acked' # acked => OwnMessage(req[c]) /\ req[c].st # "idle" /\ req[c].st # "get" /\ req[c].st # "write" /\ req[c].seq <= lastSeq
      PROVE AcksIndexed'
  <2>1. CASE acked' = acked
    BY <1>4, <1>5, <2>1
  <2>2. CASE acked' # acked
    <3>1. req[c].st \in {"wait", "marker", "history"}
      BY <1>5, <2>2 DEF TypeOK
    <3>2. PICK q \in Nat : q = acked' /\ q <= n /\ q <= lastSeq
      BY <1>1, <1>5, <2>2, <3>1 DEF OwnMessage
    <3>3. QED
      BY <1>1, <1>2, <1>5, <3>2 DEF AcksIndexed, ReadYourWrites
  <2>3. QED
    BY <2>1, <2>2
<1>6. ASSUME NEW c \in Callers, Waited(c) PROVE AcksIndexed'
  <2>1. UNCHANGED <<stream, lastSeq, ready>> /\ lastSeq >= req[c].seq /\ acked' \in {acked, req[c].seq}
    BY <1>6 DEF Waited, waitForSequence, index
  <2>2. OwnMessage(req[c]) /\ req[c].st = "wait" /\ ready
    BY <1>6, Served DEF RequestsInv, Waited
  <2>3. req[c].seq <= lastSeq
    BY <1>2, <2>1 DEF TypeOK, Seqs
  <2>4. QED
    BY <1>5, <2>1, <2>2, <2>3
<1>7. ASSUME NEW c \in Callers, MarkerHistory(c) PROVE AcksIndexed'
  <2>1. UNCHANGED <<stream, lastSeq, ready>> /\ req[c].st = "history"
    BY <1>7 DEF MarkerHistory, index
  <2>2. acked' \in {acked, req[c].seq}
    BY <1>7 DEF MarkerHistory
  <2>3. OwnMessage(req[c]) /\ ready /\ req[c].seq <= lastSeq
    BY <2>1, Served DEF RequestsInv, AckInv, TombsIndexed
  <2>4. QED
    BY <1>5, <2>1, <2>2, <2>3
<1>8. ASSUME NEW c \in Callers, Get(c) \/ Write(c) \/ Marker(c) PROVE AcksIndexed'
  <2>1. UNCHANGED <<acked, lastSeq, ready>>
    BY <1>8 DEF Get, Write, Marker, index
  <2>2. CASE Appends(c)
    <3>1. PICK k \in Keys, op \in Ops, leased \in BOOLEAN : k \in AllKeys /\ 0 \in Seqs /\ Publish(k, op, leased, 0)
      BY <2>2, AppendsOne
    <3>2. Len(stream') = n + 1
      BY <1>1, <3>1, Published
    <3>3. QED
      BY <1>3, <2>1, <3>2
  <2>3. CASE UNCHANGED stream
    BY <1>4, <2>1, <2>3
  <2>4. QED
    BY <1>8, <2>2, <2>3, RequestSteps DEF RequestStep
<1>9. CASE CompactWrite \/ CompactTxn
  <2>1. UNCHANGED <<acked, lastSeq, ready>>
    BY <1>9 DEF CompactWrite, CompactTxn, index
  <2>2. CASE stream' # stream
    <3>1. PICK rev \in Seqs : /\ CompactKey \in AllKeys /\ "put" \in Ops /\ FALSE \in BOOLEAN
                              /\ Publish(CompactKey, "put", FALSE, rev)
      BY <1>9, <2>2, CompactAppends
    <3>2. Len(stream') = n + 1
      BY <1>1, <3>1, Published
    <3>3. QED
      BY <1>3, <2>1, <3>2
  <2>3. QED
    BY <1>4, <2>1, <2>2
<1>10. CASE btreeUpdate
  <2>1. PICK s : s = NextFrom(consumer.pos, AllKeys)
    OBVIOUS
  <2>2. /\ s \in 1 .. n /\ lastSeq <= s
        /\ \/ lastSeq' = s /\ ready' = (ready \/ startupDone(s))
           \/ UNCHANGED <<lastSeq, ready>>
    BY <1>1, <1>10, <2>1, NextAhead
  <2>3. UNCHANGED <<stream, acked>>
    BY <1>10 DEF btreeUpdate
  <2>4. CASE UNCHANGED <<lastSeq, ready>>
    BY <1>4, <2>3, <2>4
  <2>5. CASE lastSeq' = s /\ ready' = (ready \/ startupDone(s))
    <3>1. ready' => s >= acked
      <4>1. CASE ready
        BY <1>2, <2>2, <4>1
      <4>2. CASE ~ready /\ startupDone(s)
        <5>1. s >= n
          BY <1>1, <4>2 DEF startupDone, StartInv
        <5>2. QED
          BY <1>2, <2>2, <5>1
      <4>3. QED
        BY <2>5, <4>1, <4>2
    <3>2. QED
      BY <1>1, <1>2, <2>3, <2>5, <3>1 DEF AcksIndexed, ReadYourWrites
  <2>6. QED
    BY <2>2, <2>4, <2>5
<1>11. CASE Crash
  <2>1. UNCHANGED <<stream, acked>> /\ ~ready'
    BY <1>11 DEF Crash, Started
  <2>2. QED
    BY <1>1, <1>2, <2>1 DEF AcksIndexed, ReadYourWrites
<1>12. CASE btreeRestart \/ (\E c \in Clients : Begin(c)) \/ Expire \/ CompactBegin \/ compactWatcher
            \/ WatchOpen \/ WatchDeliver \/ WatchError
  BY <1>4, <1>12 DEF btreeRestart, Begin, Expire, CompactBegin, compactWatcher, WatchOpen, WatchDeliver, WatchError, index
<1>13. CASE UNCHANGED vars
  BY <1>4, <1>13 DEF vars, index
<1>14. QED
  BY <1>6, <1>7, <1>8, <1>9, <1>10, <1>11, <1>12, <1>13 DEF Next, RequestStep

LEMMA AckStepInv ==
  ASSUME WaitTimeout = FALSE, TypeOK, RequestsInv, StartInv, AckInv, [Next]_vars
  PROVE  AckInv'
BY AcksStepInv, TombsStepInv DEF AckInv

(* A write that was acknowledged is in the index whenever requests are served, after a crash too:   *)
(* the request waits for its revision (waitForSequence) and the process is ready only when the      *)
(* replay has reached the end of the stream (btreeWatcher).  It needs that no wait times out: after  *)
(* a timeout the code logs and answers all the same.                                                *)
THEOREM AcknowledgedIsRead ==
  ASSUME WaitTimeout = FALSE
  PROVE  Spec => []ReadYourWrites
<1> DEFINE Inv == TypeOK /\ RequestsInv /\ CompactInv /\ StartInv
<1>1. Init => AckInv
  BY DEF Init, AckInv, AcksIndexed, TombsIndexed, IdleReq, ReadYourWrites
<1>2. Inv /\ AckInv /\ [Next]_vars => AckInv'
  BY AckStepInv
<1>3. AckInv => ReadYourWrites
  BY DEF AckInv, AcksIndexed
<1>4. QED
  BY <1>1, <1>2, <1>3, StartInvariant, PTL DEF Spec

-----------------------------------------------------------------------------
(* The newest version of a key in the index. *)

LEMMA RevBehind ==
  ASSUME TypeOK, CompactInv, StartInv, BehindInv
  PROVE  compactRev \in Nat /\ compactRev <= lastSeq
<1>1. compactRev \in Nat /\ lastSeq \in Nat
  BY DEF TypeOK, Seqs
<1>2. CASE ~ready
  BY <1>1, <1>2 DEF StartInv
<1>3. CASE ready
  <2>1. CASE LastOf(CompactKey) = 0
    <3>1. CompactValue = 0 /\ compactRev <= CompactValue
      BY <2>1 DEF CompactValue, CompactInv
    <3>2. QED
      BY <1>1, <3>1
  <2>2. CASE LastOf(CompactKey) # 0
    <3>1. LastOf(CompactKey) \in SeqsOf(CompactKey) /\ CompactValue = stream[LastOf(CompactKey)].rev
      BY <2>2, LastOfSpec DEF CompactValue
    <3>2. CompactValue <= lastSeq /\ CompactValue \in Nat /\ compactRev <= CompactValue
      BY <1>3, <3>1, CompactValueIs DEF BehindInv, CompactInv, Seqs
    <3>3. QED
      BY <1>1, <3>2
  <2>3. QED
    BY <2>1, <2>2
<1>4. QED
  BY <1>2, <1>3

(* So every message that the consumer of the index is sent is applied. *)
LEMMA AlwaysDelivered ==
  ASSUME TypeOK, CompactInv, StartInv, BehindInv, btreeUpdate, NEW s, s = NextFrom(consumer.pos, AllKeys)
  PROVE  delivered(s) /\ lastSeq' = s
<1>1. s \in Nat /\ lastSeq <= s /\ (delivered(s) => lastSeq' = s) /\ lastSeq \in Nat
  <2>1. s \in Nat /\ lastSeq <= s /\ (delivered(s) => lastSeq' = s)
    BY NextAhead
  <2>2. QED
    BY <2>1 DEF TypeOK, Seqs
<1>2. compactRev \in Nat /\ compactRev <= lastSeq
  BY RevBehind
<1>3. delivered(s)
  BY <1>1, <1>2 DEF delivered
<1>4. QED
  BY <1>1, <1>3

LEMMA BehindAppended ==
  ASSUME TypeOK, StartInv, BehindInv, NEW k \in AllKeys, NEW op \in Ops, NEW leased \in BOOLEAN, NEW rev \in Seqs,
         Publish(k, op, leased, rev), UNCHANGED index, compactor' = compactor \/ compactor'.target = compactor.target \/ compactor'.st = "idle",
         compactor'.st = "read" => compactor.st = "read",
         k = CompactKey => rev <= lastSeq
  PROVE  BehindInv'
<1>1. PICK n \in Nat : n = Len(stream)
  BY StreamTyped
<1>2. /\ \A s \in 1 .. n : stream'[s] = stream[s]
      /\ stream'[n + 1].rev = rev
  <2>1. stream'[n + 1] = [key |-> k, op |-> op, leased |-> leased, rev |-> rev]
    BY <1>1, Published
  <2>2. \A s \in 1 .. n : stream'[s] = stream[s]
    BY <1>1, Published
  <2>3. QED
    BY <2>1, <2>2
<1>3. SeqsOf(CompactKey)' = IF CompactKey = k THEN SeqsOf(CompactKey) \cup {n + 1} ELSE SeqsOf(CompactKey)
  BY <1>1, PublishedSeqs
<1>4. \A s \in SeqsOf(CompactKey) : s \in 1 .. n
  BY <1>1, LastOfSpec
<1>5. UNCHANGED <<lastSeq, consumer, ready>> /\ lastSeq \in Nat /\ rev \in Nat /\ lastSeq <= n
  BY <1>1 DEF index, TypeOK, Seqs, StartInv
<1>6. ASSUME NEW s \in SeqsOf(CompactKey)' PROVE stream'[s].rev <= s /\ (ready => stream'[s].rev <= lastSeq)
  <2>1. CASE s \in SeqsOf(CompactKey)
    BY <1>2, <1>4, <2>1 DEF BehindInv
  <2>2. CASE k = CompactKey /\ s = n + 1
    BY <1>2, <1>5, <2>2
  <2>3. QED
    BY <1>3, <2>1, <2>2
<1>7. compactor'.st = "read" => compactor'.target <= lastSeq
  BY DEF BehindInv
<1>8. QED
  BY <1>5, <1>6, <1>7 DEF BehindInv

LEMMA BehindStepInv ==
  ASSUME OtherNodes = FALSE, TypeOK, CompactInv, StartInv, BehindInv, [Next]_vars
  PROVE  BehindInv'
<1>1. PICK n \in Nat : n = Len(stream)
  BY StreamTyped
<1>2. lastSeq \in Nat /\ lastSeq <= n /\ \A s \in SeqsOf(CompactKey) : s \in Nat /\ s <= n /\ stream[s].rev \in Nat
  <2>1. \A s \in SeqsOf(CompactKey) : s \in 1 .. n /\ stream[s].rev \in Seqs
    BY <1>1, LastOfSpec, CompactValueIs
  <2>2. QED
    BY <1>1, <2>1 DEF StartInv, TypeOK, Seqs
<1>3. CASE UNCHANGED <<stream, lastSeq, consumer, ready, compactor>>
  BY <1>3 DEF BehindInv, SeqsOf
<1>4. ASSUME NEW c \in Callers, RequestStep(c) PROVE BehindInv'
  <2>1. CASE Appends(c)
    <3>1. PICK k \in Keys, op \in Ops, leased \in BOOLEAN :
            k \in AllKeys /\ k # CompactKey /\ 0 \in Seqs /\ Publish(k, op, leased, 0)
      BY <2>1, AppendsOne
    <3>2. UNCHANGED index /\ compactor' = compactor
      BY <2>1 DEF Appends, compaction
    <3>3. QED
      BY <3>1, <3>2, BehindAppended
  <2>2. CASE UNCHANGED <<stream, index, compaction>>
    BY <1>3, <2>2 DEF compaction, index
  <2>3. QED
    BY <1>4, <2>1, <2>2, RequestSteps
<1>5. CASE CompactWrite
  <2>1. UNCHANGED index /\ compactor.st = "read" /\ (compactor'.st = "idle" \/ compactor' = [compactor EXCEPT !.seq = Len(stream) + 1])
    BY <1>5 DEF CompactWrite, NotCompacting
  <2>2. compactor'.st = "idle" \/ compactor'.target = compactor.target
    <3>1. compactor \in [st : {"idle", "read"}, target : Seqs, seq : Seqs]
      BY DEF TypeOK
    <3>2. QED
      BY <2>1, <3>1
  <2>3. CASE stream' # stream
    <3>1. PICK rev \in Seqs : /\ CompactKey \in AllKeys /\ "put" \in Ops /\ FALSE \in BOOLEAN
                              /\ Publish(CompactKey, "put", FALSE, rev)
                              /\ rev = 0 \/ rev = compactor.target \/ rev <= Told
      BY <1>5, <2>3, CompactAppends
    <3>2. rev <= lastSeq
      BY <1>2, <2>1, <3>1 DEF BehindInv, Told
    <3>3. QED
      BY <2>1, <2>2, <3>1, <3>2, BehindAppended
  <2>4. CASE UNCHANGED stream
    BY <2>1, <2>2, <2>4 DEF BehindInv, SeqsOf, index
  <2>5. QED
    BY <2>3, <2>4
<1>6. CASE CompactBegin
  <2>1. PICK target \in CompactValue + 2 .. lastSeq : compactor' = [st |-> "read", target |-> target, seq |-> 0]
    BY <1>6 DEF CompactBegin, Told
  <2>2. CompactValue \in Nat
    BY ToldTyped
  <2>3. compactor'.target <= lastSeq /\ UNCHANGED <<stream, lastSeq, consumer, ready>>
    BY <1>2, <1>6, <2>1, <2>2 DEF CompactBegin, index
  <2>4. QED
    BY <2>3 DEF BehindInv, SeqsOf
<1>7. CASE btreeUpdate
  <2>1. PICK s : s = NextFrom(consumer.pos, AllKeys)
    OBVIOUS
  <2>2. /\ s \in 1 .. n /\ lastSeq <= s /\ consumer'.pos = s + 1 /\ lastSeq' = s
        /\ ready' => ready \/ startupDone(s)
    BY <1>1, <1>7, <2>1, NextAhead, AlwaysDelivered
  <2>3. UNCHANGED <<stream, compactor>>
    BY <1>7 DEF btreeUpdate, compaction
  <2>4. compactor.st = "read" => compactor.target <= s
    <3>1. compactor.target \in Nat
      BY DEF TypeOK, Seqs
    <3>2. QED
      BY <1>2, <2>2, <3>1 DEF BehindInv
  <2>5. ASSUME ready', NEW t \in SeqsOf(CompactKey) PROVE stream[t].rev <= s
    <3>1. CASE ready
      BY <1>2, <2>2, <3>1 DEF BehindInv
    <3>2. CASE ~ready /\ startupDone(s)
      <4>1. s >= n
        BY <1>1, <3>2 DEF startupDone, StartInv
      <4>2. stream[t].rev <= t /\ t <= n /\ t \in Nat /\ stream[t].rev \in Nat
        BY <1>2 DEF BehindInv
      <4>3. QED
        BY <2>2, <4>1, <4>2
    <3>3. QED
      BY <2>2, <2>5, <3>1, <3>2
  <2>6. consumer'.pos <= lastSeq' + 1
    BY <2>2
  <2>7. SeqsOf(CompactKey)' = SeqsOf(CompactKey)
    BY <2>3 DEF SeqsOf
  <2>8. QED
    BY <2>2, <2>3, <2>4, <2>5, <2>6, <2>7 DEF BehindInv
<1>8. CASE btreeRestart
  <2>1. UNCHANGED <<stream, lastSeq, ready, compactor>> /\ consumer'.pos = resumeAt
    BY <1>8 DEF btreeRestart, compaction
  <2>2. resumeAt <= lastSeq + 1
    BY <1>2 DEF resumeAt
  <2>3. QED
    BY <2>1, <2>2 DEF BehindInv, SeqsOf
<1>9. CASE Crash
  <2>1. UNCHANGED stream /\ lastSeq' = 0 /\ consumer'.pos = 1 /\ compactor'.st = "idle" /\ ~ready'
    BY <1>9 DEF Crash, Started, NotCompacting
  <2>2. QED
    BY <2>1 DEF BehindInv, SeqsOf
<1>10. CASE (\E c \in Clients : Begin(c)) \/ Expire \/ compactWatcher \/ WatchOpen \/ WatchDeliver \/ WatchError
  BY <1>3, <1>10 DEF Begin, Expire, compactWatcher, WatchOpen, WatchDeliver, WatchError, index, compaction
<1>11. CASE CompactTxn
  <2>1. PICK rev \in Seqs : /\ CompactKey \in AllKeys /\ "put" \in Ops /\ FALSE \in BOOLEAN
                            /\ Publish(CompactKey, "put", FALSE, rev) /\ rev <= Told
    BY <1>11, TxnPublishes
  <2>2. UNCHANGED index /\ compactor' = compactor /\ Told = lastSeq
    BY <1>11 DEF CompactTxn, compaction, Told
  <2>3. QED
    BY <2>1, <2>2, BehindAppended
<1>12. CASE UNCHANGED vars
  BY <1>3, <1>12 DEF vars, index, compaction
<1>13. QED
  BY <1>4, <1>5, <1>6, <1>7, <1>8, <1>9, <1>10, <1>11, <1>12 DEF Next

LEMMA NewestAppended ==
  ASSUME TypeOK, StartInv, NewestIndexed, NEW k \in AllKeys, NEW op \in Ops, NEW leased \in BOOLEAN, NEW rev \in Seqs,
         Publish(k, op, leased, rev), UNCHANGED <<bt, lastSeq>>
  PROVE  NewestIndexed'
<1>1. PICK n \in Nat : n = Len(stream)
  BY StreamTyped
<1>2. lastSeq \in Nat /\ lastSeq <= n /\ \A s \in 1 .. n : stream'[s] = stream[s]
  <2>1. \A s \in 1 .. n : stream'[s] = stream[s]
    BY <1>1, Published
  <2>2. QED
    BY <1>1, <2>1 DEF StartInv, TypeOK, Seqs
<1>3. ASSUME NEW l \in AllKeys, LastOf(l)' # 0, LastOf(l)' <= lastSeq
      PROVE  bt[l] # <<>> /\ bt[l][Len(bt[l])] = [seq |-> LastOf(l)', op |-> stream'[LastOf(l)'].op]
  <2>1. LastOf(l)' = IF l = k THEN n + 1 ELSE LastOf(l)
    BY <1>1, PublishedSeqs
  <2>2. LastOf(l)' = LastOf(l)
    BY <1>2, <1>3, <2>1
  <2>3. PICK s : s = LastOf(l)
    OBVIOUS
  <2>4. s \in 1 .. n
    BY <1>1, <1>3, <2>2, <2>3, LastOfSpec
  <2>5. bt[l] # <<>> /\ bt[l][Len(bt[l])] = [seq |-> s, op |-> stream[s].op]
    BY <1>3, <2>2, <2>3 DEF NewestIndexed
  <2>6. QED
    BY <1>2, <2>2, <2>3, <2>4, <2>5
<1>4. QED
  BY <1>3 DEF NewestIndexed

LEMMA NewestStepInv ==
  ASSUME OtherNodes = FALSE, TypeOK, CompactInv, StartInv, BehindInv, NewestIndexed, [Next]_vars
  PROVE  NewestIndexed'
<1>1. CASE UNCHANGED <<stream, bt, lastSeq>>
  BY <1>1 DEF NewestIndexed, LastOf, SeqsOf
<1>2. ASSUME NEW c \in Callers, RequestStep(c) PROVE NewestIndexed'
  <2>1. CASE Appends(c)
    <3>1. PICK k \in Keys, op \in Ops, leased \in BOOLEAN : k \in AllKeys /\ 0 \in Seqs /\ Publish(k, op, leased, 0)
      BY <2>1, AppendsOne
    <3>2. UNCHANGED <<bt, lastSeq>>
      BY <2>1 DEF Appends, index
    <3>3. QED
      BY <3>1, <3>2, NewestAppended
  <2>2. CASE UNCHANGED <<stream, index>>
    BY <1>1, <2>2 DEF index
  <2>3. QED
    BY <1>2, <2>1, <2>2, RequestSteps
<1>3. CASE CompactWrite \/ CompactTxn
  <2>1. UNCHANGED <<bt, lastSeq>>
    BY <1>3 DEF CompactWrite, CompactTxn, index
  <2>2. CASE stream' # stream
    <3>1. PICK rev \in Seqs : /\ CompactKey \in AllKeys /\ "put" \in Ops /\ FALSE \in BOOLEAN
                              /\ Publish(CompactKey, "put", FALSE, rev)
      BY <1>3, <2>2, CompactAppends
    <3>2. QED
      BY <2>1, <3>1, NewestAppended
  <2>3. QED
    BY <1>1, <2>1, <2>2
<1>4. CASE btreeUpdate
  <2>1. PICK p : p = NextFrom(consumer.pos, AllKeys)
    OBVIOUS
  <2>2. /\ p \in 1 .. Len(stream) /\ delivered(p) /\ lastSeq' = p /\ UNCHANGED stream
        /\ bt' = [bt EXCEPT ![stream[p].key] = remember(@, [seq |-> p, op |-> stream[p].op])]
    BY <1>4, <2>1, NextAhead, AlwaysDelivered DEF btreeUpdate
  <2>3. PICK j, o : j = stream[p].key /\ o = stream[p].op
    OBVIOUS
  <2>4. /\ j \in AllKeys /\ [seq |-> p, op |-> o] \in Entries /\ p \in SeqsOf(j)
        /\ bt \in [AllKeys -> Seq(Entries)] /\ Len(bt[j]) <= History
    <3>1. stream[p] \in Message /\ p \in Seqs
      BY <2>2, StreamTyped
    <3>2. QED
      BY <2>2, <2>3, <3>1, StreamTyped DEF Message, Entries, Ops, SeqsOf, TypeOK
  <2>5. PICK h \in Seq(Entries) : /\ h = remember(bt[j], [seq |-> p, op |-> o])
                                  /\ h # <<>> /\ h[Len(h)] = [seq |-> p, op |-> o]
    BY <2>4, RememberTyped
  <2>6. bt' = [bt EXCEPT ![j] = h]
    BY <2>2, <2>3, <2>5
  <2>7. ASSUME NEW k \in AllKeys, NEW s, s = LastOf(k), s # 0, s <= p
        PROVE  bt'[k] # <<>> /\ bt'[k][Len(bt'[k])] = [seq |-> s, op |-> stream[s].op]
    <3>1. s \in 1 .. Len(stream) /\ stream[s].key = k /\ \A t \in SeqsOf(k) : t <= s
      BY <2>7, LastOfSpec
    <3>2. p \in Nat /\ s \in Nat
      BY <2>2, <3>1, StreamTyped
    <3>3. CASE k = j
      <4>1. s = p
        BY <2>4, <2>7, <3>1, <3>2, <3>3
      <4>2. bt'[k] = h
        BY <2>4, <2>6, <3>3
      <4>3. QED
        BY <2>3, <2>5, <4>1, <4>2
    <3>4. CASE k # j
      <4>1. s < p
        BY <2>3, <2>7, <3>1, <3>2, <3>4
      <4>2. Kept(s)
        BY <2>7, LastKept
      <4>3. consumer.pos \in Nat /\ lastSeq \in Nat
        BY DEF TypeOK, Seqs
      <4>4. ~(s >= consumer.pos)
        <5>1. p # 0
          BY <2>2, StreamTyped
        <5>2. QED
          BY <2>1, <3>1, <4>1, <4>2, <4>3, <5>1, NextFromSpec
      <4>5. s <= lastSeq
        BY <3>2, <4>3, <4>4 DEF BehindInv
      <4>6. bt'[k] = bt[k]
        BY <2>4, <2>6, <3>4
      <4>7. QED
        BY <2>7, <4>5, <4>6 DEF NewestIndexed
    <3>5. QED
      BY <3>3, <3>4
  <2>8. \A k : LastOf(k)' = LastOf(k)
    BY <2>2 DEF LastOf, SeqsOf
  <2>9. QED
    BY <2>2, <2>7, <2>8 DEF NewestIndexed
<1>5. CASE Crash
  <2>1. UNCHANGED stream /\ lastSeq' = 0
    BY <1>5 DEF Crash, Started
  <2>2. \A k : LastOf(k)' = LastOf(k) /\ LastOf(k) \in Nat
    <3>1. \A k : LastOf(k)' = LastOf(k)
      BY <2>1 DEF LastOf, SeqsOf
    <3>2. ASSUME NEW k PROVE LastOf(k) \in Nat
      BY LastOfSpec, StreamTyped
    <3>3. QED
      BY <3>1, <3>2
  <2>3. QED
    BY <2>1, <2>2 DEF NewestIndexed
<1>6. CASE btreeRestart \/ (\E c \in Clients : Begin(c)) \/ Expire \/ CompactBegin \/ compactWatcher
           \/ WatchOpen \/ WatchDeliver \/ WatchError
  BY <1>1, <1>6 DEF btreeRestart, Begin, Expire, CompactBegin, compactWatcher, WatchOpen, WatchDeliver, WatchError, index
<1>7. CASE UNCHANGED vars
  BY <1>1, <1>7 DEF vars, index
<1>8. QED
  BY <1>2, <1>3, <1>4, <1>5, <1>6, <1>7 DEF Next

(* Everything but the leases, for a kine that has the bucket to itself. *)
IndexInv == TypeOK /\ RequestsInv /\ CompactInv /\ StartInv /\ BehindInv /\ NewestIndexed

LEMMA IndexInvStep ==
  ASSUME OtherNodes = FALSE
  PROVE  (Init => IndexInv) /\ (IndexInv /\ [Next]_vars => IndexInv')
<1>1. ASSUME Init PROVE BehindInv /\ NewestIndexed
  <2>1. stream = <<>> /\ lastSeq = 0 /\ consumer.pos = 1 /\ compactor.st = "idle"
    BY <1>1 DEF Init, NotCompacting
  <2>2. \A k : SeqsOf(k) = {}
    BY <2>1 DEF SeqsOf
  <2>3. \A k : LastOf(k) = 0
    BY <2>2 DEF LastOf
  <2>4. QED
    BY <2>1, <2>2, <2>3 DEF BehindInv, NewestIndexed
<1>2. Init => IndexInv
  BY <1>1, NatsInitType, RequestsInitInv, CompactInitInv, StartInitInv DEF IndexInv
<1>3. ASSUME IndexInv, [Next]_vars PROVE IndexInv'
  <2>1. TypeOK' /\ RequestsInv' /\ CompactInv' /\ StartInv'
    BY <1>3, NatsStepType, RequestsStepInv, CompactStepInv, StartStepInv DEF IndexInv
  <2>2. BehindInv' /\ NewestIndexed'
    BY <1>3, BehindStepInv, NewestStepInv DEF IndexInv
  <2>3. QED
    BY <2>1, <2>2 DEF IndexInv
<1>4. QED
  BY <1>2, <1>3

(* The index never has an older version as the newest of a key than the bucket had when the         *)
(* consumer passed it: across consumers that fail, restarts that read the last revision twice, a    *)
(* bucket that drops all but the last History messages and compaction.  It needs that no other node *)
(* compacts past this one's consumer, whose messages the handler would drop.                        *)
THEOREM NewestIsIndexed ==
  ASSUME OtherNodes = FALSE
  PROVE  Spec => []NewestIndexed
<1>1. Init => IndexInv
  BY IndexInvStep
<1>2. IndexInv /\ [Next]_vars => IndexInv'
  BY IndexInvStep
<1>3. IndexInv => NewestIndexed
  BY DEF IndexInv
<1>4. QED
  BY <1>1, <1>2, <1>3, PTL DEF Spec

-----------------------------------------------------------------------------
(* Leases. *)

(* A read of now finds the last entry of a history. *)
LEMMA LastEntry ==
  ASSUME NEW h \in Seq(Entries), h # <<>>
  PROVE  getSeqOp(h, 0) = putAt(h, Len(h)) /\ Len(h) \in 1 .. Len(h)
<1> DEFINE E == Entries
<1>1. h \in Seq(E)
  OBVIOUS
<1> HIDE DEF E
<1>2. DOMAIN h = 1 .. Len(h) /\ Len(h) \in Nat /\ Len(h) # 0
  BY <1>1
<1>3. upTo(h, 0) = 1 .. Len(h)
  BY <1>2 DEF upTo
<1>4. Max(1 .. Len(h)) = Len(h)
  <2>1. PICK n \in Nat : n = Len(h) /\ n # 0
    BY <1>2
  <2>2. PICK S \in SUBSET Nat : S = 1 .. n
    OBVIOUS
  <2>3. S # {} /\ n \in S /\ \A x \in S : x <= n
    BY <2>1, <2>2
  <2>4. Max(S) \in S /\ \A x \in S : x <= Max(S)
    BY <2>1, <2>3, MaxOf
  <2>5. Max(S) = n
    BY <2>2, <2>3, <2>4
  <2>6. QED
    BY <2>1, <2>2, <2>5
<1>5. Len(h) \in 1 .. Len(h)
  BY <1>2
<1>6. upTo(h, 0) # {} /\ Max(upTo(h, 0)) = Len(h)
  BY <1>3, <1>4, <1>5, Zenon
<1>7. getSeqOp(h, 0) = putAt(h, Len(h))
  BY <1>6, Zenon DEF getSeqOp
<1>8. QED
  BY <1>5, <1>7

LEMMA NewestFound ==
  ASSUME TypeOK, NewestIndexed, NEW k \in Keys, NEW s, s = LastOf(k), s # 0, s <= lastSeq, stream[s].op = "put"
  PROVE  getSeqOp(bt[k], 0) = s
<1>1. k \in AllKeys
  BY DEF AllKeys
<1>2. PICK h \in Seq(Entries) : h = bt[k]
  BY <1>1 DEF TypeOK, Entries, Ops
<1>3. h # <<>> /\ h[Len(h)] = [seq |-> s, op |-> "put"]
  BY <1>1, <1>2 DEF NewestIndexed
<1>4. getSeqOp(h, 0) = putAt(h, Len(h))
  BY <1>3, LastEntry
<1>5. QED
  BY <1>2, <1>3, <1>4 DEF putAt

(* The version s of k is leased and the newest; it is tracked. *)
Due(k, s) == s # 0 /\ s = LastOf(k) /\ stream[s].leased

Tracked(k, s) ==
  \/ [key |-> k, seq |-> s] \in heap
  \/ \E c \in Clients : req[c].st = "wait" /\ req[c].seq = s
  \/ req[Expirer].st \in {"get", "write"} /\ req[Expirer].key = k /\ req[Expirer].last = s

(* While the process has not crashed it serves requests, its heap is not ahead of its index, and the *)
(* ExpireWatcher only deletes.                                                                       *)
Uncrashed ==
  /\ ready /\ \A e \in heap : e.seq <= lastSeq
  /\ req[Expirer].st # "idle" => req[Expirer].op = "delete"

AllTracked == faults.crashes = 0 => Uncrashed /\ \A k \in Keys : \A s : Due(k, s) => Tracked(k, s)

LEMMA LeaseParts ==
  LeaseInv <=> AllTracked
<1>1. LeaseTracked <=> (faults.crashes = 0 => \A k \in Keys : \A s : Due(k, s) => Tracked(k, s))
  BY DEF LeaseTracked, Due, Tracked
<1>2. QED
  BY <1>1 DEF LeaseInv, Uncrashed, AllTracked

LEMMA CrashCounted ==
  ASSUME TypeOK, [Next]_vars, faults'.crashes = 0
  PROVE  faults.crashes = 0 /\ ~Crash
<1>1. faults \in [crashes : 0 .. MaxFaults, errors : 0 .. MaxFaults] /\ MaxFaults \in Nat
  BY NatsAssumption DEF TypeOK
<1>2. ~Crash
  <2>1. SUFFICES ASSUME faults' = [faults EXCEPT !.crashes = faults.crashes + 1] PROVE FALSE
    BY DEF Crash
  <2>2. faults'.crashes = faults.crashes + 1 /\ faults.crashes \in Nat
    BY <1>1, <2>1
  <2>3. QED
    BY <2>2
<1>3. CASE btreeRestart \/ WatchError
  <2>1. ErrorOccurs
    BY <1>3 DEF btreeRestart, WatchError
  <2>2. QED
    BY <1>2, <2>1, ErrorTyped
<1>4. CASE UNCHANGED faults
  BY <1>2, <1>4
<1>5. ASSUME NEW c \in Callers, RequestStep(c) PROVE UNCHANGED faults
  BY <1>5 DEF RequestStep, Get, Write, Waited, Marker, MarkerHistory
<1>6. CASE btreeUpdate \/ (\E c \in Clients : Begin(c)) \/ Expire \/ CompactBegin \/ CompactWrite \/ CompactTxn \/ compactWatcher
           \/ WatchOpen \/ WatchDeliver \/ UNCHANGED vars
  BY <1>4, <1>6 DEF btreeUpdate, Begin, Expire, CompactBegin, CompactWrite, CompactTxn, compactWatcher, WatchOpen, WatchDeliver, vars
<1>7. QED
  BY <1>2, <1>3, <1>4, <1>5, <1>6 DEF Next

(* What is tracked stays so, if the request that moves is not the one that tracks it. *)
LEMMA StillTracked ==
  ASSUME TypeOK, NEW c \in Callers, NEW v, req' = [req EXCEPT ![c] = v], heap \subseteq heap',
         NEW k, NEW s, Tracked(k, s),
         c \in Clients /\ req[c].st = "wait" /\ req[c].seq = s => [key |-> k, seq |-> s] \in heap',
         c = Expirer /\ req[c].st \in {"get", "write"} /\ req[c].key = k /\ req[c].last = s =>
           v.st \in {"get", "write"} /\ v.key = k /\ v.last = s
  PROVE  Tracked(k, s)'
<1>1. req'[c] = v /\ \A d \in Callers \ {c} : req'[d] = req[d]
  BY OneRequest
<1>2. \A d \in Clients : d \in Callers /\ d # Expirer
  BY NatsAssumption DEF Callers
<1>3. CASE [key |-> k, seq |-> s] \in heap
  BY <1>3 DEF Tracked
<1>4. CASE \E d \in Clients : req[d].st = "wait" /\ req[d].seq = s
  <2>1. PICK d \in Clients : req[d].st = "wait" /\ req[d].seq = s
    BY <1>4
  <2>2. CASE d = c
    BY <2>1, <2>2 DEF Tracked
  <2>3. CASE d # c
    <3>1. req'[d] = req[d]
      BY <1>1, <1>2, <2>1, <2>3
    <3>2. QED
      BY <2>1, <3>1 DEF Tracked
  <2>4. QED
    BY <2>2, <2>3
<1>5. CASE req[Expirer].st \in {"get", "write"} /\ req[Expirer].key = k /\ req[Expirer].last = s
  <2>1. CASE c = Expirer
    BY <1>1, <1>5, <2>1 DEF Tracked
  <2>2. CASE c # Expirer
    <3>1. req'[Expirer] = req[Expirer]
      BY <1>1, <2>2 DEF Callers
    <3>2. QED
      BY <1>5, <3>1 DEF Tracked
  <2>3. QED
    BY <2>1, <2>2
<1>6. QED
  BY <1>3, <1>4, <1>5 DEF Tracked

LEMMA SameDue ==
  ASSUME UNCHANGED stream, NEW k, NEW s, Due(k, s)'
  PROVE  Due(k, s)
BY DEF Due, LastOf, SeqsOf

LEMMA DueAppended ==
  ASSUME TypeOK, NEW l \in AllKeys, NEW op \in Ops, NEW leased \in BOOLEAN, NEW rev \in Seqs,
         Publish(l, op, leased, rev), NEW k, NEW s, Due(k, s)'
  PROVE  (k # l /\ Due(k, s)) \/ (k = l /\ s = Len(stream) + 1 /\ leased)
<1>1. LastOf(k)' = IF k = l THEN Len(stream) + 1 ELSE LastOf(k)
  BY PublishedSeqs
<1>2. s # 0 /\ s = LastOf(k)' /\ stream'[s].leased
  BY DEF Due
<1>3. CASE k = l
  <2>1. stream'[Len(stream) + 1] = [key |-> l, op |-> op, leased |-> leased, rev |-> rev]
    BY Published
  <2>2. QED
    BY <1>1, <1>2, <1>3, <2>1
<1>4. CASE k # l
  <2>1. s = LastOf(k)
    BY <1>1, <1>2, <1>4
  <2>2. s \in 1 .. Len(stream)
    BY <1>2, <2>1, LastOfSpec
  <2>3. stream'[s] = stream[s]
    BY <2>2, Published
  <2>4. QED
    BY <1>2, <1>4, <2>1, <2>3 DEF Due
<1>5. QED
  BY <1>3, <1>4

LEMMA UncrashedStep ==
  ASSUME WaitTimeout = FALSE, IndexInv, Uncrashed, [Next]_vars, ~Crash
  PROVE  Uncrashed'
<1> USE DEF IndexInv
<1>1. heap \subseteq [key : Keys, seq : Seqs] /\ lastSeq \in Nat /\ \A e \in heap : e.seq \in Nat
  BY DEF TypeOK, Seqs
<1>2. CASE UNCHANGED <<ready, lastSeq, heap, req>>
  BY <1>2 DEF Uncrashed
<1>3. ASSUME NEW c \in Callers, NEW v, req' = [req EXCEPT ![c] = v], UNCHANGED <<ready, lastSeq>>,
             \A e \in heap' : e.seq <= lastSeq,
             c = Expirer => v.st = "idle" \/ v.op = "delete"
      PROVE  Uncrashed'
  <2>1. req'[c] = v /\ \A d \in Callers \ {c} : req'[d] = req[d]
    BY <1>3, OneRequest
  <2>2. req'[Expirer].st # "idle" => req'[Expirer].op = "delete"
    BY <1>3, <2>1 DEF Uncrashed, Callers
  <2>3. QED
    BY <1>3, <2>2 DEF Uncrashed
<1>4. ASSUME NEW c \in Callers, NEW v, req' = [req EXCEPT ![c] = v], UNCHANGED <<ready, lastSeq, heap>>,
             v = IdleReq \/ (req[c].st # "idle" /\ v.op = req[c].op)
      PROVE  Uncrashed'
  <2>1. c = Expirer => v.st = "idle" \/ v.op = "delete"
    BY <1>4 DEF Uncrashed, IdleReq
  <2>2. \A e \in heap' : e.seq <= lastSeq
    BY <1>4 DEF Uncrashed
  <2>3. QED
    BY <1>3, <1>4, <2>1, <2>2
<1>5. ASSUME NEW c \in Callers, Get(c) PROVE Uncrashed'
  <2>1. PICK v \in Reqs : req' = [req EXCEPT ![c] = v] /\ (v = IdleReq \/ v.op = req[c].op)
    BY <1>5, GetMoves
  <2>2. UNCHANGED <<ready, lastSeq, heap>> /\ req[c].st # "idle"
    BY <1>5 DEF Get, index
  <2>3. QED
    BY <1>4, <2>1, <2>2
<1>6. ASSUME NEW c \in Callers, Write(c) \/ Marker(c) \/ MarkerHistory(c) PROVE Uncrashed'
  <2>1. UNCHANGED <<ready, lastSeq, heap>> /\ req[c].st # "idle" /\ req[c] \in Reqs
    BY <1>6 DEF Write, Marker, MarkerHistory, index, TypeOK, Reqs
  <2>2. PICK w : w = [req[c] EXCEPT !.st = "wait", !.seq = Len(stream) + 1]
    OBVIOUS
  <2>3. w.op = req[c].op
    BY <2>1, <2>2 DEF Reqs
  <2>4. CASE Write(c)
    <3>1. req' = [req EXCEPT ![c] = IdleReq] \/ req' = [req EXCEPT ![c] = w]
      BY <2>2, <2>4, WriteMoves
    <3>2. QED
      BY <1>4, <2>1, <2>3, <3>1
  <2>5. CASE Marker(c)
    <3>1. PICK v \in Reqs : req' = [req EXCEPT ![c] = v] /\ (v = IdleReq \/ v.op = req[c].op)
      BY <2>5, MarkerMoves
    <3>2. QED
      BY <1>4, <2>1, <3>1
  <2>6. CASE MarkerHistory(c)
    <3>1. PICK v \in Reqs : req' = [req EXCEPT ![c] = v] /\ (v = IdleReq \/ v.op = req[c].op)
      BY <2>6, HistoryMoves
    <3>2. QED
      BY <1>4, <2>1, <3>1
  <2>7. QED
    BY <1>6, <2>4, <2>5, <2>6
<1>7. ASSUME NEW c \in Callers, Waited(c) PROVE Uncrashed'
  <2>1. UNCHANGED <<ready, lastSeq>> /\ req[c].st # "idle" /\ req[c] \in Reqs /\ lastSeq >= req[c].seq
    BY <1>7 DEF Waited, waitForSequence, index, TypeOK, Reqs
  <2>2. CASE req[c].op = "delete" /\ stream[req[c].seq].op = "tomb"
    <3>1. PICK v : v = [req[c] EXCEPT !.st = "marker"]
      OBVIOUS
    <3>2. v.op = req[c].op /\ UNCHANGED heap /\ req' = [req EXCEPT ![c] = v]
      BY <1>7, <2>1, <2>2, <3>1 DEF Reqs, Waited
    <3>3. QED
      BY <1>4, <2>1, <3>2
  <2>3. CASE ~(req[c].op = "delete" /\ stream[req[c].seq].op = "tomb")
    <3>1. req' = [req EXCEPT ![c] = IdleReq] /\ heap' \subseteq heap \cup {[key |-> req[c].key, seq |-> req[c].seq]}
      BY <1>7, <2>3 DEF Waited
    <3>2. req[c].seq <= lastSeq
      BY <1>1, <2>1 DEF Reqs, Seqs
    <3>3. \A e \in heap' : e.seq <= lastSeq
      BY <3>1, <3>2 DEF Uncrashed
    <3>4. IdleReq.st = "idle"
      BY DEF IdleReq
    <3>5. QED
      BY <1>3, <2>1, <3>1, <3>3, <3>4
  <2>4. QED
    BY <2>2, <2>3
<1>8. ASSUME NEW c \in Clients, Begin(c) PROVE Uncrashed'
  <2>1. PICK op \in {"create", "update", "delete"}, k \in Keys, leased \in BOOLEAN : Lookup(c, op, k, leased, 0)
    BY <1>8 DEF Begin
  <2>2. c \in Callers /\ c # Expirer /\ 0 \in Seqs /\ UNCHANGED <<ready, lastSeq, heap>>
    BY <1>8, StartTyped, NatsAssumption DEF Callers, Begin, index
  <2>3. PICK v \in Reqs : req' = [req EXCEPT ![c] = v]
    BY <2>1, <2>2, LookupTyped
  <2>4. \A e \in heap' : e.seq <= lastSeq
    BY <2>2 DEF Uncrashed
  <2>5. QED
    BY <1>3, <2>2, <2>3, <2>4
<1>9. CASE Expire
  <2>1. PICK e \in heap : Lookup(Expirer, "delete", e.key, FALSE, e.seq) /\ heap' = heap \ {e}
    BY <1>9 DEF Expire
  <2>2. e.key \in Keys /\ e.seq \in Seqs /\ Expirer \in Callers /\ UNCHANGED <<ready, lastSeq>>
    BY <1>1, <1>9 DEF Expire, Callers, index
  <2>3. PICK v \in Reqs : req' = [req EXCEPT ![Expirer] = v] /\ (v = IdleReq \/ v.op = "delete")
    BY <2>1, <2>2, LookupTyped
  <2>4. \A f \in heap' : f.seq <= lastSeq
    BY <2>1 DEF Uncrashed
  <2>5. v.st = "idle" \/ v.op = "delete"
    BY <2>3 DEF IdleReq
  <2>6. QED
    BY <1>3, <2>2, <2>3, <2>4, <2>5
<1>10. CASE btreeUpdate
  <2>1. PICK s : s = NextFrom(consumer.pos, AllKeys)
    OBVIOUS
  <2>2. s \in Nat /\ lastSeq <= s /\ lastSeq' \in {s, lastSeq} /\ (ready => ready')
    BY <1>10, <2>1, NextAhead
  <2>3. UNCHANGED <<heap, req>>
    BY <1>10 DEF btreeUpdate
  <2>4. PICK m \in Nat : m = lastSeq' /\ lastSeq <= m
    BY <1>1, <2>2
  <2>5. \A e \in heap : e.seq <= m
    BY <1>1, <2>4 DEF Uncrashed
  <2>6. QED
    BY <2>2, <2>3, <2>4, <2>5 DEF Uncrashed
<1>11. CASE btreeRestart \/ CompactBegin \/ CompactWrite \/ CompactTxn \/ compactWatcher \/ WatchOpen \/ WatchDeliver \/ WatchError
  BY <1>2, <1>11 DEF btreeRestart, CompactBegin, CompactWrite, CompactTxn, compactWatcher, WatchOpen, WatchDeliver, WatchError, index
<1>12. CASE UNCHANGED vars
  BY <1>2, <1>12 DEF vars, index
<1>13. QED
  BY <1>5, <1>6, <1>7, <1>8, <1>9, <1>10, <1>11, <1>12 DEF Next, RequestStep

LEMMA TrackedStep ==
  ASSUME RequestFails = FALSE, WaitTimeout = FALSE, IndexInv, Uncrashed, [Next]_vars, ~Crash,
         NEW k \in Keys, NEW s, Due(k, s)', Due(k, s) => Tracked(k, s)
  PROVE  Tracked(k, s)'
<1> USE DEF IndexInv
<1>1. CASE UNCHANGED <<stream, heap, req>>
  <2>1. Tracked(k, s)
    BY <1>1, SameDue
  <2>2. QED
    BY <1>1, <2>1 DEF Tracked
<1>2. \A c \in Callers : req[c] \in Reqs /\ OwnMessage(req[c])
  BY DEF TypeOK, Reqs, RequestsInv
<1>3. ASSUME NEW c \in Callers, Get(c) PROVE Tracked(k, s)'
  <2>1. UNCHANGED <<stream, heap>> /\ req[c].st = "get"
    BY <1>3 DEF Get
  <2>2. Due(k, s) /\ Tracked(k, s)
    BY <2>1, SameDue
  <2>3. PICK v \in Reqs : req' = [req EXCEPT ![c] = v]
    BY <1>3, GetMoves
  <2>4. ASSUME c = Expirer, req[c].key = k, req[c].last = s PROVE v.st = "write" /\ v.key = k /\ v.last = s
    <3>1. s = LastOf(req[c].key) /\ s # 0 /\ stream[s].leased /\ req[c].op = "delete"
      BY <2>1, <2>2, <2>4 DEF Due, Uncrashed
    <3>2. s \in 1 .. Len(stream)
      BY <3>1, LastOfSpec
    <3>3. stream[s].op = "put"
      BY <3>1, <3>2 DEF RequestsInv, MessageInv
    <3>4. PICK w : w = [req[c] EXCEPT !.st = "write", !.last = s] /\ req' = [req EXCEPT ![c] = w]
      BY <1>3, <2>4, <3>1, <3>3 DEF Get
    <3>5. v = [req[c] EXCEPT !.st = "write", !.last = s]
      <4>1. req'[c] = w
        BY <3>4, OneRequest
      <4>2. req'[c] = v
        BY <2>3, OneRequest
      <4>3. QED
        BY <3>4, <4>1, <4>2
    <3>6. QED
      BY <1>2, <2>4, <3>5 DEF Reqs
  <2>5. QED
    BY <2>1, <2>2, <2>3, <2>4, StillTracked
<1>4. ASSUME NEW c \in Callers, Write(c) PROVE Tracked(k, s)'
  <2>1. UNCHANGED heap /\ req[c].st = "write"
    BY <1>4 DEF Write
  <2>2. CASE req' = [req EXCEPT ![c] = IdleReq] /\ UNCHANGED stream
    <3>1. Due(k, s) /\ Tracked(k, s)
      BY <2>2, SameDue
    <3>2. ~Accepts(req[c].key, req[c].last) \/ Publish(req[c].key, IF req[c].op = "delete" THEN "tomb" ELSE "put", req[c].leased, 0)
      BY <1>4 DEF Write, Outcomes
    <3>3. ~(req[c].key = k /\ req[c].last = s)
      <4>1. SUFFICES ASSUME req[c].key = k, req[c].last = s PROVE FALSE
        OBVIOUS
      <4>2. Accepts(req[c].key, req[c].last)
        BY <3>1, <4>1 DEF Accepts, Due
      <4>3. stream' # stream
        <5>1. PICK op \in Ops : op = IF req[c].op = "delete" THEN "tomb" ELSE "put"
          BY DEF Ops
        <5>2. PICK l \in BOOLEAN : l = req[c].leased
          BY <1>2 DEF Reqs
        <5>3. k \in AllKeys /\ 0 \in Seqs /\ Publish(k, op, l, 0)
          BY <3>2, <4>1, <4>2, <5>1, <5>2, StartTyped DEF AllKeys
        <5>4. Len(stream') = Len(stream) + 1 /\ Len(stream) \in Nat
          BY <5>3, Published, StreamTyped
        <5>5. QED
          BY <5>4
      <4>4. QED
        BY <2>2, <4>3
    <3>4. QED
      BY <2>1, <2>2, <3>1, <3>3, StillTracked
  <2>3. CASE /\ req' = [req EXCEPT ![c] = [req[c] EXCEPT !.st = "wait", !.seq = Len(stream) + 1]]
             /\ Publish(req[c].key, IF req[c].op = "delete" THEN "tomb" ELSE "put", req[c].leased, 0)
    <3>1. PICK op \in Ops : op = IF req[c].op = "delete" THEN "tomb" ELSE "put"
      BY DEF Ops
    <3>2. PICK l \in BOOLEAN, j \in Keys : l = req[c].leased /\ j = req[c].key
      BY <1>2 DEF Reqs
    <3>3. j \in AllKeys /\ 0 \in Seqs /\ Publish(j, op, l, 0)
      BY <2>3, <3>1, <3>2, StartTyped DEF AllKeys
    <3>4. PICK v : v = [req[c] EXCEPT !.st = "wait", !.seq = Len(stream) + 1]
      OBVIOUS
    <3>5. v.st = "wait" /\ v.seq = Len(stream) + 1
      BY <1>2, <3>4 DEF Reqs
    <3>6. CASE k # j /\ Due(k, s)
      BY <2>1, <2>3, <3>2, <3>4, <3>6, StillTracked
    <3>7. CASE k = j /\ s = Len(stream) + 1 /\ l
      <4>1. req[c].op # "delete"
        BY <1>2, <3>2, <3>7 DEF OwnMessage
      <4>2. c # Expirer /\ c \in Clients
        BY <2>1, <4>1 DEF Uncrashed, Callers
      <4>3. req'[c] = v
        BY <2>3, <3>4, OneRequest
      <4>4. QED
        BY <3>5, <3>7, <4>2, <4>3 DEF Tracked
    <3>8. QED
      BY <3>3, <3>6, <3>7, DueAppended
  <2>4. QED
    BY <1>4, <2>2, <2>3, WriteMoves
<1>5. ASSUME NEW c \in Callers, Marker(c) PROVE Tracked(k, s)'
  <2>1. UNCHANGED heap /\ req[c].st = "marker" /\ req[c].key \in Keys
    BY <1>2, <1>5 DEF Marker, Reqs
  <2>2. PICK v \in Reqs : /\ req' = [req EXCEPT ![c] = v]
                          /\ UNCHANGED stream \/ Publish(req[c].key, "del", FALSE, 0)
    BY <1>5, MarkerMoves
  <2>3. CASE UNCHANGED stream
    <3>1. Due(k, s) /\ Tracked(k, s)
      BY <2>3, SameDue
    <3>2. QED
      BY <2>1, <2>2, <3>1, StillTracked
  <2>4. CASE Publish(req[c].key, "del", FALSE, 0)
    <3>1. PICK j \in Keys, op \in Ops, l \in BOOLEAN : /\ j \in AllKeys /\ 0 \in Seqs /\ j = req[c].key /\ op = "del" /\ l = FALSE
                                                       /\ Publish(j, op, l, 0)
      BY <2>1, <2>4, StartTyped DEF AllKeys, Ops
    <3>2. Due(k, s) /\ Tracked(k, s)
      BY <3>1, DueAppended
    <3>3. QED
      BY <2>1, <2>2, <3>2, StillTracked
  <2>5. QED
    BY <2>2, <2>3, <2>4
<1>6. ASSUME NEW c \in Callers, Waited(c) PROVE Tracked(k, s)'
  <2>1. UNCHANGED stream /\ req[c].st = "wait" /\ heap \subseteq heap'
    BY <1>6 DEF Waited
  <2>2. Due(k, s) /\ Tracked(k, s)
    BY <2>1, SameDue
  <2>3. PICK v : req' = [req EXCEPT ![c] = v]
    BY <1>6 DEF Waited
  <2>4. ASSUME req[c].seq = s PROVE [key |-> k, seq |-> s] \in heap'
    <3>1. s \in 1 .. Len(stream) /\ stream[s].key = k /\ stream[s].leased
      <4>1. s # 0 /\ s = LastOf(k) /\ stream[s].leased
        BY <2>2 DEF Due
      <4>2. QED
        BY <4>1, LastOfSpec
    <3>2. req[c].key = k /\ req[c].leased /\ req[c].op # "delete"
      BY <1>2, <2>1, <2>4, <3>1 DEF OwnMessage
    <3>3. QED
      BY <1>6, <2>4, <3>2 DEF Waited
  <2>5. QED
    BY <2>1, <2>2, <2>3, <2>4, StillTracked
<1>7. ASSUME NEW c \in Clients, Begin(c) PROVE Tracked(k, s)'
  <2>1. PICK op \in {"create", "update", "delete"}, j \in Keys, leased \in BOOLEAN : Lookup(c, op, j, leased, 0)
    BY <1>7 DEF Begin
  <2>2. c \in Callers /\ req[c].st = "idle" /\ 0 \in Seqs /\ UNCHANGED <<stream, heap>>
    BY <1>7, <2>1, StartTyped DEF Callers, Begin, Lookup
  <2>3. PICK v \in Reqs : req' = [req EXCEPT ![c] = v]
    BY <2>1, <2>2, LookupTyped
  <2>4. Due(k, s) /\ Tracked(k, s)
    BY <2>2, SameDue
  <2>5. QED
    BY <2>2, <2>3, <2>4, StillTracked
<1>8. CASE Expire
  <2>1. PICK e \in heap : Lookup(Expirer, "delete", e.key, FALSE, e.seq) /\ heap' = heap \ {e}
    BY <1>8 DEF Expire
  <2>2. UNCHANGED stream /\ e \in [key : Keys, seq : Seqs] /\ Expirer \in Callers /\ req[Expirer].st = "idle"
    BY <1>8, <2>1 DEF Expire, Callers, TypeOK, Lookup
  <2>3. Due(k, s) /\ Tracked(k, s)
    BY <2>2, SameDue
  <2>4. PICK v \in Reqs : req' = [req EXCEPT ![Expirer] = v]
    BY <2>1, <2>2, LookupTyped
  <2>5. req'[Expirer] = v /\ \A d \in Clients : req'[d] = req[d]
    <3>1. \A d \in Clients : d \in Callers \ {Expirer}
      BY NatsAssumption DEF Callers
    <3>2. QED
      BY <2>2, <2>4, <3>1, OneRequest
  <2>6. CASE e = [key |-> k, seq |-> s]
    <3>1. e.key = k /\ e.seq = s /\ s <= lastSeq
      BY <2>1, <2>6 DEF Uncrashed
    <3>2. s # 0 /\ s = LastOf(k) /\ stream[s].leased
      BY <2>3 DEF Due
    <3>3. s \in 1 .. Len(stream)
      BY <3>2, LastOfSpec
    <3>4. stream[s].op = "put"
      BY <3>2, <3>3 DEF RequestsInv, MessageInv
    <3>5. getSeqOp(bt[k], 0) = s
      BY <3>1, <3>2, <3>4, NewestFound
    <3>6. req' = [req EXCEPT ![Expirer] = [st |-> "get", op |-> "delete", key |-> k, leased |-> FALSE, last |-> s, seq |-> 0]]
      BY <2>1, <3>1, <3>2, <3>5 DEF Lookup
    <3>7. req'[Expirer] = [st |-> "get", op |-> "delete", key |-> k, leased |-> FALSE, last |-> s, seq |-> 0]
      BY <2>2, <3>6, OneRequest
    <3>8. QED
      BY <3>7 DEF Tracked
  <2>7. CASE e # [key |-> k, seq |-> s]
    <3>1. CASE [key |-> k, seq |-> s] \in heap
      BY <2>1, <2>7, <3>1 DEF Tracked
    <3>2. CASE \E d \in Clients : req[d].st = "wait" /\ req[d].seq = s
      BY <2>5, <3>2 DEF Tracked
    <3>3. QED
      BY <2>2, <2>3, <3>1, <3>2 DEF Tracked
  <2>8. QED
    BY <2>6, <2>7
<1>9. CASE CompactWrite \/ CompactTxn
  <2>1. UNCHANGED <<heap, req>>
    BY <1>9 DEF CompactWrite, CompactTxn
  <2>2. CASE stream' # stream
    <3>1. PICK rev \in Seqs : /\ CompactKey \in AllKeys /\ "put" \in Ops /\ FALSE \in BOOLEAN
                              /\ Publish(CompactKey, "put", FALSE, rev)
      BY <1>9, <2>2, CompactAppends
    <3>2. Due(k, s)
      BY <3>1, DueAppended
    <3>3. QED
      BY <2>1, <3>2 DEF Tracked
  <2>3. QED
    BY <1>1, <2>1, <2>2
<1>10. CASE btreeUpdate \/ btreeRestart \/ CompactBegin \/ compactWatcher \/ WatchOpen \/ WatchDeliver \/ WatchError
  BY <1>1, <1>10 DEF btreeUpdate, btreeRestart, CompactBegin, compactWatcher, WatchOpen, WatchDeliver, WatchError
<1>11. ASSUME NEW c \in Callers, MarkerHistory(c) PROVE Tracked(k, s)'
  <2>1. UNCHANGED <<stream, heap>> /\ req[c].st = "history"
    BY <1>11 DEF MarkerHistory
  <2>2. Due(k, s) /\ Tracked(k, s)
    BY <2>1, SameDue
  <2>3. PICK v \in Reqs : req' = [req EXCEPT ![c] = v]
    BY <1>11, HistoryMoves
  <2>4. QED
    BY <2>1, <2>2, <2>3, StillTracked
<1>12. CASE UNCHANGED vars
  BY <1>1, <1>12 DEF vars
<1>13. QED
  BY <1>3, <1>4, <1>5, <1>6, <1>7, <1>8, <1>9, <1>10, <1>11, <1>12 DEF Next, RequestStep

LEMMA LeaseStepInv ==
  ASSUME RequestFails = FALSE, WaitTimeout = FALSE, OtherNodes = FALSE, IndexInv, LeaseInv, [Next]_vars
  PROVE  LeaseInv'
<1>1. SUFFICES ASSUME faults'.crashes = 0
               PROVE  Uncrashed' /\ \A k \in Keys : \A s : Due(k, s)' => Tracked(k, s)'
  <2>1. LeaseInv' <=> AllTracked'
    BY LeaseParts, PTL
  <2>2. AllTracked'
    BY <1>1 DEF AllTracked
  <2>3. QED
    BY <2>1, <2>2
<1>2. faults.crashes = 0 /\ ~Crash
  BY <1>1, CrashCounted DEF IndexInv
<1>3. Uncrashed /\ \A k \in Keys : \A s : Due(k, s) => Tracked(k, s)
  BY <1>2, LeaseParts DEF AllTracked
<1>4. Uncrashed'
  BY <1>2, <1>3, UncrashedStep
<1>5. ASSUME NEW k \in Keys, NEW s, Due(k, s)' PROVE Tracked(k, s)'
  BY <1>2, <1>3, <1>5, TrackedStep
<1>6. QED
  BY <1>4, <1>5

(* No lease is forgotten short of a crash: from the acknowledgement of a leased put to its deletion *)
(* by the ExpireWatcher its entry is in the heap, or about to be added, or being deleted, whatever  *)
(* clients do to the key in between.  It rests on NewestIndexed, for the entry leaves the heap       *)
(* before the index is asked for its key (backend.go, processExpired), and on requests that do not   *)
(* fail: a Delete that fails is not tried again.                                                    *)
THEOREM NoLeaseForgotten ==
  ASSUME RequestFails = FALSE, WaitTimeout = FALSE, OtherNodes = FALSE
  PROVE  Spec => []LeaseTracked
<1>1. Init => IndexInv
  BY IndexInvStep
<1>2. IndexInv /\ [Next]_vars => IndexInv'
  BY IndexInvStep
<1>3. Init => LeaseInv
  <2> SUFFICES ASSUME Init PROVE LeaseInv
    OBVIOUS
  <2>1. stream = <<>> /\ ready /\ heap = {} /\ req[Expirer] = IdleReq
    BY DEF Init, Callers
  <2>2. \A k : LastOf(k) = 0
    <3>1. \A k : SeqsOf(k) = {}
      BY <2>1 DEF SeqsOf
    <3>2. QED
      BY <3>1 DEF LastOf
  <2>3. Uncrashed /\ \A k \in Keys : \A s : ~Due(k, s)
    BY <2>1, <2>2 DEF Uncrashed, Due, IdleReq
  <2>4. QED
    BY <2>3, LeaseParts DEF AllTracked
<1>4. IndexInv /\ LeaseInv /\ [Next]_vars => LeaseInv'
  BY LeaseStepInv
<1>5. LeaseInv => LeaseTracked
  BY DEF LeaseInv, LeaseTracked
<1>6. QED
  BY <1>1, <1>2, <1>3, <1>4, <1>5, PTL DEF Spec

-----------------------------------------------------------------------------
(* Reads of the index, at old revisions too. *)

(* The history of a key: messages of the key that the index has passed; between two of them, and   *)
(* after the last, there is none that the bucket still keeps.  One that it has dropped may be       *)
(* missing: the consumer is not sent it.                                                            *)
HistoryOf(k, h) ==
  /\ \A i \in 1 .. Len(h) : h[i].seq \in SeqsOf(k) /\ h[i].seq <= lastSeq /\ h[i].op = stream[h[i].seq].op
  /\ \A i \in 1 .. Len(h) : i < Len(h) =>
       \A t \in SeqsOf(k) : Kept(t) => ~(h[i].seq < t /\ t < h[i + 1].seq)
  /\ \A t \in SeqsOf(k) : t <= lastSeq /\ Kept(t) => Len(h) # 0 /\ t <= h[Len(h)].seq

HistoriesInv == \A k \in Keys : HistoryOf(k, bt[k])

(* A later message of the key is kept, too. *)
LEMMA KeptAfter ==
  ASSUME TypeOK, NEW k, NEW s \in SeqsOf(k), NEW t \in SeqsOf(k), s < t, Kept(s)
  PROVE  Kept(t)
<1>1. PICK n \in Nat : n = Len(stream)
  BY StreamTyped
<1>2. s \in 1 .. n /\ t \in 1 .. n /\ stream[s].key = k /\ stream[t].key = k /\ \A u \in SeqsOf(k) : u \in 1 .. n
  BY <1>1, LastOfSpec
<1>3. PICK S, T : S = {u \in SeqsOf(k) : u > s} /\ T = {u \in SeqsOf(k) : u > t}
  OBVIOUS
<1>4. T \subseteq S /\ S \subseteq 1 .. n
  <2>1. ASSUME NEW u \in T PROVE u \in S
    <3>1. u \in SeqsOf(k) /\ u > t
      BY <1>3
    <3>2. u \in Nat /\ s \in Nat /\ t \in Nat
      BY <1>2, <3>1
    <3>3. u > s
      BY <3>1, <3>2
    <3>4. QED
      BY <1>3, <3>1, <3>3
  <2>2. S \subseteq 1 .. n
    BY <1>2, <1>3
  <2>3. QED
    BY <2>1, <2>2
<1>5. IsFiniteSet(S)
  <2>1. IsFiniteSet(1 .. n)
    BY <1>1, FS_Interval
  <2>2. QED
    BY <1>4, <2>1, FS_Subset
<1>6. Cardinality(T) <= Cardinality(S) /\ Cardinality(S) \in Nat /\ Cardinality(T) \in Nat
  BY <1>4, <1>5, FS_Subset, FS_CardinalityType
<1>7. Cardinality(S) < History
  BY <1>2, <1>3 DEF Kept
<1>8. Cardinality(T) < History
  BY <1>6, <1>7, NatsAssumption
<1>9. QED
  BY <1>2, <1>3, <1>8 DEF Kept

(* What remember leaves of a history: its end, and the new entry. *)
LEMMA RememberKeeps ==
  ASSUME NEW h \in Seq(Entries), Len(h) <= History, NEW e \in Entries
  PROVE  \E m \in Nat, d \in Nat :
           /\ Len(remember(h, e)) = m + 1 /\ m + d = Len(h)
           /\ remember(h, e)[m + 1] = e
           /\ \A i \in 1 .. m : remember(h, e)[i] = h[i + d]
<1> DEFINE E == Entries
<1>1. h \in Seq(E) /\ e \in E /\ History \in Nat \ {0}
  BY NatsAssumption
<1> HIDE DEF E
<1>2. CASE Len(h) = History
  <2>1. h # <<>>
    BY <1>1, <1>2
  <2>2. PICK g \in Seq(E) : g = Tail(h) /\ Len(g) = Len(h) - 1 /\ \A i \in 1 .. Len(g) : g[i] = h[i + 1]
    BY <1>1, <2>1, HeadTailProperties
  <2>3. /\ Append(g, e) \in Seq(E) /\ Len(Append(g, e)) = Len(g) + 1
        /\ Append(g, e)[Len(g) + 1] = e /\ \A i \in 1 .. Len(g) : Append(g, e)[i] = g[i]
    BY <1>1, <2>2, AppendProperties
  <2>4. remember(h, e) = Append(g, e)
    BY <1>2, <2>2 DEF remember
  <2>5. Len(g) \in Nat /\ Len(g) + 1 = Len(h)
    BY <1>1, <1>2, <2>2
  <2>6. PICK m \in Nat : m = Len(g)
    BY <2>5
  <2>7. /\ Len(remember(h, e)) = m + 1 /\ m + 1 = Len(h)
        /\ remember(h, e)[m + 1] = e
        /\ \A i \in 1 .. m : remember(h, e)[i] = h[i + 1]
    BY <2>2, <2>3, <2>4, <2>5, <2>6
  <2>8. QED
    BY <2>7
<1>3. CASE Len(h) # History
  <2>1. /\ Append(h, e) \in Seq(E) /\ Len(Append(h, e)) = Len(h) + 1
        /\ Append(h, e)[Len(h) + 1] = e /\ \A i \in 1 .. Len(h) : Append(h, e)[i] = h[i]
    BY <1>1, AppendProperties
  <2>2. remember(h, e) = Append(h, e)
    BY <1>3 DEF remember
  <2>3. PICK m \in Nat : m = Len(h)
    BY <1>1
  <2>4. /\ Len(remember(h, e)) = m + 1 /\ m + 0 = Len(h)
        /\ remember(h, e)[m + 1] = e
        /\ \A i \in 1 .. m : remember(h, e)[i] = h[i + 0]
    BY <2>1, <2>2, <2>3
  <2>5. QED
    BY <2>4
<1>4. QED
  BY <1>2, <1>3

(* The entries of a history are numbers of messages. *)
LEMMA HistoryTyped ==
  ASSUME TypeOK, NEW k \in Keys
  PROVE  /\ k \in AllKeys /\ bt[k] \in Seq(Entries) /\ Len(bt[k]) \in Nat /\ Len(bt[k]) <= History
         /\ \A i \in 1 .. Len(bt[k]) : bt[k][i].seq \in Nat
<1>1. k \in AllKeys
  BY DEF AllKeys
<1>2. PICK h \in Seq(Entries) : h = bt[k] /\ Len(h) <= History
  BY <1>1 DEF TypeOK, Entries, Ops
<1> DEFINE E == Entries
<1>3. h \in Seq(E)
  OBVIOUS
<1> HIDE DEF E
<1>4. Len(h) \in Nat /\ \A i \in 1 .. Len(h) : h[i] \in E
  BY <1>3
<1>5. \A e \in E : e.seq \in Nat
  BY DEF E, Entries, Seqs
<1>6. QED
  BY <1>1, <1>2, <1>4, <1>5

LEMMA HistoriesAppended ==
  ASSUME TypeOK, StartInv, HistoriesInv, NEW k \in AllKeys, NEW op \in Ops, NEW leased \in BOOLEAN, NEW rev \in Seqs,
         Publish(k, op, leased, rev), UNCHANGED <<bt, lastSeq>>
  PROVE  HistoriesInv'
<1>1. PICK n \in Nat : n = Len(stream)
  BY StreamTyped
<1>2. lastSeq \in Nat /\ lastSeq <= n /\ \A s \in 1 .. n : stream'[s] = stream[s]
  <2>1. \A s \in 1 .. n : stream'[s] = stream[s]
    BY <1>1, Published
  <2>2. QED
    BY <1>1, <2>1 DEF StartInv, TypeOK, Seqs
<1>3. ASSUME NEW l \in Keys PROVE HistoryOf(l, bt[l])'
  <2>1. PICK h : h = bt[l]
    OBVIOUS
  <2>2. Len(h) \in Nat /\ \A i \in 1 .. Len(h) : h[i].seq \in Nat
    BY <2>1, HistoryTyped
  <2>3. HistoryOf(l, h)
    BY <2>1 DEF HistoriesInv
  <2>4. PICK T : T = SeqsOf(l)'
    OBVIOUS
  <2>5. /\ SeqsOf(l) \subseteq T /\ \A t \in T : t \in SeqsOf(l) \/ t = n + 1
        /\ \A t \in SeqsOf(l) : t \in 1 .. n
    BY <1>1, <2>4, PublishedSeqs, LastOfSpec
  <2>6. ASSUME NEW i \in 1 .. Len(h)
        PROVE  h[i].seq \in T /\ h[i].seq <= lastSeq /\ h[i].op = stream'[h[i].seq].op
    <3>1. h[i].seq \in SeqsOf(l) /\ h[i].seq <= lastSeq /\ h[i].op = stream[h[i].seq].op
      BY <2>3 DEF HistoryOf
    <3>2. QED
      BY <1>2, <2>5, <3>1
  <2>7. ASSUME NEW t \in SeqsOf(l), Kept(t)' PROVE Kept(t)
    <3>1. t \in 1 .. Len(stream)
      BY <1>1, <2>5
    <3>2. QED
      BY <2>7, <3>1, KeptBefore
  <2>8. ASSUME NEW i \in 1 .. Len(h), i < Len(h), NEW t \in T, Kept(t)' PROVE ~(h[i].seq < t /\ t < h[i + 1].seq)
    <3>1. CASE t \in SeqsOf(l)
      BY <2>3, <2>7, <2>8, <3>1 DEF HistoryOf
    <3>2. CASE t = n + 1
      <4>1. i + 1 \in 1 .. Len(h)
        BY <2>2, <2>8
      <4>2. h[i + 1].seq <= lastSeq /\ h[i + 1].seq \in Nat
        BY <2>2, <2>6, <4>1
      <4>3. QED
        BY <1>2, <3>2, <4>2
    <3>3. QED
      BY <2>5, <3>1, <3>2
  <2>9. ASSUME NEW t \in T, t <= lastSeq, Kept(t)' PROVE Len(h) # 0 /\ t <= h[Len(h)].seq
    <3>1. t \in SeqsOf(l)
      BY <1>2, <2>5, <2>9
    <3>2. QED
      BY <2>3, <2>7, <2>9, <3>1 DEF HistoryOf
  <2>10. bt'[l] = h /\ lastSeq' = lastSeq
    BY <2>1
  <2>11. QED
    BY <2>4, <2>6, <2>8, <2>9, <2>10 DEF HistoryOf
<1>4. QED
  BY <1>3 DEF HistoriesInv

(* The consumer passes no message that is kept without being sent it. *)
LEMMA PassedBefore ==
  ASSUME TypeOK, StartInv, BehindInv, HistoriesInv, btreeUpdate, NEW p, p = NextFrom(consumer.pos, AllKeys),
         NEW l \in Keys, NEW t \in SeqsOf(l), t < p, Kept(t)
  PROVE  Len(bt[l]) # 0 /\ t <= bt[l][Len(bt[l])].seq
<1>1. PICK n \in Nat : n = Len(stream)
  BY StreamTyped
<1>2. t \in 1 .. n /\ stream[t].key = l /\ t \in Nat /\ l \in AllKeys
  BY <1>1, LastOfSpec DEF AllKeys
<1>3. /\ p # 0 /\ consumer.pos \in Nat /\ lastSeq \in Nat /\ consumer.pos <= lastSeq + 1
  <2>1. p \in 1 .. Len(stream)
    BY NextAhead
  <2>2. QED
    BY <1>1, <2>1 DEF TypeOK, Seqs, BehindInv
<1>4. t <= lastSeq
  <2> SUFFICES ASSUME lastSeq < t PROVE FALSE
    BY <1>2, <1>3
  <2>1. t >= consumer.pos
    BY <1>2, <1>3
  <2>2. QED
    BY <1>1, <1>2, <1>3, <2>1, NextFromSpec
<1>5. HistoryOf(l, bt[l])
  BY DEF HistoriesInv
<1>6. QED
  BY <1>4, <1>5 DEF HistoryOf

LEMMA HistoriesUpdated ==
  ASSUME TypeOK, CompactInv, StartInv, BehindInv, HistoriesInv, btreeUpdate
  PROVE  HistoriesInv'
<1>1. PICK n \in Nat : n = Len(stream)
  BY StreamTyped
<1>2. PICK p : p = NextFrom(consumer.pos, AllKeys)
  OBVIOUS
<1>3. /\ p \in 1 .. n /\ p \in Nat /\ lastSeq <= p /\ delivered(p) /\ lastSeq' = p /\ UNCHANGED stream
      /\ bt' = [bt EXCEPT ![stream[p].key] = remember(@, [seq |-> p, op |-> stream[p].op])]
  BY <1>1, <1>2, NextAhead, AlwaysDelivered DEF btreeUpdate
<1>4. PICK j, o : j = stream[p].key /\ o = stream[p].op
  OBVIOUS
<1>5. /\ j \in AllKeys /\ [seq |-> p, op |-> o] \in Entries /\ p \in SeqsOf(j)
      /\ bt \in [AllKeys -> Seq(Entries)] /\ lastSeq \in Nat
  <2>1. stream[p] \in Message /\ p \in Seqs
    BY <1>1, <1>3, StreamTyped
  <2>2. j \in AllKeys /\ o \in Ops
    BY <1>4, <2>1 DEF Message, Ops
  <2>3. [seq |-> p, op |-> o] \in Entries
    BY <2>1, <2>2 DEF Entries
  <2>4. p \in SeqsOf(j) /\ bt \in [AllKeys -> Seq(Entries)] /\ lastSeq \in Nat
    <3>1. p \in SeqsOf(j)
      BY <1>1, <1>3, <1>4, StreamTyped DEF SeqsOf
    <3>2. bt \in [AllKeys -> Seq(Entries)]
      BY DEF TypeOK, Entries, Ops
    <3>3. lastSeq \in Nat
      BY DEF TypeOK, Seqs
    <3>4. QED
      BY <3>1, <3>2, <3>3
  <2>5. QED
    BY <2>2, <2>3, <2>4
<1>6. (\A k : SeqsOf(k)' = SeqsOf(k)) /\ (\A s : Kept(s)' = Kept(s))
  BY <1>3 DEF Kept, SeqsOf
<1>7. ASSUME NEW l \in Keys, l # j PROVE HistoryOf(l, bt[l])'
  <2>1. PICK h : h = bt[l]
    OBVIOUS
  <2>2. HistoryOf(l, h) /\ bt'[l] = h
    BY <1>3, <1>4, <1>5, <1>7, <2>1, HistoryTyped DEF HistoriesInv
  <2>3. \A t \in SeqsOf(l) : t \in 1 .. n /\ t # p
    BY <1>1, <1>4, <1>7, LastOfSpec
  <2>4. ASSUME NEW t \in SeqsOf(l), t <= p, Kept(t) PROVE Len(h) # 0 /\ t <= h[Len(h)].seq
    <3>1. t < p /\ t \in Nat
      BY <1>3, <2>3, <2>4
    <3>2. QED
      BY <1>2, <2>1, <2>4, <3>1, PassedBefore
  <2>5. ASSUME NEW i \in 1 .. Len(h)
        PROVE  h[i].seq \in SeqsOf(l) /\ h[i].seq <= p /\ h[i].op = stream[h[i].seq].op
    <3>1. h[i].seq \in SeqsOf(l) /\ h[i].seq <= lastSeq /\ h[i].op = stream[h[i].seq].op
      BY <2>2 DEF HistoryOf
    <3>2. h[i].seq \in Nat
      BY <2>1, HistoryTyped
    <3>3. h[i].seq <= p
      BY <1>3, <1>5, <3>1, <3>2
    <3>4. QED
      BY <3>1, <3>3
  <2>6. \A i \in 1 .. Len(h) : i < Len(h) => \A t \in SeqsOf(l) : Kept(t) => ~(h[i].seq < t /\ t < h[i + 1].seq)
    BY <2>2 DEF HistoryOf
  <2>7. QED
    BY <1>3, <1>6, <2>2, <2>4, <2>5, <2>6 DEF HistoryOf
<1>8. ASSUME j \in Keys PROVE HistoryOf(j, bt[j])'
  <2>1. PICK h \in Seq(Entries) : h = bt[j] /\ Len(h) <= History
    BY <1>8, HistoryTyped
  <2>2. PICK g : g = remember(h, [seq |-> p, op |-> o])
    OBVIOUS
  <2>3. bt'[j] = g
    BY <1>3, <1>4, <1>5, <2>1, <2>2
  <2>4. PICK m \in Nat, d \in Nat :
          /\ Len(g) = m + 1 /\ m + d = Len(h) /\ g[m + 1] = [seq |-> p, op |-> o]
          /\ \A i \in 1 .. m : g[i] = h[i + d]
    BY <1>5, <2>1, <2>2, RememberKeeps
  <2>5. HistoryOf(j, h) /\ \A i \in 1 .. m + d : h[i].seq \in Nat
    BY <1>8, <2>1, <2>4, HistoryTyped DEF HistoriesInv
  <2>6. \A i \in 1 .. m : i + d \in 1 .. m + d
    OBVIOUS
  <2>7. ASSUME NEW i \in 1 .. m + 1
        PROVE  g[i].seq \in SeqsOf(j) /\ g[i].seq <= p /\ g[i].op = stream[g[i].seq].op
    <3>1. CASE i = m + 1
      BY <1>3, <1>4, <1>5, <2>4, <3>1
    <3>2. CASE i \in 1 .. m
      <4>1. PICK e : e = h[i + d] /\ g[i] = e
        BY <2>4, <3>2
      <4>2. e.seq \in SeqsOf(j) /\ e.seq <= lastSeq /\ e.op = stream[e.seq].op
        BY <2>4, <2>5, <2>6, <3>2, <4>1 DEF HistoryOf
      <4>3. e.seq \in Nat
        BY <2>5, <2>6, <3>2, <4>1
      <4>4. e.seq <= p
        BY <1>3, <1>5, <4>2, <4>3
      <4>5. QED
        BY <1>3, <4>1, <4>2, <4>4
    <3>3. QED
      BY <3>1, <3>2
  <2>8. ASSUME NEW i \in 1 .. m, NEW t \in SeqsOf(j), Kept(t) PROVE ~(g[i].seq < t /\ t < g[i + 1].seq)
    <3>1. i + d \in 1 .. m + d /\ g[i] = h[i + d]
      BY <2>4, <2>6
    <3>2. CASE i < m
      <4>1. g[i + 1] = h[(i + d) + 1]
        <5>1. i + 1 \in 1 .. m /\ (i + 1) + d = (i + d) + 1
          BY <3>2
        <5>2. QED
          BY <2>4, <5>1
      <4>2. i + d < m + d
        BY <3>2
      <4>3. QED
        BY <2>4, <2>5, <2>8, <3>1, <4>1, <4>2 DEF HistoryOf
    <3>3. CASE i = m
      <4> SUFFICES ASSUME g[m].seq < t, t < p PROVE FALSE
        BY <2>4, <3>3
      <4>1. PICK q \in Nat : q = h[m + d].seq /\ q = g[m].seq /\ q < t
        BY <2>5, <3>1, <3>3
      <4>2. t <= bt[j][Len(bt[j])].seq
        BY <1>2, <1>8, <2>8, PassedBefore
      <4>3. t <= q /\ t \in Nat
        <5>1. t \in 1 .. n
          BY <1>1, LastOfSpec
        <5>2. QED
          BY <2>1, <2>4, <4>1, <4>2, <5>1
      <4>4. QED
        BY <4>1, <4>3
    <3>4. QED
      BY <3>2, <3>3
  <2>9. ASSUME NEW t \in SeqsOf(j), t <= p PROVE Len(g) # 0 /\ t <= g[Len(g)].seq
    BY <2>4, <2>9
  <2>10. \A i \in 1 .. Len(g) : i < Len(g) => i \in 1 .. m
    BY <2>4
  <2>11. /\ \A i \in 1 .. Len(g) : g[i].seq \in SeqsOf(j) /\ g[i].seq <= p /\ g[i].op = stream[g[i].seq].op
         /\ \A i \in 1 .. Len(g) : i < Len(g) => \A t \in SeqsOf(j) : Kept(t) => ~(g[i].seq < t /\ t < g[i + 1].seq)
    BY <2>4, <2>7, <2>8, <2>10
  <2>12. QED
    BY <1>3, <1>6, <2>3, <2>9, <2>11 DEF HistoryOf
<1>9. ASSUME NEW l \in Keys PROVE HistoryOf(l, bt[l])'
  BY <1>7, <1>8
<1>10. QED
  BY <1>9 DEF HistoriesInv

LEMMA HistoriesStepInv ==
  ASSUME OtherNodes = FALSE, TypeOK, CompactInv, StartInv, BehindInv, HistoriesInv, [Next]_vars
  PROVE  HistoriesInv'
<1>1. ASSUME UNCHANGED <<stream, bt, lastSeq>> PROVE HistoriesInv'
  <2>1. (\A k : SeqsOf(k)' = SeqsOf(k)) /\ (\A s : Kept(s)' = Kept(s))
    BY <1>1 DEF Kept, SeqsOf
  <2>2. QED
    BY <1>1, <2>1 DEF HistoriesInv, HistoryOf
<1>2. ASSUME NEW c \in Callers, RequestStep(c) PROVE HistoriesInv'
  <2>1. CASE Appends(c)
    <3>1. PICK k \in Keys, op \in Ops, leased \in BOOLEAN : k \in AllKeys /\ 0 \in Seqs /\ Publish(k, op, leased, 0)
      BY <2>1, AppendsOne
    <3>2. UNCHANGED <<bt, lastSeq>>
      BY <2>1 DEF Appends, index
    <3>3. QED
      BY <3>1, <3>2, HistoriesAppended
  <2>2. CASE UNCHANGED <<stream, index>>
    BY <1>1, <2>2 DEF index
  <2>3. QED
    BY <1>2, <2>1, <2>2, RequestSteps
<1>3. CASE CompactWrite \/ CompactTxn
  <2>1. UNCHANGED <<bt, lastSeq>>
    BY <1>3 DEF CompactWrite, CompactTxn, index
  <2>2. CASE stream' # stream
    <3>1. PICK rev \in Seqs : /\ CompactKey \in AllKeys /\ "put" \in Ops /\ FALSE \in BOOLEAN
                              /\ Publish(CompactKey, "put", FALSE, rev)
      BY <1>3, <2>2, CompactAppends
    <3>2. QED
      BY <2>1, <3>1, HistoriesAppended
  <2>3. QED
    BY <1>1, <2>1, <2>2
<1>4. CASE btreeUpdate
  BY <1>4, HistoriesUpdated
<1>5. CASE Crash
  <2>1. UNCHANGED stream /\ lastSeq' = 0 /\ bt' = [k \in AllKeys |-> <<>>]
    BY <1>5 DEF Crash, Started
  <2>2. ASSUME NEW k \in Keys PROVE HistoryOf(k, bt[k])'
    <3>1. bt'[k] = <<>> /\ Len(<<>>) = 0
      BY <2>1 DEF AllKeys
    <3>2. \A t \in SeqsOf(k)' : ~(t <= 0)
      <4>1. SeqsOf(k)' = SeqsOf(k)
        BY <2>1 DEF SeqsOf
      <4>2. \A t \in SeqsOf(k) : t \in 1 .. Len(stream)
        BY LastOfSpec
      <4>3. QED
        BY <4>1, <4>2, StreamTyped
    <3>3. \A i \in 1 .. Len(<<>>) : FALSE
      BY <3>1
    <3>4. QED
      BY <2>1, <3>1, <3>2, <3>3 DEF HistoryOf
  <2>3. QED
    BY <2>2 DEF HistoriesInv
<1>6. CASE btreeRestart \/ (\E c \in Clients : Begin(c)) \/ Expire \/ CompactBegin \/ compactWatcher
           \/ WatchOpen \/ WatchDeliver \/ WatchError
  BY <1>1, <1>6 DEF btreeRestart, Begin, Expire, CompactBegin, compactWatcher, WatchOpen, WatchDeliver, WatchError, index
<1>7. CASE UNCHANGED vars
  BY <1>1, <1>7 DEF vars, index
<1>8. QED
  BY <1>2, <1>3, <1>4, <1>5, <1>6, <1>7 DEF Next

(* The last entry of a history up to a revision is the newest message of the key up to it. *)
LEMMA EntryIsValue ==
  ASSUME TypeOK, HistoriesInv, NEW k \in Keys, NEW q \in Nat, q <= lastSeq,
         NEW h, h = bt[k], NEW i \in 1 .. Len(h), h[i].seq <= q, i = Len(h) \/ ~(h[i + 1].seq <= q), Kept(h[i].seq)
  PROVE  putAt(h, i) = ValueAt(k, q)
<1>1. PICK n \in Nat : n = Len(stream)
  BY StreamTyped
<1>2. HistoryOf(k, h) /\ Len(h) \in Nat /\ (\A x \in 1 .. Len(h) : h[x].seq \in Nat) /\ lastSeq \in Nat
  <2>1. HistoryOf(k, h)
    BY DEF HistoriesInv
  <2>2. Len(h) \in Nat /\ \A x \in 1 .. Len(h) : h[x].seq \in Nat
    BY HistoryTyped
  <2>3. lastSeq \in Nat
    BY DEF TypeOK, Seqs
  <2>4. QED
    BY <2>1, <2>2, <2>3
<1>3. PICK s \in Nat : s = h[i].seq /\ s \in SeqsOf(k) /\ h[i].op = stream[s].op /\ s <= q
  BY <1>2 DEF HistoryOf
<1>4. \A t \in SeqsOf(k) : t \in 1 .. n
  BY <1>1, LastOfSpec
<1>5. PICK seen : seen = {t \in SeqsOf(k) : t <= q}
  OBVIOUS
<1>6. ASSUME NEW t \in seen PROVE t <= s
  <2> SUFFICES ASSUME s < t PROVE FALSE
    BY <1>3, <1>4, <1>5
  <2>1. t \in SeqsOf(k) /\ t <= q /\ t \in Nat /\ t <= lastSeq
    BY <1>2, <1>4, <1>5
  <2>2. Kept(t)
    BY <1>3, <2>1, KeptAfter
  <2>3. CASE i = Len(h)
    BY <1>2, <1>3, <2>1, <2>2, <2>3 DEF HistoryOf
  <2>4. CASE i < Len(h)
    <3>1. i + 1 \in 1 .. Len(h)
      BY <1>2, <2>4
    <3>2. PICK u \in Nat : u = h[i + 1].seq /\ q < u
      BY <1>2, <2>4, <3>1
    <3>3. ~(s < t /\ t < u)
      BY <1>2, <1>3, <2>1, <2>2, <2>4, <3>2 DEF HistoryOf
    <3>4. QED
      BY <2>1, <3>2, <3>3
  <2>5. QED
    BY <1>2, <2>3, <2>4
<1>7. seen # {} /\ Max(seen) = s
  <2>1. s \in seen /\ seen \in SUBSET Nat /\ \A t \in seen : t <= q
    <3>1. \A t \in SeqsOf(k) : t \in Nat
      BY <1>4
    <3>2. QED
      BY <1>3, <1>5, <3>1
  <2>2. Max(seen) \in seen /\ \A t \in seen : t <= Max(seen)
    BY <2>1, MaxOf
  <2>3. Max(seen) \in Nat /\ Max(seen) <= s /\ s <= Max(seen)
    BY <1>6, <2>1, <2>2
  <2>4. QED
    BY <2>1, <2>3
<1>8. ValueAt(k, q) = IF stream[s].op # "put" THEN 0 ELSE s
  BY <1>5, <1>7 DEF ValueAt
<1>9. QED
  BY <1>3, <1>8 DEF putAt

LEMMA HistoriesExact ==
  ASSUME TypeOK, HistoriesInv
  PROVE  IndexExact
<1>1. lastSeq \in Nat
  BY DEF TypeOK, Seqs
<1>2. ASSUME NEW k \in Keys, NEW r \in Nat, r <= lastSeq, NEW h, h = bt[k], getSeqOp(h, r) # 0, Kept(getSeqOp(h, r)),
             NEW q \in Nat, q = IF r = 0 THEN lastSeq ELSE r
      PROVE  getSeqOp(h, r) = ValueAt(k, q)
  <2>1. PICK m \in Nat : /\ m = Len(h) /\ DOMAIN h = 1 .. m /\ HistoryOf(k, h)
                         /\ \A x \in 1 .. m : h[x].seq \in Nat /\ h[x].seq <= lastSeq
    <3> DEFINE E == Entries
    <3>1. h \in Seq(E) /\ HistoryOf(k, h) /\ \A x \in 1 .. Len(h) : h[x].seq \in Nat
      BY <1>2, HistoryTyped DEF HistoriesInv
    <3> HIDE DEF E
    <3>2. Len(h) \in Nat /\ DOMAIN h = 1 .. Len(h)
      BY <3>1
    <3>3. \A x \in 1 .. Len(h) : h[x].seq <= lastSeq
      BY <3>1 DEF HistoryOf
    <3>4. QED
      BY <3>1, <3>2, <3>3
  <2>2. PICK S : S = upTo(h, r)
    OBVIOUS
  <2>3. S # {}
    BY <1>2, <2>2 DEF getSeqOp
  <2>4. S \in SUBSET Nat /\ S \subseteq 1 .. m /\ (\A x \in S : x <= m)
        /\ \A x \in 1 .. m : x \in S <=> h[x].seq <= q
    <3>1. S = {x \in 1 .. m : r <= 0 \/ h[x].seq <= r}
      BY <2>1, <2>2 DEF upTo
    <3>2. CASE r = 0
      BY <1>2, <2>1, <2>2, <3>1, <3>2
    <3>3. CASE r # 0
      BY <1>2, <2>1, <2>2, <3>1, <3>3
    <3>4. QED
      BY <3>2, <3>3
  <2>5. PICK i : i = Max(S)
    OBVIOUS
  <2>6. i \in S /\ \A x \in S : x <= i
    BY <2>1, <2>3, <2>4, <2>5, MaxOf
  <2>7. i \in 1 .. m /\ h[i].seq <= q
    BY <2>4, <2>6
  <2>8. i = m \/ ~(h[i + 1].seq <= q)
    <3>1. CASE i # m
      <4>1. i + 1 \in 1 .. m
        BY <2>7, <3>1
      <4>2. i + 1 \notin S
        BY <2>6, <2>7
      <4>3. QED
        BY <2>4, <4>1, <4>2
    <3>2. QED
      BY <3>1
  <2>9. q <= lastSeq
    BY <1>1, <1>2
  <2>10. getSeqOp(h, r) = putAt(h, i)
    BY <2>2, <2>3, <2>5, Zenon DEF getSeqOp
  <2>11. Kept(h[i].seq)
    BY <1>2, <2>10 DEF putAt
  <2>12. putAt(h, i) = ValueAt(k, q)
    BY <1>2, <2>1, <2>7, <2>8, <2>9, <2>11, EntryIsValue
  <2>13. QED
    BY <2>10, <2>12
<1>3. ASSUME NEW r \in Seqs, ~ErrFutureRev(r), NEW e \in List(r) PROVE e.seq = ValueAt(e.key, ReadAt(r))
  <2>1. e \in getListOps(r) /\ Kept(e.seq)
    BY DEF List
  <2>2. PICK k \in Keys : getSeqOp(bt[k], r) # 0 /\ e = [key |-> k, seq |-> getSeqOp(bt[k], r)]
    BY <2>1 DEF getListOps
  <2>3. r \in Nat /\ r <= lastSeq
    BY <1>1, <1>3 DEF Seqs, ErrFutureRev
  <2>4. PICK q \in Nat : q = ReadAt(r) /\ q = IF r = 0 THEN lastSeq ELSE r
    BY <1>1, <2>3 DEF ReadAt
  <2>5. e.key = k /\ e.seq = getSeqOp(bt[k], r)
    BY <2>2
  <2>6. getSeqOp(bt[k], r) = ValueAt(k, q)
    BY <1>2, <2>1, <2>2, <2>3, <2>4, <2>5
  <2>7. QED
    BY <2>4, <2>5, <2>6
<1>4. ASSUME NEW k \in Keys, NEW s, s = ValueAt(k, lastSeq), s # 0, Kept(s) PROVE [key |-> k, seq |-> s] \in List(0)
  <2>1. PICK h \in Seq(Entries) : h = bt[k] /\ HistoryOf(k, h) /\ \A x \in 1 .. Len(h) : h[x].seq \in Nat
    BY HistoryTyped DEF HistoriesInv
  <2>2. PICK seen : seen = {t \in SeqsOf(k) : t <= lastSeq}
    OBVIOUS
  <2>3. seen # {} /\ s = Max(seen) /\ stream[s].op = "put"
    BY <1>4, <2>2 DEF ValueAt
  <2>4. seen \in SUBSET Nat /\ \A t \in seen : t <= lastSeq
    <3>1. \A t \in SeqsOf(k) : t \in 1 .. Len(stream)
      BY LastOfSpec
    <3>2. \A t \in SeqsOf(k) : t \in Nat
      BY <3>1
    <3>3. QED
      BY <2>2, <3>2
  <2>5. s \in seen /\ \A t \in seen : t <= s
    BY <1>1, <2>3, <2>4, MaxOf
  <2>6. Len(h) # 0 /\ s <= h[Len(h)].seq
    BY <1>4, <2>1, <2>2, <2>5 DEF HistoryOf
  <2>7. h # <<>>
    BY <2>6
  <2>8. getSeqOp(h, 0) = putAt(h, Len(h)) /\ Len(h) \in 1 .. Len(h)
    BY <2>7, LastEntry
  <2>9. PICK u \in Nat : u = h[Len(h)].seq /\ u \in seen /\ h[Len(h)].op = stream[u].op
    BY <2>1, <2>2, <2>8 DEF HistoryOf
  <2>10. u = s
    <3>1. u <= s /\ s <= u /\ s \in Nat
      BY <2>4, <2>5, <2>6, <2>9
    <3>2. QED
      BY <3>1
  <2>11. getSeqOp(bt[k], 0) = s
    BY <2>1, <2>3, <2>8, <2>9, <2>10 DEF putAt
  <2>12. [key |-> k, seq |-> s] \in getListOps(0)
    BY <1>4, <2>11 DEF getListOps
  <2>13. QED
    BY <1>4, <2>12 DEF List
<1>5. QED
  BY <1>3, <1>4 DEF IndexExact

(* Reads of the index are exact: a read of now or at an old revision answers the versions of that   *)
(* revision, and leaves out at most a key of which the bucket has dropped the version (getSeqOp, and *)
(* kv.List), across consumers that fail and read their last message twice, crashes, replays that    *)
(* find only what the bucket keeps, the entries that the index drops, requests that fail and any    *)
(* number of clients.  It needs that no other node compacts past this one's consumer, whose messages *)
(* the handler would drop.                                                                          *)
THEOREM IndexIsExact ==
  ASSUME OtherNodes = FALSE
  PROVE  Spec => []IndexExact
<1> DEFINE Ind == IndexInv /\ HistoriesInv
<1>1. Init => Ind
  <2> SUFFICES ASSUME Init PROVE Ind
    OBVIOUS
  <2>1. stream = <<>> /\ bt = [k \in AllKeys |-> <<>>] /\ Len(<<>>) = 0 /\ \A k \in Keys : k \in AllKeys
    BY DEF Init, AllKeys
  <2>2. (\A k : SeqsOf(k) = {}) /\ \A i \in 1 .. Len(<<>>) : FALSE
    BY <2>1 DEF SeqsOf
  <2>3. HistoriesInv
    BY <2>1, <2>2 DEF HistoriesInv, HistoryOf
  <2>4. QED
    BY <2>3, IndexInvStep
<1>2. Ind /\ [Next]_vars => Ind'
  <2> SUFFICES ASSUME Ind, [Next]_vars PROVE Ind'
    OBVIOUS
  <2>1. IndexInv'
    BY IndexInvStep
  <2>2. HistoriesInv'
    BY HistoriesStepInv DEF IndexInv
  <2>3. QED
    BY <2>1, <2>2
<1>3. Ind => IndexExact
  BY HistoriesExact DEF IndexInv
<1>4. QED
  BY <1>1, <1>2, <1>3, PTL DEF Spec

=============================================================================
