------------------------- MODULE StateStorageProofs -------------------------
(***************************************************************************)
(* Proofs about the storage tables, RocksDB and the two deduplications.    *)
(* First come the operators of StateStorage, one section for each, then    *)
(* the inductive invariant StorageInv with a step for each action, and     *)
(* last the theorems about the properties.                                 *)
(***************************************************************************)
EXTENDS StateStorage, FiniteSetTheorems, WellFoundedInduction, TLAPS

-----------------------------------------------------------------------------

(* Numbers. *)

\* A set of numbers with a member has a least one.
LEMMA LeastOf ==
    ASSUME NEW S \in SUBSET Nat, S # {}
    PROVE  \E x \in S : \A y \in S : x <= y
<1>1. PICK x \in S : \A y \in S : ~ (<< y, x >> \in OpToRel(<, Nat))
  BY NatLessThanWellFounded, WFMin, Zenon
<1>2. \A y \in S : ~ (y < x)
  BY <1>1, Zenon DEF OpToRel
<1> QED BY <1>2

\* A set with 0, and with n + 1 for each n in it, has all numbers up to a bound.
LEMMA Upward ==
    ASSUME NEW N \in Nat, NEW S, 0 \in S, \A n \in 0..(N - 1) : n \in S => n + 1 \in S
    PROVE  \A n \in 0..N : n \in S
<1> DEFINE Bad == {n \in 0..N : n \notin S}
<1>1. SUFFICES ASSUME Bad # {} PROVE FALSE
  OBVIOUS
<1>2. PICK n \in Bad : \A m \in Bad : n <= m
  BY <1>1, Bad \in SUBSET Nat, LeastOf
<1>3. n # 0 /\ n - 1 \in 0..(N - 1) /\ n - 1 \notin Bad
  BY <1>2
<1> QED BY <1>2, <1>3

\* The largest element.
LEMMA MaxIs ==
    ASSUME NEW S, S \subseteq Int, NEW m \in S, \A y \in S : y <= m
    PROVE  Max(S) = m
<1>1. \A x \in S : (\A y \in S : x >= y) => x = m
  OBVIOUS
<1>2. Max(S) \in S /\ \A y \in S : Max(S) >= y
  BY Zenon, \A y \in S : m >= y DEF Max
<1> QED BY <1>1, <1>2

\* A set of numbers up to n has a largest element.
LEMMA MaxExists ==
    ASSUME NEW n \in Int, NEW S \in SUBSET Int, S # {}, \A y \in S : y <= n
    PROVE  Max(S) \in S /\ \A y \in S : y <= Max(S)
<1> DEFINE T == {n - y : y \in S}
<1>1. T \in SUBSET Nat /\ T # {}
  <2>1. \A y \in S : n - y \in Nat
    OBVIOUS
  <2> QED BY <2>1
<1>2. PICK x \in T : \A y \in T : x <= y
  BY <1>1, LeastOf
<1>3. PICK m \in S : x = n - m
  BY <1>2
<1>4. \A y \in S : y <= m
  <2> SUFFICES ASSUME NEW y \in S PROVE y <= m
    OBVIOUS
  <2>1. n - y \in T
    OBVIOUS
  <2> QED BY <1>2, <1>3, <2>1
<1>5. Max(S) = m
  BY <1>4, MaxIs, S \subseteq Int
<1> QED BY <1>4, <1>5

-----------------------------------------------------------------------------
(* Sequences. *)

IsSeq(s) == \E S : s \in Seq(S)

\* What Append does.
LEMMA Appended ==
    ASSUME NEW s, IsSeq(s), NEW x
    PROVE  /\ IsSeq(Append(s, x)) /\ Len(s) \in Nat /\ Len(Append(s, x)) = Len(s) + 1
           /\ \A i \in 1..Len(s) : Append(s, x)[i] = s[i]
           /\ Append(s, x)[Len(s) + 1] = x
<1>1. PICK S : s \in Seq(S)
  BY DEF IsSeq
<1>2. PICK T : T = S \cup {x}
  OBVIOUS
<1>3. s \in Seq(T) /\ x \in T
  BY <1>1, <1>2
<1>4. Append(s, x) \in Seq(T)
  BY <1>3
<1> QED BY <1>3, <1>4 DEF IsSeq

\* What is left of the states of RocksDB.
LEMMA Shortened ==
    ASSUME NEW s, IsSeq(s), NEW n \in 1..Len(s)
    PROVE  /\ IsSeq(SubSeq(s, 1, n)) /\ Len(SubSeq(s, 1, n)) = n
           /\ \A i \in 1..n : SubSeq(s, 1, n)[i] = s[i] /\ i \in 1..Len(s)
<1>1. PICK S : s \in Seq(S)
  BY DEF IsSeq
<1>2. SubSeq(s, 1, n) \in Seq(S)
  BY <1>1
<1> QED BY <1>1, <1>2 DEF IsSeq

\* What concatenation does.
LEMMA Joined ==
    ASSUME NEW s, IsSeq(s), NEW t, IsSeq(t)
    PROVE  /\ IsSeq(s \o t) /\ Len(s) \in Nat /\ Len(t) \in Nat
           /\ Len(s \o t) = Len(s) + Len(t)
           /\ \A i \in 1..Len(s) : (s \o t)[i] = s[i]
           /\ \A i \in 1..Len(t) : (s \o t)[Len(s) + i] = t[i]
           /\ DOMAIN (s \o t) = 1..(Len(s) + Len(t))
<1>1. PICK S, T : s \in Seq(S) /\ t \in Seq(T)
  BY DEF IsSeq
<1>2. PICK U : U = S \cup T
  OBVIOUS
<1>3. s \in Seq(U) /\ t \in Seq(U)
  BY <1>1, <1>2
<1>4. s \o t \in Seq(U)
  BY <1>3
<1> QED BY <1>3, <1>4 DEF IsSeq

\* Two sequences with the same elements.
LEMMA SameSeq ==
    ASSUME NEW s, IsSeq(s), NEW t, IsSeq(t), Len(s) = Len(t),
           \A i \in 1..Len(s) : s[i] = t[i]
    PROVE  s = t
<1>1. PICK S, T : s \in Seq(S) /\ t \in Seq(T)
  BY DEF IsSeq
<1>2. s = [i \in 1..Len(s) |-> s[i]] /\ t = [i \in 1..Len(t) |-> t[i]]
  BY <1>1
<1> QED BY <1>2, Zenon

-----------------------------------------------------------------------------
(* The VM: a slot has the value that was written last. *)

WritesTo(ops, k, n) == {i \in 1..n : ops[i].rw /\ ops[i].key = k}

\* The definition with its set of writes named.
LEMMA ValueIs ==
    ASSUME NEW values, NEW ops, NEW k, NEW n
    PROVE  /\ WritesTo(ops, k, n) = {} => ValueAt(values, ops, k, n) = values[k]
           /\ WritesTo(ops, k, n) # {} =>
                ValueAt(values, ops, k, n) = ops[Max(WritesTo(ops, k, n))].value
BY DEF ValueAt, WritesTo

\* A set of writes has a last one.
LEMMA LastWrite ==
    ASSUME NEW ops, NEW k, NEW n \in Nat, WritesTo(ops, k, n) # {}
    PROVE  /\ Max(WritesTo(ops, k, n)) \in WritesTo(ops, k, n)
           /\ Max(WritesTo(ops, k, n)) \in 1..n
           /\ \A i \in WritesTo(ops, k, n) : i <= Max(WritesTo(ops, k, n))
<1>1. WritesTo(ops, k, n) \in SUBSET Int /\ \A y \in WritesTo(ops, k, n) : y <= n /\ y \in 1..n
  BY DEF WritesTo
<1>2. PICK S : S = WritesTo(ops, k, n)
  OBVIOUS
<1>3. S \in SUBSET Int /\ S # {} /\ n \in Int /\ \A y \in S : y <= n
  BY <1>1, <1>2
<1>4. Max(S) \in S /\ \A y \in S : y <= Max(S)
  BY <1>3, MaxExists
<1> QED BY <1>1, <1>2, <1>4

\* One access more.
LEMMA ValueWritten ==
    ASSUME NEW values, NEW ops, NEW k, NEW n \in Nat, ops[n + 1].rw, ops[n + 1].key = k
    PROVE  ValueAt(values, ops, k, n + 1) = ops[n + 1].value
<1>1. n + 1 \in WritesTo(ops, k, n + 1) /\ WritesTo(ops, k, n + 1) \subseteq Int
      /\ \A i \in WritesTo(ops, k, n + 1) : i <= n + 1
  BY DEF WritesTo
<1>2. Max(WritesTo(ops, k, n + 1)) = n + 1
  <2>1. PICK S, m : S = WritesTo(ops, k, n + 1) /\ m = n + 1
    OBVIOUS
  <2>2. Max(S) = m
    BY <1>1, <2>1, MaxIs
  <2> QED BY <2>1, <2>2
<1> QED BY <1>1, <1>2, ValueIs

\* An access that does not write to a slot leaves its value.
LEMMA ValueKept ==
    ASSUME NEW values, NEW ops, NEW k, NEW n \in Nat, ~ (ops[n + 1].rw /\ ops[n + 1].key = k)
    PROVE  ValueAt(values, ops, k, n + 1) = ValueAt(values, ops, k, n)
<1>1. WritesTo(ops, k, n + 1) = WritesTo(ops, k, n)
  BY DEF WritesTo
<1> QED BY <1>1, ValueIs

\* The value of a slot, access by access.
LEMMA ValueStep ==
    ASSUME NEW values, NEW ops, NEW k, NEW n \in Nat
    PROVE  /\ ValueAt(values, ops, k, 0) = values[k]
           /\ ValueAt(values, ops, k, n + 1) =
                IF ops[n + 1].rw /\ ops[n + 1].key = k THEN ops[n + 1].value
                ELSE ValueAt(values, ops, k, n)
<1>1. WritesTo(ops, k, 0) = {}
  BY DEF WritesTo
<1>2. ValueAt(values, ops, k, 0) = values[k]
  BY <1>1, ValueIs
<1>3. CASE ops[n + 1].rw /\ ops[n + 1].key = k
  BY <1>2, <1>3, ValueWritten
<1>4. CASE ~ (ops[n + 1].rw /\ ops[n + 1].key = k)
  BY <1>2, <1>4, ValueKept
<1> QED BY <1>3, <1>4

\* The values after a run.
RunValues(values, ops) == [k \in Keys |-> ValueAt(values, ops, k, Len(ops))]
RunLogs(values, known, ops) == [i \in 1..Len(ops) |-> Access(values, known, ops, i)]

\* Execute, with the values and the accesses of the run named apart.
LEMMA RunIs ==
    ASSUME NEW values, NEW known, NEW ops
    PROVE  /\ Execute(values, known, ops).values = RunValues(values, ops)
           /\ Execute(values, known, ops).logs = RunLogs(values, known, ops)
BY DEF Execute, RunValues, RunLogs

\* The first part of two runs.
LEMMA ValueInFirst ==
    ASSUME NEW values, NEW s, IsSeq(s), NEW t, IsSeq(t), NEW k, NEW n \in 0..Len(s)
    PROVE  ValueAt(values, s \o t, k, n) = ValueAt(values, s, k, n)
<1>1. Len(s) \in Nat /\ \A i \in 1..Len(s) : (s \o t)[i] = s[i]
  BY Joined
<1>2. n \in Nat /\ \A i \in 1..n : (s \o t)[i] = s[i]
  BY <1>1
<1>3. PICK u : u = s \o t
  OBVIOUS
<1>4. WritesTo(u, k, n) = WritesTo(s, k, n)
  BY <1>2, <1>3 DEF WritesTo
<1>5. CASE WritesTo(s, k, n) = {}
  BY <1>3, <1>4, <1>5, ValueIs
<1>6. CASE WritesTo(s, k, n) # {}
  <2>1. Max(WritesTo(s, k, n)) \in 1..n
    BY <1>2, <1>6, LastWrite
  <2>2. PICK x : x = Max(WritesTo(s, k, n))
    OBVIOUS
  <2>3. u[x] = s[x]
    BY <1>2, <1>3, <2>1, <2>2
  <2>4. ValueAt(values, u, k, n) = u[x].value /\ ValueAt(values, s, k, n) = s[x].value
    BY <1>4, <1>6, <2>2, ValueIs
  <2> QED BY <1>3, <2>3, <2>4
<1> QED BY <1>5, <1>6

\* The second part starts where the first one ended.
LEMMA ValueInSecond ==
    ASSUME NEW values, NEW s, IsSeq(s), NEW t, IsSeq(t), NEW k \in Keys
    PROVE  \A n \in 0..Len(t) :
             ValueAt(values, s \o t, k, Len(s) + n) = ValueAt(RunValues(values, s), t, k, n)
<1>1. PICK u, a, b : u = s \o t /\ a = Len(s) /\ b = Len(t)
  OBVIOUS
<1>2. a \in Nat /\ b \in Nat /\ \A i \in 1..b : u[a + i] = t[i]
  <2>1. Len(s) \in Nat /\ Len(t) \in Nat /\ \A i \in 1..Len(t) : (s \o t)[Len(s) + i] = t[i]
    BY Joined
  <2> QED BY <1>1, <2>1
<1>3. PICK base : base = RunValues(values, s)
  OBVIOUS
<1> DEFINE S == {n \in 0..b : ValueAt(values, u, k, a + n) = ValueAt(base, t, k, n)}
<1>4. 0 \in S
  <2>1. ValueAt(values, u, k, a) = ValueAt(values, s, k, a)
    BY <1>1, <1>2, a \in 0..Len(s), ValueInFirst
  <2>2. base[k] = ValueAt(values, s, k, a)
    BY <1>1, <1>3 DEF RunValues
  <2>3. ValueAt(base, t, k, 0) = base[k]
    BY ValueStep, 0 \in Nat
  <2> QED BY <1>2, <2>1, <2>2, <2>3
<1>5. ASSUME NEW n \in 0..(b - 1), n \in S PROVE n + 1 \in S
  <2>1. PICK m : m = a + n
    OBVIOUS
  <2>2. n \in Nat /\ m \in Nat /\ u[m + 1] = t[n + 1] /\ n + 1 \in 0..b /\ a + (n + 1) = m + 1
    <3>1. n + 1 \in 1..b /\ a + (n + 1) = m + 1 /\ n \in Nat /\ m \in Nat
      BY <1>2, <2>1
    <3> QED BY <1>2, <3>1
  <2>3. ValueAt(values, u, k, m) = ValueAt(base, t, k, n)
    BY <1>5, <2>1
  <2>4. ValueAt(values, u, k, m + 1) = ValueAt(base, t, k, n + 1)
    BY <2>2, <2>3, ValueStep
  <2> QED BY <2>2, <2>4
<1>6. \A n \in 0..b : n \in S
  <2> HIDE DEF S
  <2> QED BY <1>2, <1>4, <1>5, Upward
<1> QED BY <1>1, <1>3, <1>6

\* Sequences of accesses.
LEMMA OpsAre ==
    ASSUME NEW ops \in Seq(Ops)
    PROVE  /\ IsSeq(ops) /\ Len(ops) \in Nat
           /\ \A i \in 1..Len(ops) :
                ops[i].key \in Keys /\ ops[i].rw \in BOOLEAN /\ ops[i].value \in Values
<1>1. IsSeq(ops)
  BY DEF IsSeq
<1>2. \A i \in 1..Len(ops) : ops[i] \in Ops
  OBVIOUS
<1>3. \A op \in Ops : op.key \in Keys /\ op.rw \in BOOLEAN /\ op.value \in Values
  BY DEF Ops
<1> QED BY <1>1, <1>2, <1>3

\* The values of a run are values.
LEMMA RunTypes ==
    ASSUME NEW values \in [Keys -> Values], NEW ops \in Seq(Ops)
    PROVE  /\ \A n \in 0..Len(ops), k \in Keys : ValueAt(values, ops, k, n) \in Values
           /\ RunValues(values, ops) \in [Keys -> Values]
<1>1. Len(ops) \in Nat /\ \A i \in 1..Len(ops) : ops[i].value \in Values
  BY OpsAre
<1>2. ASSUME NEW n \in 0..Len(ops), NEW k \in Keys PROVE ValueAt(values, ops, k, n) \in Values
  <2>1. CASE WritesTo(ops, k, n) = {}
    BY <2>1, ValueIs
  <2>2. CASE WritesTo(ops, k, n) # {}
    <3>1. n \in Nat
      BY <1>1
    <3>2. Max(WritesTo(ops, k, n)) \in 1..n
      BY <2>2, <3>1, LastWrite
    <3>3. PICK x : x = Max(WritesTo(ops, k, n))
      OBVIOUS
    <3>4. x \in 1..Len(ops)
      BY <1>1, <3>1, <3>2, <3>3
    <3> QED BY <1>1, <2>2, <3>3, <3>4, ValueIs
  <2> QED BY <2>1, <2>2
<1>3. Len(ops) \in 0..Len(ops)
  BY <1>1
<1> QED BY <1>2, <1>3 DEF RunValues

\* The logs of a run.
LEMMA RunLogsAre ==
    ASSUME NEW values, NEW known, NEW ops, Len(ops) \in Nat
    PROVE  /\ IsSeq(RunLogs(values, known, ops))
           /\ Len(RunLogs(values, known, ops)) = Len(ops)
           /\ DOMAIN RunLogs(values, known, ops) = 1..Len(ops)
           /\ \A i \in 1..Len(ops) :
                RunLogs(values, known, ops)[i] = Access(values, known, ops, i)
<1>1. PICK n, f : n = Len(ops) /\ f = RunLogs(values, known, ops)
  OBVIOUS
<1>2. f = [i \in 1..n |-> Access(values, known, ops, i)]
  BY <1>1 DEF RunLogs
<1>3. PICK S : S = {Access(values, known, ops, i) : i \in 1..n}
  OBVIOUS
<1>4. f \in [1..n -> S] /\ DOMAIN f = 1..n /\ n \in Nat
  BY <1>1, <1>2, <1>3
<1>5. f \in Seq(S)
  BY <1>4
<1>6. Len(f) = n
  BY <1>4, <1>5
<1> QED BY <1>1, <1>2, <1>4, <1>5, <1>6 DEF IsSeq

\* Accesses with the same operation and the same value found.
LEMMA SameAccess ==
    ASSUME NEW v, NEW known, NEW s, NEW i, NEW w, NEW t, NEW j,
           s[i] = t[j], ValueAt(v, s, s[i].key, i - 1) = ValueAt(w, t, t[j].key, j - 1)
    PROVE  Access(v, known, s, i) = Access(w, known, t, j)
BY Zenon DEF Access

\* A run of two parts.
RunSplit(values, known, s, t) ==
    /\ RunValues(values, s \o t) = RunValues(RunValues(values, s), t)
    /\ RunLogs(values, known, s \o t) = RunLogs(values, known, s) \o RunLogs(RunValues(values, s), known, t)

\* Two transactions run one after the other are one run of their accesses.
LEMMA RunJoined ==
    ASSUME NEW values, NEW known, NEW s \in Seq(Ops), NEW t \in Seq(Ops)
    PROVE  RunSplit(values, known, s, t)
<1>1. IsSeq(s) /\ IsSeq(t)
  BY OpsAre
<1>2. /\ Len(s) \in Nat /\ Len(t) \in Nat
      /\ Len(s \o t) = Len(s) + Len(t)
      /\ \A i \in 1..Len(s) : (s \o t)[i] = s[i]
      /\ \A i \in 1..Len(t) : (s \o t)[Len(s) + i] = t[i]
  OBVIOUS
<1>3. PICK u, a, b, base : u = s \o t /\ a = Len(s) /\ b = Len(t) /\ base = RunValues(values, s)
  OBVIOUS
<1>4. /\ a \in Nat /\ b \in Nat /\ Len(u) = a + b /\ a = Len(s) /\ b = Len(t)
      /\ \A i \in 1..a : u[i] = s[i]
      /\ \A i \in 1..b : u[a + i] = t[i]
  BY <1>2, <1>3
<1>5. \A k \in Keys : \A n \in 0..b : ValueAt(values, u, k, a + n) = ValueAt(base, t, k, n)
  BY <1>1, <1>3, ValueInSecond
<1>6. \A k, n : n \in 0..a => ValueAt(values, u, k, n) = ValueAt(values, s, k, n)
  BY <1>1, <1>3, ValueInFirst
<1>7. RunValues(values, u) = RunValues(base, t)
  <2>1. b \in 0..b
    BY <1>4
  <2>2. \A k \in Keys : ValueAt(values, u, k, Len(u)) = ValueAt(base, t, k, Len(t))
    BY <1>4, <1>5, <2>1
  <2> QED BY <2>2, Zenon DEF RunValues
<1>8. PICK f, g, h : f = RunLogs(values, known, u) /\ g = RunLogs(values, known, s) /\ h = RunLogs(base, known, t)
  OBVIOUS
<1>9. /\ IsSeq(f) /\ Len(f) = a + b /\ \A i \in 1..(a + b) : f[i] = Access(values, known, u, i)
      /\ IsSeq(g) /\ Len(g) = a /\ \A i \in 1..a : g[i] = Access(values, known, s, i)
      /\ IsSeq(h) /\ Len(h) = b /\ \A i \in 1..b : h[i] = Access(base, known, t, i)
  <2>1. Len(u) \in Nat /\ Len(s) \in Nat /\ Len(t) \in Nat
    BY <1>4
  <2>2. IsSeq(f) /\ Len(f) = Len(u) /\ \A i \in 1..Len(u) : f[i] = Access(values, known, u, i)
    BY <1>8, <2>1, RunLogsAre
  <2>3. IsSeq(g) /\ Len(g) = Len(s) /\ \A i \in 1..Len(s) : g[i] = Access(values, known, s, i)
    BY <1>8, <2>1, RunLogsAre
  <2>4. IsSeq(h) /\ Len(h) = Len(t) /\ \A i \in 1..Len(t) : h[i] = Access(base, known, t, i)
    BY <1>8, <2>1, RunLogsAre
  <2> QED BY <1>4, <2>2, <2>3, <2>4
<1>10. f = g \o h
  <2>1. /\ IsSeq(g \o h) /\ Len(g \o h) = a + b
        /\ \A i \in 1..a : (g \o h)[i] = g[i]
        /\ \A i \in 1..b : (g \o h)[a + i] = h[i]
    <3>1. IsSeq(g) /\ IsSeq(h)
      BY <1>9
    <3>2. /\ IsSeq(g \o h) /\ Len(g \o h) = Len(g) + Len(h)
          /\ \A i \in 1..Len(g) : (g \o h)[i] = g[i]
          /\ \A i \in 1..Len(h) : (g \o h)[Len(g) + i] = h[i]
      BY <3>1, Joined
    <3> QED BY <1>9, <3>2, Zenon
  <2>2. ASSUME NEW i \in 1..a PROVE f[i] = g[i]
    <3>1. i \in 1..(a + b) /\ i - 1 \in 0..a
      BY <1>4
    <3>2. u[i] = s[i] /\ ValueAt(values, u, u[i].key, i - 1) = ValueAt(values, s, s[i].key, i - 1)
      BY <1>4, <1>6, <3>1
    <3> QED BY <1>9, <3>1, <3>2, SameAccess
  <2>3. ASSUME NEW i \in 1..b PROVE f[a + i] = h[i]
    <3>1. a + i \in 1..(a + b) /\ i - 1 \in 0..b /\ (a + i) - 1 = a + (i - 1)
      BY <1>4
    <3>2. t[i].key \in Keys /\ u[a + i] = t[i]
      BY <1>4, OpsAre
    <3>3. ValueAt(values, u, t[i].key, a + (i - 1)) = ValueAt(base, t, t[i].key, i - 1)
      BY <1>5, <3>1, <3>2
    <3>4. PICK j : j = a + i
      OBVIOUS
    <3>5. u[j] = t[i] /\ ValueAt(values, u, u[j].key, j - 1) = ValueAt(base, t, t[i].key, i - 1) /\ j \in 1..(a + b)
      BY <3>1, <3>2, <3>3, <3>4
    <3>6. Access(values, known, u, j) = Access(base, known, t, i)
      BY <3>5, SameAccess
    <3> QED BY <1>9, <3>4, <3>5, <3>6
  <2>4. \A i \in 1..(a + b) : f[i] = (g \o h)[i]
    <3> SUFFICES ASSUME NEW i \in 1..(a + b) PROVE f[i] = (g \o h)[i]
      OBVIOUS
    <3>1. CASE i \in 1..a
      BY <2>1, <2>2, <3>1
    <3>2. CASE i \notin 1..a
      <4>1. i - a \in 1..b /\ a + (i - a) = i
        BY <1>4, <3>2
      <4>2. f[a + (i - a)] = h[i - a] /\ (g \o h)[a + (i - a)] = h[i - a]
        BY <2>1, <2>3, <4>1
      <4> QED BY <4>1, <4>2
    <3> QED BY <3>1, <3>2
  <2>5. PICK w : w = g \o h
    OBVIOUS
  <2>6. IsSeq(w) /\ Len(f) = Len(w) /\ \A i \in 1..Len(f) : f[i] = w[i]
    BY <1>9, <2>1, <2>4, <2>5
  <2> QED BY <1>9, <2>5, <2>6, SameSeq
<1> QED BY <1>3, <1>7, <1>8, <1>10 DEF RunSplit

-----------------------------------------------------------------------------
(* Write logs and rows of storage_logs. *)

Zeros == [k \in Keys |-> 0]
Wrote(ops, k) == WritesTo(ops, k, Len(ops)) # {}
Own(writes, k) == {i \in DOMAIN writes : writes[i].key = k}

\* The writes of a run, as extract_write_logs takes them from its logs.
IsWrites(writes, ops) ==
    /\ DOMAIN writes = {i \in 1..Len(ops) : ops[i].rw}
    /\ \A i \in DOMAIN writes : writes[i].key = ops[i].key /\ writes[i].value = ops[i].value

\* The logs of accesses, whatever values the VM found.
LogOf(log, op) ==
    /\ log.key = op.key /\ log.rw = op.rw /\ log.rollback = FALSE
    /\ op.rw => log.written = op.value

Logged(logs, ops) ==
    /\ IsSeq(logs) /\ Len(logs) = Len(ops) /\ DOMAIN logs = 1..Len(ops)
    /\ \A i \in 1..Len(ops) : LogOf(logs[i], ops[i])

\* The logs of a run are those of its accesses.
LEMMA RunLogged ==
    ASSUME NEW values, NEW known, NEW ops \in Seq(Ops)
    PROVE  Logged(RunLogs(values, known, ops), ops)
<1>1. PICK f, n : f = RunLogs(values, known, ops) /\ n = Len(ops)
  OBVIOUS
<1>2. Len(ops) \in Nat
  BY OpsAre
<1>3. IsSeq(f) /\ Len(f) = n /\ DOMAIN f = 1..n /\ \A i \in 1..n : f[i] = Access(values, known, ops, i)
  BY <1>1, <1>2, RunLogsAre, Zenon
<1>4. \A i \in 1..n : LogOf(Access(values, known, ops, i), ops[i])
  BY DEF Access, LogOf
<1> QED BY <1>1, <1>3, <1>4 DEF Logged

\* Two runs with anything in between.
LEMMA LoggedJoined ==
    ASSUME NEW s \in Seq(Ops), NEW t \in Seq(Ops), NEW f, NEW g, Logged(f, s), Logged(g, t)
    PROVE  Logged(f \o g, s \o t)
<1>1. PICK a, b, u, h : a = Len(s) /\ b = Len(t) /\ u = s \o t /\ h = f \o g
  OBVIOUS
<1>2. IsSeq(s) /\ IsSeq(t) /\ IsSeq(f) /\ IsSeq(g) /\ Len(f) = a /\ Len(g) = b
  BY <1>1, OpsAre DEF Logged
<1>3. /\ a \in Nat /\ b \in Nat /\ Len(u) = a + b
      /\ \A i \in 1..a : u[i] = s[i]
      /\ \A i \in 1..b : u[a + i] = t[i]
  <2>1. /\ Len(s) \in Nat /\ Len(t) \in Nat /\ Len(s \o t) = Len(s) + Len(t)
        /\ \A i \in 1..Len(s) : (s \o t)[i] = s[i]
        /\ \A i \in 1..Len(t) : (s \o t)[Len(s) + i] = t[i]
    BY <1>2, Joined
  <2> QED BY <1>1, <2>1
<1>4. /\ IsSeq(h) /\ Len(h) = a + b /\ DOMAIN h = 1..(a + b)
      /\ \A i \in 1..a : h[i] = f[i]
      /\ \A i \in 1..b : h[a + i] = g[i]
  <2>0. IsSeq(f) /\ IsSeq(g)
    BY <1>2
  <2>1. /\ IsSeq(f \o g) /\ Len(f \o g) = Len(f) + Len(g) /\ DOMAIN (f \o g) = 1..(Len(f) + Len(g))
        /\ \A i \in 1..Len(f) : (f \o g)[i] = f[i]
        /\ \A i \in 1..Len(g) : (f \o g)[Len(f) + i] = g[i]
    BY <2>0, Joined
  <2> QED BY <1>1, <1>2, <2>1
<1>5. (\A i \in 1..a : LogOf(f[i], s[i])) /\ (\A i \in 1..b : LogOf(g[i], t[i]))
  BY <1>1, Zenon DEF Logged
<1>6. ASSUME NEW i \in 1..(a + b) PROVE LogOf(h[i], u[i])
  <2>1. CASE i \in 1..a
    <3>1. h[i] = f[i] /\ u[i] = s[i]
      BY <1>3, <1>4, <2>1
    <3> QED BY <1>5, <2>1, <3>1
  <2>2. CASE i \notin 1..a
    <3>1. PICK j : j = i - a
      OBVIOUS
    <3>2. j \in 1..b /\ i = a + j
      BY <1>3, <2>2, <3>1
    <3>3. h[i] = g[j] /\ u[i] = t[j]
      BY <1>3, <1>4, <3>2
    <3> QED BY <1>5, <3>2, <3>3
  <2> QED BY <2>1, <2>2
<1>7. Logged(h, u)
  BY <1>3, <1>4, <1>6 DEF Logged
<1> QED BY <1>1, <1>7

\* What is extracted from such logs are the writes.
LEMMA LoggedWrites ==
    ASSUME NEW logs, NEW ops, Logged(logs, ops)
    PROVE  IsWrites(WriteLogs(logs), ops)
BY DEF Logged, LogOf, IsWrites, WriteLogs

\* What is extracted from the logs of a run are the writes of the run.
LEMMA Extracted ==
    ASSUME NEW values, NEW known, NEW ops \in Seq(Ops)
    PROVE  IsWrites(WriteLogs(RunLogs(values, known, ops)), ops)
BY RunLogged, LoggedWrites

\* The writes to a slot that extract_write_logs finds are those of the run.
LEMMA OwnWrites ==
    ASSUME NEW writes, NEW ops, IsWrites(writes, ops), NEW k
    PROVE  Own(writes, k) = WritesTo(ops, k, Len(ops))
BY DEF Own, IsWrites, WritesTo

\* Where a run writes, the value does not depend on what was there.
LEMMA WroteValue ==
    ASSUME NEW ops, NEW k, Wrote(ops, k), NEW v, NEW w
    PROVE  ValueAt(v, ops, k, Len(ops)) = ValueAt(w, ops, k, Len(ops))
BY ValueIs DEF Wrote

\* A run leaves a slot that it does not write to.
LEMMA NotWroteValue ==
    ASSUME NEW ops, NEW k, ~ Wrote(ops, k), NEW v
    PROVE  ValueAt(v, ops, k, Len(ops)) = v[k]
BY ValueIs DEF Wrote

\* Table storage after the writes of a run.
LEMMA Applied ==
    ASSUME NEW ops \in Seq(Ops), NEW writes, IsWrites(writes, ops)
    PROVE  ApplyStorageLogs(writes) = RunValues(storage, ops)
<1>1. Len(ops) \in Nat
  BY OpsAre
<1>2. ASSUME NEW k \in Keys
      PROVE  (IF Own(writes, k) = {} THEN storage[k] ELSE writes[Max(Own(writes, k))].value)
               = ValueAt(storage, ops, k, Len(ops))
  <2>1. PICK S : S = Own(writes, k) /\ S = WritesTo(ops, k, Len(ops))
    BY OwnWrites
  <2>2. CASE S = {}
    <3>1. ValueAt(storage, ops, k, Len(ops)) = storage[k]
      BY <2>1, <2>2, NotWroteValue DEF Wrote
    <3> QED BY <2>1, <2>2, <3>1
  <2>3. CASE S # {}
    <3>1. Max(S) \in S
      BY <1>1, <2>1, <2>3, LastWrite
    <3>2. writes[Max(S)].value = ops[Max(S)].value
      BY <2>1, <3>1 DEF Own, IsWrites
    <3> QED BY <2>1, <2>3, <3>2, ValueIs
  <2> QED BY <2>2, <2>3
<1> QED BY <1>2, Zenon DEF ApplyStorageLogs, RunValues, Own

RowsOk(rows) ==
    \A r \in rows : /\ r.miniblock \in Nat /\ r.operation \in Nat
                    /\ r.key \in Keys /\ r.value \in Values

\* Row r is the last one of slot k.
Newest(rows, k, r) ==
    /\ r \in rows /\ r.key = k
    /\ \A q \in rows : q.key = k /\ q # r => Later(r, q)

\* The value of a slot that has a last row, and of one that has none.
LEMMA LatestValue ==
    ASSUME NEW rows, RowsOk(rows), NEW base, NEW k \in Keys, NEW r, Newest(rows, k, r)
    PROVE  LatestOr(rows, base)[k] = r.value
<1> DEFINE own == {q \in rows : q.key = k}
<1>1. r \in own /\ \A q \in own : ~ Later(q, r)
  BY DEF Newest, Later, RowsOk
<1>2. \A p \in own : (\A q \in own : ~ Later(q, p)) => p = r
  BY DEF Newest
<1>3. (CHOOSE p \in own : \A q \in own : ~ Later(q, p)) = r
  BY <1>1, <1>2, Zenon
<1>4. LatestOf(rows, k, base[k]) =
        IF own = {} THEN base[k] ELSE (CHOOSE p \in own : \A q \in own : ~ Later(q, p)).value
  BY Zenon DEF LatestOf
<1>5. LatestOr(rows, base)[k] = LatestOf(rows, k, base[k])
  BY DEF LatestOr
<1> QED BY <1>1, <1>3, <1>4, <1>5

\* Without a row of storage_logs a slot has its earlier value.
LEMMA LatestBase ==
    ASSUME NEW rows, NEW base, NEW k \in Keys, \A q \in rows : q.key # k
    PROVE  LatestOr(rows, base)[k] = base[k]
<1>1. {q \in rows : q.key = k} = {}
  OBVIOUS
<1> QED BY <1>1, Zenon DEF LatestOr, LatestOf

\* The rows are those of the writes of a run.
Carries(rows, ops) ==
    \A k \in Keys :
      /\ ~ Wrote(ops, k) => \A q \in rows : q.key # k
      /\ Wrote(ops, k) => \E r : Newest(rows, k, r) /\ r.value = ValueAt(Zeros, ops, k, Len(ops))

\* What such rows do to the values.
LEMMA CarriedValues ==
    ASSUME NEW rows, RowsOk(rows), NEW ops, Carries(rows, ops), NEW base
    PROVE  LatestOr(rows, base) = RunValues(base, ops)
<1>1. ASSUME NEW k \in Keys PROVE LatestOr(rows, base)[k] = ValueAt(base, ops, k, Len(ops))
  <2>1. CASE Wrote(ops, k)
    <3>1. PICK r : Newest(rows, k, r) /\ r.value = ValueAt(Zeros, ops, k, Len(ops))
      BY <2>1 DEF Carries
    <3>2. LatestOr(rows, base)[k] = r.value
      BY <3>1, LatestValue
    <3>3. ValueAt(Zeros, ops, k, Len(ops)) = ValueAt(base, ops, k, Len(ops))
      BY <2>1, WroteValue
    <3> QED BY <3>1, <3>2, <3>3
  <2>2. CASE ~ Wrote(ops, k)
    <3>1. \A q \in rows : q.key # k
      BY <2>2 DEF Carries
    <3> QED BY <2>2, <3>1, LatestBase, NotWroteValue
  <2> QED BY <2>1, <2>2
<1>2. LatestOr(rows, base) = [k \in Keys |-> LatestOr(rows, base)[k]]
  BY Zenon DEF LatestOr
<1> QED BY <1>1, <1>2, Zenon DEF RunValues

-----------------------------------------------------------------------------
(* Numbering the members of a set of numbers. *)

Before(N, j) == {i \in N : i < j}
Ranks(N) == {Cardinality(Before(N, j)) : j \in N}

\* The members of a finite set are numbered from 0 without gaps.
LEMMA RanksAre ==
    ASSUME NEW n \in Nat, NEW N \in SUBSET (1..n)
    PROVE  /\ IsFiniteSet(N) /\ Cardinality(N) \in Nat
           /\ Ranks(N) = 0..(Cardinality(N) - 1)
<1> DEFINE Upto(m) == {i \in N : i <= m}
           Good(M) == IsFiniteSet(M) /\ Cardinality(M) \in Nat /\ Ranks(M) = 0..(Cardinality(M) - 1)
           S == {m \in 0..n : Good(Upto(m))}
<1>0. \A i \in N : i \in Int /\ 1 <= i /\ i <= n
  OBVIOUS
<1>1. 0 \in S
  <2>1. Upto(0) = {}
    <3> HIDE DEF Good, S
    <3>1. \A i \in N : ~ (i <= 0)
      BY <1>0
    <3> QED BY <3>1
  <2>2. Good({})
    BY FS_EmptySet DEF Ranks
  <2> HIDE DEF Upto, Good
  <2> QED BY <2>1, <2>2
<1>2. ASSUME NEW m \in 0..(n - 1), m \in S PROVE m + 1 \in S
  <2>1. PICK M, q : M = Upto(m) /\ q = m + 1
    OBVIOUS
  <2>2. Good(M)
    BY <1>2, <2>1
  <2>3. CASE q \notin N
    <3>1. Upto(q) = M
      <4> HIDE DEF Good, S
      <4>1. \A i \in N : i <= q <=> i <= m
        BY <1>0, <2>1, <2>3
      <4> QED BY <2>1, <4>1
    <3>2. q \in 0..n
      BY <2>1
    <3> HIDE DEF Upto, Good
    <3> QED BY <2>1, <2>2, <3>1, <3>2
  <2>4. CASE q \in N
    <3>1. Upto(q) = M \cup {q} /\ q \notin M /\ q \in 0..n /\ \A i \in M : i \in Int /\ i < q
      <4> HIDE DEF Good, S
      <4>1. \A i \in N : i <= q <=> i <= m \/ i = q
        BY <1>0, <2>1, <2>4
      <4>2. q \in 0..n /\ ~ (q <= m) /\ \A i \in N : i <= m => i \in Int /\ i < q
        BY <1>0, <2>1, <2>4
      <4> QED BY <2>1, <2>4, <4>1, <4>2
    <3>2. PICK T, c : T = M \cup {q} /\ c = Cardinality(M)
      OBVIOUS
    <3>3. IsFiniteSet(T) /\ Cardinality(T) = c + 1 /\ c \in Nat
      BY <2>2, <3>1, <3>2, FS_AddElement
    <3>4. Before(T, q) = M
      <4>1. q \in Int
        BY <2>1
      <4> HIDE DEF Good
      <4> QED BY <3>1, <3>2, <4>1 DEF Before
    <3>5. \A j \in M : Before(T, j) = Before(M, j)
      <4>1. q \in Int
        BY <2>1
      <4> HIDE DEF Good
      <4> QED BY <3>1, <3>2, <4>1 DEF Before
    <3>6. Ranks(T) = Ranks(M) \cup {c}
      BY <3>2, <3>4, <3>5 DEF Ranks
    <3>7. Ranks(T) = 0..c
      <4>1. Ranks(M) = 0..(c - 1)
        BY <2>2, <3>2
      <4> QED BY <3>3, <3>6, <4>1
    <3>8. Good(T)
      BY <3>3, <3>7
    <3> HIDE DEF Upto, Good
    <3> QED BY <2>1, <3>1, <3>2, <3>8
  <2> QED BY <2>3, <2>4
<1>3. n \in S
  <2> HIDE DEF S
  <2>1. \A m \in 0..n : m \in S
    BY <1>1, <1>2, Upward
  <2> QED BY <2>1
<1>4. Upto(n) = N
  BY <1>0
<1> QED BY <1>3, <1>4

\* Larger members have larger numbers.
LEMMA RanksGrow ==
    ASSUME NEW n \in Nat, NEW N \in SUBSET (1..n), NEW i \in N, NEW j \in N, i < j
    PROVE  /\ Cardinality(Before(N, i)) \in Nat /\ Cardinality(Before(N, j)) \in Nat
           /\ Cardinality(Before(N, i)) < Cardinality(Before(N, j))
<1>1. IsFiniteSet(1..n)
  BY FS_Interval
<1>2. Before(N, i) \in SUBSET (1..n) /\ Before(N, j) \in SUBSET (1..n)
  BY DEF Before
<1>3. PICK I, J : I = Before(N, i) /\ J = Before(N, j)
  OBVIOUS
<1>4. IsFiniteSet(I) /\ IsFiniteSet(J)
  <2>1. I \in SUBSET (1..n) /\ J \in SUBSET (1..n)
    BY <1>2, <1>3
  <2> QED BY <1>1, <2>1, FS_Subset
<1>5. Cardinality(I) \in Nat /\ Cardinality(J) \in Nat
  BY <1>4, FS_CardinalityType
<1>6. I \in SUBSET J /\ i \in J /\ i \notin I
  <2>1. \A x \in N : x \in Int
    OBVIOUS
  <2>2. \A x \in N : x < i => x < j
    BY <2>1
  <2>3. ~ (i < i)
    BY <2>1
  <2>4. Before(N, i) \subseteq Before(N, j) /\ i \in Before(N, j) /\ i \notin Before(N, i)
    BY <2>2, <2>3, Zenon DEF Before
  <2> QED BY <1>3, <2>4
<1>7. Cardinality(I) <= Cardinality(J) /\ Cardinality(J) # Cardinality(I)
  BY <1>4, <1>6, FS_Subset
<1> QED BY <1>3, <1>5, <1>7

-----------------------------------------------------------------------------
(* The rows of a miniblock. *)

NewRow(m, writes, i) ==
    [miniblock |-> m, operation |-> Cardinality(Before(DOMAIN writes, i)),
     key |-> writes[i].key, value |-> writes[i].value]

\* The rows that insert_storage_logs adds, one for each write.
LEMMA NewRowsAre ==
    ASSUME NEW m, NEW writes
    PROVE  LogRows(m, writes) = {NewRow(m, writes, i) : i \in DOMAIN writes}
BY Zenon DEF LogRows, NewRow, Before

\* The columns of such a row.
LEMMA NewRowIs ==
    ASSUME NEW m, NEW writes, NEW i
    PROVE  /\ NewRow(m, writes, i).miniblock = m
           /\ NewRow(m, writes, i).operation = Cardinality(Before(DOMAIN writes, i))
           /\ NewRow(m, writes, i).key = writes[i].key
           /\ NewRow(m, writes, i).value = writes[i].value
BY DEF NewRow

\* The new rows are well formed, and they are those of the run.
LEMMA NewRowsCarry ==
    ASSUME NEW m \in Nat, NEW ops \in Seq(Ops), NEW writes, IsWrites(writes, ops)
    PROVE  /\ RowsOk(LogRows(m, writes))
           /\ \A r \in LogRows(m, writes) : r.miniblock = m
           /\ Carries(LogRows(m, writes), ops)
<1>1. PICK n, N, rows : n = Len(ops) /\ N = DOMAIN writes /\ rows = LogRows(m, writes)
  OBVIOUS
<1>2. /\ n \in Nat /\ N \in SUBSET (1..n)
      /\ \A i \in N : /\ writes[i].key = ops[i].key /\ writes[i].value = ops[i].value
                      /\ ops[i].key \in Keys /\ ops[i].value \in Values /\ ops[i].rw
  <2>1. n \in Nat /\ \A i \in 1..n : ops[i].key \in Keys /\ ops[i].value \in Values
    BY <1>1, OpsAre
  <2> QED BY <1>1, <2>1 DEF IsWrites
<1>3. rows = {NewRow(m, writes, i) : i \in N}
  BY <1>1, NewRowsAre
<1>4. ASSUME NEW i \in N PROVE Cardinality(Before(N, i)) \in Nat
  <2>1. IsFiniteSet(1..n)
    BY <1>2, FS_Interval
  <2>2. PICK I : I = Before(N, i)
    OBVIOUS
  <2>3. I \in SUBSET (1..n)
    BY <1>2, <2>2 DEF Before
  <2>4. IsFiniteSet(I)
    BY <2>1, <2>3, FS_Subset
  <2> QED BY <2>2, <2>4, FS_CardinalityType
<1>5. ASSUME NEW r \in rows
      PROVE  r.miniblock = m /\ r.miniblock \in Nat /\ r.operation \in Nat /\ r.key \in Keys /\ r.value \in Values
  <2>1. PICK i \in N : r = NewRow(m, writes, i)
    BY <1>3
  <2>2. r.miniblock = m /\ r.operation = Cardinality(Before(N, i)) /\ r.key = writes[i].key /\ r.value = writes[i].value
    BY <1>1, <2>1, NewRowIs
  <2> QED BY <1>2, <1>4, <2>2
<1>6. ASSUME NEW k \in Keys, ~ Wrote(ops, k), NEW q \in rows PROVE q.key # k
  <2>1. PICK i \in N : q = NewRow(m, writes, i)
    BY <1>3
  <2>2. q.key = ops[i].key /\ i \in 1..n /\ ops[i].rw
    BY <1>2, <2>1, NewRowIs
  <2>3. i \notin WritesTo(ops, k, n)
    BY <1>1, <1>6 DEF Wrote
  <2> QED BY <2>2, <2>3 DEF WritesTo
<1>7. ASSUME NEW k \in Keys, Wrote(ops, k)
      PROVE  \E r : Newest(rows, k, r) /\ r.value = ValueAt(Zeros, ops, k, Len(ops))
  <2>1. PICK S, x : S = WritesTo(ops, k, n) /\ x = Max(S)
    OBVIOUS
  <2>2. S # {}
    BY <1>1, <1>7, <2>1 DEF Wrote
  <2>3. x \in S /\ \A i \in S : i <= x
    BY <1>2, <2>1, <2>2, LastWrite
  <2>4. x \in 1..n /\ ops[x].rw /\ ops[x].key = k
    BY <2>1, <2>3 DEF WritesTo
  <2>5. x \in N
    BY <1>1, <2>4 DEF IsWrites
  <2>6. PICK r : r = NewRow(m, writes, x)
    OBVIOUS
  <2>7. r \in rows /\ r.miniblock = m /\ r.operation = Cardinality(Before(N, x)) /\ r.key = k /\ r.value = ops[x].value
    <3>1. r.miniblock = m /\ r.operation = Cardinality(Before(N, x)) /\ r.key = writes[x].key /\ r.value = writes[x].value
      BY <1>1, <2>6, NewRowIs
    <3>2. r \in rows
      BY <1>3, <2>5, <2>6
    <3> QED BY <1>2, <2>4, <2>5, <3>1, <3>2
  <2>8. ASSUME NEW q \in rows, q.key = k, q # r PROVE Later(r, q)
    <3>1. PICK i \in N : q = NewRow(m, writes, i)
      BY <1>3
    <3>2. q.miniblock = m /\ q.operation = Cardinality(Before(N, i)) /\ q.key = writes[i].key
      BY <1>1, <3>1, NewRowIs
    <3>3. i \in S
      BY <1>2, <2>1, <2>8, <3>2 DEF WritesTo
    <3>4. i < x
      <4>1. i # x
        BY <2>6, <2>8, <3>1
      <4>2. i \in Nat /\ x \in Nat /\ i <= x
        BY <1>2, <2>3, <2>4, <3>3
      <4> QED BY <4>1, <4>2
    <3>5. Cardinality(Before(N, i)) < Cardinality(Before(N, x))
      BY <1>2, <2>5, <3>4, RanksGrow
    <3>6. Cardinality(Before(N, i)) \in Nat /\ Cardinality(Before(N, x)) \in Nat
      BY <1>4, <2>5
    <3> QED BY <2>7, <3>2, <3>5, <3>6 DEF Later
  <2>9. ValueAt(Zeros, ops, k, Len(ops)) = ops[x].value
    BY <1>1, <2>1, <2>2, ValueIs
  <2> QED BY <2>7, <2>8, <2>9 DEF Newest
<1>8. RowsOk(rows)
  BY <1>5 DEF RowsOk
<1>9. Carries(rows, ops)
  BY <1>6, <1>7 DEF Carries
<1> QED BY <1>1, <1>5, <1>8, <1>9

\* Where two runs after each other write.
LEMMA WroteJoined ==
    ASSUME NEW s \in Seq(Ops), NEW t \in Seq(Ops), NEW k
    PROVE  Wrote(s \o t, k) <=> Wrote(s, k) \/ Wrote(t, k)
<1>1. PICK u, a, b : u = s \o t /\ a = Len(s) /\ b = Len(t)
  OBVIOUS
<1>2. /\ a \in Nat /\ b \in Nat /\ Len(u) = a + b
      /\ \A i \in 1..a : u[i] = s[i]
      /\ \A i \in 1..b : u[a + i] = t[i]
  BY <1>1
<1>3. ASSUME NEW i \in WritesTo(s, k, a) PROVE i \in WritesTo(u, k, a + b)
  BY <1>2, <1>3 DEF WritesTo
<1>4. ASSUME NEW i \in WritesTo(t, k, b) PROVE a + i \in WritesTo(u, k, a + b)
  BY <1>2, <1>4 DEF WritesTo
<1>5. ASSUME NEW i \in WritesTo(u, k, a + b) PROVE i \in WritesTo(s, k, a) \/ i - a \in WritesTo(t, k, b)
  <2>1. CASE i \in 1..a
    BY <1>2, <1>5, <2>1 DEF WritesTo
  <2>2. CASE i \notin 1..a
    <3>1. i - a \in 1..b /\ a + (i - a) = i
      BY <1>2, <2>2 DEF WritesTo
    <3>2. u[a + (i - a)] = t[i - a]
      BY <1>2, <3>1
    <3>3. u[i].rw /\ u[i].key = k
      BY <1>5 DEF WritesTo
    <3> QED BY <3>1, <3>2, <3>3 DEF WritesTo
  <2> QED BY <2>1, <2>2
<1> QED BY <1>1, <1>2, <1>3, <1>4, <1>5 DEF Wrote

\* Rows of two runs, the second one's after the first one's.
LEMMA CarriesJoined ==
    ASSUME NEW A, NEW B, NEW s \in Seq(Ops), NEW t \in Seq(Ops), Carries(A, s), Carries(B, t),
           \A p \in A, q \in B : Later(q, p)
    PROVE  Carries(A \cup B, s \o t)
<1>1. PICK u, a, b : u = s \o t /\ a = Len(s) /\ b = Len(t)
  OBVIOUS
<1>2. a \in Nat /\ b \in Nat /\ Len(u) = a + b /\ b \in 0..b
  BY <1>1
<1>3. IsSeq(s) /\ IsSeq(t)
  BY OpsAre
<1>4. ASSUME NEW k \in Keys, ~ Wrote(u, k), NEW q \in A \cup B PROVE q.key # k
  <2>1. ~ Wrote(s, k) /\ ~ Wrote(t, k)
    BY <1>1, <1>4, WroteJoined
  <2> QED BY <1>4, <2>1 DEF Carries
<1>5. ASSUME NEW k \in Keys, Wrote(u, k)
      PROVE  \E r : Newest(A \cup B, k, r) /\ r.value = ValueAt(Zeros, u, k, Len(u))
  <2>1. ValueAt(Zeros, u, k, a + b) = ValueAt(RunValues(Zeros, s), t, k, b)
    <3>1. \A n \in 0..Len(t) : ValueAt(Zeros, s \o t, k, Len(s) + n) = ValueAt(RunValues(Zeros, s), t, k, n)
      BY <1>3, ValueInSecond
    <3> QED BY <1>1, <1>2, <3>1
  <2>2. CASE Wrote(t, k)
    <3>1. PICK r : Newest(B, k, r) /\ r.value = ValueAt(Zeros, t, k, Len(t))
      BY <2>2 DEF Carries
    <3>2. Newest(A \cup B, k, r)
      BY <3>1 DEF Newest
    <3>3. ValueAt(RunValues(Zeros, s), t, k, Len(t)) = ValueAt(Zeros, t, k, Len(t))
      BY <2>2, WroteValue
    <3> QED BY <1>1, <1>2, <2>1, <3>1, <3>2, <3>3
  <2>3. CASE ~ Wrote(t, k)
    <3>1. Wrote(s, k)
      BY <1>1, <1>5, <2>3, WroteJoined
    <3>2. PICK r : Newest(A, k, r) /\ r.value = ValueAt(Zeros, s, k, Len(s))
      BY <3>1 DEF Carries
    <3>3. \A q \in B : q.key # k
      BY <2>3 DEF Carries
    <3>4. Newest(A \cup B, k, r)
      BY <3>2, <3>3 DEF Newest
    <3>5. ValueAt(RunValues(Zeros, s), t, k, Len(t)) = RunValues(Zeros, s)[k]
      BY <2>3, NotWroteValue
    <3>6. RunValues(Zeros, s)[k] = ValueAt(Zeros, s, k, Len(s))
      BY DEF RunValues
    <3> QED BY <1>1, <1>2, <2>1, <3>2, <3>4, <3>5, <3>6
  <2> QED BY <2>2, <2>3
<1>6. Carries(A \cup B, u)
  BY <1>4, <1>5 DEF Carries
<1> QED BY <1>1, <1>6

\* Every slot with a row has a last one.
HasNewest(rows) ==
    \A k \in Keys : (\E q \in rows : q.key = k) => \E r : Newest(rows, k, r)

\* Of the rows that carry a run each slot has a newest one.
LEMMA CarriesNewest ==
    ASSUME NEW rows, NEW ops, Carries(rows, ops)
    PROVE  HasNewest(rows)
BY DEF Carries, HasNewest

LatestIn(own, default) ==
    IF own = {} THEN default ELSE (CHOOSE r \in own : \A q \in own : ~ Later(q, r)).value

\* Rows on top of earlier ones.
LEMMA LatestOver ==
    ASSUME NEW A, NEW B, RowsOk(A), RowsOk(B), HasNewest(B), NEW base,
           \A p \in A, q \in B : Later(q, p)
    PROVE  LatestOr(A \cup B, base) = LatestOr(B, LatestOr(A, base))
<1>1. PICK low : low = LatestOr(A, base)
  OBVIOUS
<1>2. ASSUME NEW k \in Keys PROVE LatestOr(A \cup B, base)[k] = LatestOr(B, low)[k]
  <2>1. CASE \E q \in B : q.key = k
    <3>1. PICK r : Newest(B, k, r)
      BY <2>1 DEF HasNewest
    <3>2. Newest(A \cup B, k, r) /\ RowsOk(A \cup B)
      BY <3>1 DEF Newest, RowsOk
    <3> QED BY <3>1, <3>2, LatestValue
  <2>2. CASE \A q \in B : q.key # k
    <3>1. LatestOr(B, low)[k] = low[k]
      BY <2>2, LatestBase
    <3>2. {q \in A \cup B : q.key = k} = {q \in A : q.key = k}
      BY <2>2
    <3>3. LatestOf(A \cup B, k, base[k]) = LatestOf(A, k, base[k])
      <4>1. \A rows : LatestOf(rows, k, base[k]) = LatestIn({q \in rows : q.key = k}, base[k])
        BY Zenon DEF LatestOf, LatestIn
      <4> QED BY <3>2, <4>1
    <3>4. LatestOr(A \cup B, base)[k] = low[k]
      BY <1>1, <3>3, Zenon DEF LatestOr
    <3> QED BY <3>1, <3>4
  <2> QED BY <2>1, <2>2
<1>3. LatestOr(A \cup B, base) = [k \in Keys |-> LatestOr(A \cup B, base)[k]]
  BY Zenon DEF LatestOr
<1>4. LatestOr(B, low) = [k \in Keys |-> LatestOr(B, low)[k]]
  BY Zenon DEF LatestOr
<1> QED BY <1>1, <1>2, <1>3, <1>4, Zenon

\* The values of well-formed rows.
LEMMA LatestTypes ==
    ASSUME NEW rows, RowsOk(rows), HasNewest(rows), NEW base, NEW T, base \in [Keys -> T], Values \subseteq T
    PROVE  /\ LatestOr(rows, base) \in [Keys -> T]
           /\ \A k \in Keys : (\A q \in rows : q.key # k) \/ LatestOr(rows, base)[k] \in Values
<1>1. ASSUME NEW k \in Keys
      PROVE  /\ LatestOr(rows, base)[k] \in T
             /\ (\A q \in rows : q.key # k) \/ LatestOr(rows, base)[k] \in Values
  <2>1. CASE \E q \in rows : q.key = k
    <3>1. PICK r : Newest(rows, k, r)
      BY <2>1 DEF HasNewest
    <3>2. LatestOr(rows, base)[k] = r.value
      BY <3>1, LatestValue
    <3>3. r.value \in Values
      BY <3>1 DEF Newest, RowsOk
    <3> QED BY <3>2, <3>3
  <2>2. CASE \A q \in rows : q.key # k
    BY <2>2, LatestBase
  <2> QED BY <2>1, <2>2
<1>2. LatestOr(rows, base) = [k \in Keys |-> LatestOr(rows, base)[k]]
  BY Zenon DEF LatestOr
<1> QED BY <1>1, <1>2, Zenon

-----------------------------------------------------------------------------
(* The deduplication of a whole batch, slot by slot. *)

SlotNext(logs, k, n, h) == IF logs[n].key = k THEN SlotStep(h, logs[n]) ELSE h
SlotRows(logs, k, f, N) == [n \in 0..N |-> IF n = 0 THEN NewSlot ELSE SlotNext(logs, k, n, f[n - 1])]

\* The recursion has a solution.
LEMMA SlotExists ==
    ASSUME NEW logs, NEW k, NEW N \in Nat
    PROVE  \E f : f = SlotRows(logs, k, f, N)
<1> DEFINE S == {n \in 0..N : \E f : f = SlotRows(logs, k, f, n)}
<1>1. 0 \in S
  <2> DEFINE f == [n \in 0..0 |-> NewSlot]
  <2>1. \A n \in 0..0 : n = 0
    OBVIOUS
  <2>2. f = SlotRows(logs, k, f, 0)
    BY <2>1, Zenon DEF SlotRows
  <2> QED BY <2>2
<1>2. ASSUME NEW n \in 0..(N - 1), n \in S PROVE n + 1 \in S
  <2>1. PICK f : f = SlotRows(logs, k, f, n)
    BY <1>2
  <2> DEFINE g == SlotRows(logs, k, f, n + 1)
  <2>2. \A i \in 0..n : g[i] = f[i]
    <3>1. \A i \in 0..n : f[i] = SlotRows(logs, k, f, n)[i]
      BY <2>1, Zenon
    <3>2. \A i \in 0..n : i \in 0..(n + 1)
      OBVIOUS
    <3> QED BY <3>1, <3>2, Zenon DEF SlotRows
  <2>3. g = SlotRows(logs, k, g, n + 1)
    <3>1. \A i \in 0..(n + 1) : i # 0 => g[i - 1] = f[i - 1]
      <4> HIDE DEF g
      <4> QED BY <2>2
    <3> QED BY <3>1, Zenon DEF SlotRows
  <2> QED BY <2>3
<1>3. N \in S
  <2> HIDE DEF S
  <2> QED BY <1>1, <1>2, Upward
<1> QED BY <1>3

\* SlotHistory, access by access.
LEMMA SlotsAre ==
    ASSUME NEW logs, NEW k, Len(logs) \in Nat
    PROVE  \E h : /\ h[0] = NewSlot
                  /\ \A n \in 1..Len(logs) : h[n] = SlotNext(logs, k, n, h[n - 1])
                  /\ SlotHistory(logs, k) = h[Len(logs)]
<1>1. PICK N : N = Len(logs)
  OBVIOUS
<1>2. \E f : f = SlotRows(logs, k, f, N)
  BY <1>1, SlotExists
<1> DEFINE s == CHOOSE f : f = SlotRows(logs, k, f, N)
<1>3. s = SlotRows(logs, k, s, N)
  BY <1>2, Zenon
<1>4. SlotHistory(logs, k) = s[N]
  BY <1>1, Zenon DEF SlotHistory, SlotRows, SlotNext
<1> HIDE DEF s
<1>5. \A n \in 0..N : s[n] = SlotRows(logs, k, s, N)[n]
  BY <1>3, Zenon
<1>6. \A n \in 0..N : s[n] = IF n = 0 THEN NewSlot ELSE SlotNext(logs, k, n, s[n - 1])
  BY <1>5, Zenon DEF SlotRows
<1>7. 0 \in 0..N /\ \A n \in 1..N : n \in 0..N /\ n # 0
  BY <1>1
<1> QED BY <1>1, <1>4, <1>6, <1>7, Zenon

\* An access that is no rollback.
LEMMA StepIs ==
    ASSUME NEW h, NEW log, ~ log.rollback, h.sound,
           h.current = None \/ log.read = h.current
    PROVE  /\ SlotStep(h, log).sound
           /\ SlotStep(h, log).initial = IF h.initial = None THEN log.read ELSE h.initial
           /\ log.rw => SlotStep(h, log).current = log.written
           /\ ~ log.rw => SlotStep(h, log).current = log.read
BY Zenon DEF SlotStep

\* The history of a slot in the logs of a run: no assertion fails, and it has
\* the values of the slot before and after the run.
LEMMA SlotHistoryIs ==
    ASSUME NEW base \in [Keys -> Values], NEW known, NEW ops \in Seq(Ops), NEW k \in Keys
    PROVE  LET logs == RunLogs(base, known, ops)
           IN  /\ SlotHistory(logs, k).sound
               /\ k \in Accessed(logs) => /\ SlotHistory(logs, k).initial = base[k]
                                          /\ SlotHistory(logs, k).current = RunValues(base, ops)[k]
<1>1. PICK logs, N : logs = RunLogs(base, known, ops) /\ N = Len(ops)
  OBVIOUS
<1>2. N \in Nat /\ \A i \in 1..N : ops[i].key \in Keys /\ ops[i].rw \in BOOLEAN /\ ops[i].value \in Values
  BY <1>1, OpsAre
<1>3. Len(logs) = N /\ DOMAIN logs = 1..N /\ \A i \in 1..N : logs[i] = Access(base, known, ops, i)
  BY <1>1, <1>2, RunLogsAre
<1>4. PICK h : /\ h[0] = NewSlot
               /\ \A n \in 1..N : h[n] = SlotNext(logs, k, n, h[n - 1])
               /\ SlotHistory(logs, k) = h[N]
  BY <1>2, <1>3, SlotsAre
<1>5. \A n \in 0..N : ValueAt(base, ops, k, n) \in Values
  BY <1>1, RunTypes
<1>6. base[k] \in Values /\ \A v \in Values : v # None
  BY StorageAssumption DEF None
<1> DEFINE Untouched(n) == /\ h[n].initial = None /\ h[n].current = None
                           /\ \A i \in 1..n : ops[i].key # k
                           /\ ValueAt(base, ops, k, n) = base[k]
           Touched(n) == h[n].initial = base[k] /\ h[n].current = ValueAt(base, ops, k, n)
           S == {n \in 0..N : h[n].sound /\ (Untouched(n) \/ Touched(n))}
<1>7. 0 \in S
  <2>1. h[0].sound /\ h[0].initial = None /\ h[0].current = None
    BY <1>4 DEF NewSlot
  <2>2. ValueAt(base, ops, k, 0) = base[k]
    BY ValueStep, 0 \in Nat
  <2> QED BY <1>2, <2>1, <2>2
<1>8. ASSUME NEW n \in 0..(N - 1), n \in S PROVE n + 1 \in S
  <2>1. PICK m, log, op : m = n + 1 /\ log = logs[m] /\ op = ops[m]
    OBVIOUS
  <2>2. m \in 1..N /\ m \in 0..N /\ m - 1 = n /\ n \in Nat /\ \A i \in 1..m : i = m \/ i \in 1..n
    BY <1>2, <2>1
  <2>3. h[m] = SlotNext(logs, k, m, h[n])
    BY <1>4, <2>2
  <2>4. log = Access(base, known, ops, m)
    BY <1>3, <2>1, <2>2
  <2>5. /\ log.key = op.key /\ log.rw = op.rw /\ log.rollback = FALSE
        /\ log.read = ValueAt(base, ops, op.key, n)
        /\ op.rw => log.written = op.value
    BY <2>1, <2>2, <2>4 DEF Access
  <2>6. h[n].sound /\ (Untouched(n) \/ Touched(n))
    BY <1>8
  <2>7. ValueAt(base, ops, k, m) = IF op.rw /\ op.key = k THEN op.value ELSE ValueAt(base, ops, k, n)
    <3>1. ValueAt(base, ops, k, n + 1) =
            IF ops[n + 1].rw /\ ops[n + 1].key = k THEN ops[n + 1].value ELSE ValueAt(base, ops, k, n)
      BY <2>2, ValueStep
    <3> QED BY <2>1, <3>1
  <2>8. CASE op.key # k
    <3>1. h[m] = h[n]
      BY <2>1, <2>3, <2>5, <2>8 DEF SlotNext
    <3>2. ValueAt(base, ops, k, m) = ValueAt(base, ops, k, n)
      BY <2>7, <2>8
    <3>3. Untouched(n) => Untouched(m)
      BY <2>1, <2>2, <2>8, <3>1, <3>2
    <3>4. Touched(n) => Touched(m)
      BY <3>1, <3>2
    <3> QED BY <2>1, <2>2, <2>6, <3>1, <3>3, <3>4
  <2>9. CASE op.key = k
    <3>1. h[m] = SlotStep(h[n], log)
      BY <2>1, <2>3, <2>5, <2>9 DEF SlotNext
    <3>2. PICK v : v = ValueAt(base, ops, k, n)
      OBVIOUS
    <3>3. log.read = v
      BY <2>5, <2>9, <3>2
    <3>4. h[n].current = None \/ log.read = h[n].current
      BY <2>6, <3>2, <3>3
    <3>5. /\ h[m].sound /\ h[m].initial = IF h[n].initial = None THEN log.read ELSE h[n].initial
          /\ log.rw => h[m].current = log.written
          /\ ~ log.rw => h[m].current = log.read
      BY <2>5, <2>6, <3>1, <3>4, StepIs
    <3>6. h[m].initial = base[k]
      BY <1>6, <2>6, <3>2, <3>3, <3>5
    <3>7. h[m].current = ValueAt(base, ops, k, m)
      <4>1. CASE op.rw
        BY <2>5, <2>7, <2>9, <3>5, <4>1
      <4>2. CASE ~ op.rw
        BY <2>5, <2>7, <2>9, <3>2, <3>3, <3>5, <4>2
      <4> QED BY <4>1, <4>2
    <3> QED BY <2>1, <2>2, <3>5, <3>6, <3>7
  <2> QED BY <2>8, <2>9
<1>9. N \in S
  <2> HIDE DEF S
  <2>1. \A n \in 0..N : n \in S
    BY <1>2, <1>7, <1>8, Upward
  <2> QED BY <1>2, <2>1
<1>10. SlotHistory(logs, k).sound
  BY <1>4, <1>9
<1>11. ASSUME k \in Accessed(logs)
       PROVE  SlotHistory(logs, k).initial = base[k] /\ SlotHistory(logs, k).current = RunValues(base, ops)[k]
  <2>1. PICK i \in 1..N : logs[i].key = k
    BY <1>3, <1>11 DEF Accessed
  <2>2. logs[i] = Access(base, known, ops, i)
    BY <1>3
  <2>3. ops[i].key = k
    BY <2>1, <2>2 DEF Access
  <2>4. Touched(N)
    BY <1>9, <2>3
  <2> QED BY <1>1, <1>4, <2>4 DEF RunValues
<1> QED BY <1>1, <1>10, <1>11

\* The slots a run changes.
Changed(base, ops) == {k \in Keys : RunValues(base, ops)[k] # base[k]}

\* A slot that a run does not access keeps its value.
LEMMA NotAccessed ==
    ASSUME NEW base, NEW known, NEW ops \in Seq(Ops), NEW k \in Keys,
           k \notin Accessed(RunLogs(base, known, ops))
    PROVE  RunValues(base, ops)[k] = base[k]
<1>1. PICK logs, N : logs = RunLogs(base, known, ops) /\ N = Len(ops)
  OBVIOUS
<1>2. N \in Nat
  BY <1>1, OpsAre
<1>3. DOMAIN logs = 1..N /\ \A i \in 1..N : logs[i] = Access(base, known, ops, i)
  BY <1>1, <1>2, RunLogsAre
<1>4. \A i \in 1..N : logs[i].key = ops[i].key
  BY <1>3 DEF Access
<1>5. \A i \in 1..N : ops[i].key # k
  BY <1>1, <1>3, <1>4 DEF Accessed
<1>6. WritesTo(ops, k, N) = {}
  BY <1>5 DEF WritesTo
<1>7. ~ Wrote(ops, k)
  BY <1>1, <1>6 DEF Wrote
<1> QED BY <1>7, NotWroteValue DEF RunValues

\* The accesses of a run are to slots.
LEMMA AccessedAreKeys ==
    ASSUME NEW base, NEW known, NEW ops \in Seq(Ops)
    PROVE  Accessed(RunLogs(base, known, ops)) \subseteq Keys
<1>1. PICK logs, N : logs = RunLogs(base, known, ops) /\ N = Len(ops)
  OBVIOUS
<1>2. N \in Nat /\ \A i \in 1..N : ops[i].key \in Keys
  BY <1>1, OpsAre
<1>3. DOMAIN logs = 1..N /\ \A i \in 1..N : logs[i] = Access(base, known, ops, i)
  BY <1>1, <1>2, RunLogsAre
<1>4. \A i \in 1..N : logs[i].key = ops[i].key
  BY <1>3 DEF Access
<1> QED BY <1>1, <1>2, <1>3, <1>4 DEF Accessed

\* sort_storage_access_queries finds exactly the slots that the run changed,
\* reads none of them, and none of its assertions fails.
THEOREM NetWritesAreChanges ==
    ASSUME NEW base \in [Keys -> Values], NEW known, NEW ops \in Seq(Ops)
    PROVE  LET logs == RunLogs(base, known, ops)
           IN  /\ NetWrites(logs) = Changed(base, ops)
               /\ NetReads(logs) \intersect Changed(base, ops) = {}
               /\ \A k \in Accessed(logs) : SlotHistory(logs, k).sound
<1>1. PICK logs, after : logs = RunLogs(base, known, ops) /\ after = RunValues(base, ops)
  OBVIOUS
<1>2. Accessed(logs) \subseteq Keys
  BY <1>1, AccessedAreKeys
<1>3. \A k \in Accessed(logs) : /\ SlotHistory(logs, k).sound
                                /\ SlotHistory(logs, k).initial = base[k]
                                /\ SlotHistory(logs, k).current = after[k]
  BY <1>1, <1>2, SlotHistoryIs
<1>4. \A k \in Keys : k \notin Accessed(logs) => after[k] = base[k]
  BY <1>1, NotAccessed
<1>5. NetWrites(logs) = {k \in Keys : after[k] # base[k]}
  BY <1>2, <1>3, <1>4 DEF NetWrites
<1>6. \A k \in NetReads(logs) : after[k] = base[k]
  BY <1>3 DEF NetReads
<1> QED BY <1>1, <1>3, <1>5, <1>6 DEF Changed

-----------------------------------------------------------------------------
(* The deduplication in flight. *)

\* The numbers of initial and of repeated writes in a set of modified slots.
Tally(modified, known) ==
    [initial |-> Cardinality(modified \ known), repeated |-> Cardinality(modified \intersect known)]

\* The counters of the deduplicator are natural numbers.
LEMMA TallyNat ==
    ASSUME NEW M \in SUBSET Keys, NEW known
    PROVE  /\ IsFiniteSet(M \ known) /\ IsFiniteSet(M \intersect known)
           /\ Cardinality(M \ known) \in Nat /\ Cardinality(M \intersect known) \in Nat
<1>1. IsFiniteSet(Keys)
  BY StorageAssumption, FS_Interval DEF Keys
<1>2. IsFiniteSet(M \ known) /\ IsFiniteSet(M \intersect known)
  <2>1. PICK A, B : A = M \ known /\ B = M \intersect known
    OBVIOUS
  <2>2. A \in SUBSET Keys /\ B \in SUBSET Keys
    BY <2>1
  <2> QED BY <1>1, <2>1, <2>2, FS_Subset
<1> QED BY <1>2, FS_CardinalityType

\* One slot more, or less.
LEMMA TallyStep ==
    ASSUME NEW M \in SUBSET Keys, NEW k \in Keys \ M, NEW known, NEW i, i = (k \notin known)
    PROVE  /\ Count(Tally(M, known), i, 1) = Tally(M \cup {k}, known)
           /\ Count(Tally(M \cup {k}, known), i, -1) = Tally(M, known)
<1>1. PICK A, B, a, b : /\ A = M \ known /\ B = M \intersect known
                        /\ a = Cardinality(A) /\ b = Cardinality(B)
  OBVIOUS
<1>2. IsFiniteSet(A) /\ IsFiniteSet(B) /\ a \in Nat /\ b \in Nat
  BY <1>1, TallyNat
<1>3. CASE k \in known
  <2>1. (M \cup {k}) \ known = A /\ (M \cup {k}) \intersect known = B \cup {k} /\ k \notin B
    BY <1>1, <1>3
  <2>2. Cardinality(B \cup {k}) = b + 1
    BY <1>1, <1>2, <2>1, FS_AddElement
  <2>3. Tally(M, known) = [initial |-> a, repeated |-> b] /\ Tally(M \cup {k}, known) = [initial |-> a, repeated |-> b + 1]
    BY <1>1, <2>1, <2>2 DEF Tally
  <2>4. ~ i
    BY <1>3
  <2>5. PICK T, U : T = Tally(M, known) /\ U = Tally(M \cup {k}, known)
    OBVIOUS
  <2>6. [T EXCEPT !.repeated = @ + 1] = U /\ [U EXCEPT !.repeated = @ + (-1)] = T
    <3>1. (b + 1) + (-1) = b
      BY <1>2
    <3>2. T = [initial |-> a, repeated |-> b] /\ U = [initial |-> a, repeated |-> b + 1]
      BY <2>3, <2>5
    <3> QED BY <3>1, <3>2
  <2> QED BY <2>4, <2>5, <2>6 DEF Count
<1>4. CASE k \notin known
  <2>1. (M \cup {k}) \ known = A \cup {k} /\ (M \cup {k}) \intersect known = B /\ k \notin A
    BY <1>1, <1>4
  <2>2. Cardinality(A \cup {k}) = a + 1
    BY <1>1, <1>2, <2>1, FS_AddElement
  <2>3. Tally(M, known) = [initial |-> a, repeated |-> b] /\ Tally(M \cup {k}, known) = [initial |-> a + 1, repeated |-> b]
    BY <1>1, <2>1, <2>2 DEF Tally
  <2>4. i
    BY <1>4
  <2> QED BY <1>2, <2>3, <2>4 DEF Count
<1> QED BY <1>3, <1>4

\* An update by zero changes no counter.
LEMMA TallySame ==
    ASSUME NEW M \in SUBSET Keys, NEW known, NEW i
    PROVE  Count(Tally(M, known), i, 0) = Tally(M, known)
<1>1. Cardinality(M \ known) \in Nat /\ Cardinality(M \intersect known) \in Nat
  BY TallyNat
<1> QED BY <1>1 DEF Count, Tally

\* The deduplicator of a batch that started with values base and now has cur.
DedupOk(d, base, cur, known) ==
    /\ d = [initial |-> d.initial, modified |-> d.modified, metrics |-> d.metrics, updates |-> d.updates]
    /\ d.initial \in [Keys -> Values \cup {None}]
    /\ \A k \in Keys : IF d.initial[k] = None THEN cur[k] = base[k] ELSE d.initial[k] = base[k]
    /\ d.modified = {k \in Keys : cur[k] # base[k]}
    /\ d.metrics = Tally(d.modified, known)
    /\ IsSeq(d.updates)

\* A log of a write, or of a read, of the VM in a state with values cur.
LogOk(log, cur, known) ==
    /\ log.key \in Keys /\ log.rw \in BOOLEAN /\ log.rollback = FALSE
    /\ log.read = cur[log.key] /\ log.read \in Values
    /\ log.rw => log.written \in Values
    /\ log.initial = (log.key \notin known)

\* ProcessLog of a write, with the first value and the new one.
Processed(d, log, first, value) ==
    LET was == log.key \in d.modified
        is == first # value
    IN  [initial |-> [d.initial EXCEPT ![log.key] = first],
         modified |-> IF is THEN d.modified \union {log.key} ELSE d.modified \ {log.key},
         metrics |-> Count(d.metrics, log.initial, IF is = was THEN 0 ELSE IF is THEN 1 ELSE -1),
         updates |-> IF is = was THEN d.updates
                     ELSE Append(d.updates, [key |-> log.key, insertion |-> is, initial |-> log.initial])]

\* What one log does.
StepOk(d, log, e, k, base, cur, known) ==
    /\ ~ log.rw => e = d
    /\ log.rw => /\ DedupOk(e, base, [cur EXCEPT ![k] = log.written], known)
                 /\ \A x \in Keys : e.initial[x] = None => d.initial[x] = None
                 /\ \/ e.modified = d.modified /\ e.updates = d.updates
                    \/ /\ k \notin d.modified /\ e.modified = d.modified \cup {k}
                       /\ e.updates = Append(d.updates, [key |-> k, insertion |-> TRUE, initial |-> log.initial])
                    \/ /\ k \in d.modified /\ e.modified = d.modified \ {k}
                       /\ e.updates = Append(d.updates, [key |-> k, insertion |-> FALSE, initial |-> log.initial])

\* One access keeps the deduplicator's account of the run so far, and any
\* update it lists can be undone.
LEMMA ProcessLogIs ==
    ASSUME NEW d, NEW base \in [Keys -> Values], NEW cur \in [Keys -> Values], NEW known,
           DedupOk(d, base, cur, known), NEW log, LogOk(log, cur, known)
    PROVE  StepOk(d, log, ProcessLog(d, log), log.key, base, cur, known)
<1>1. PICK e, k : e = ProcessLog(d, log) /\ k = log.key
  OBVIOUS
<1>2. /\ k \in Keys /\ log.rw \in BOOLEAN /\ log.rollback = FALSE /\ log.read = cur[k]
      /\ log.rw => log.written \in Values
      /\ log.initial = (k \notin known)
  BY <1>1 DEF LogOk
<1>3. CASE ~ log.rw
  BY <1>1, <1>3 DEF ProcessLog, StepOk
<1>4. CASE log.rw
  <2>1. \A v \in Values : v # None
    BY StorageAssumption DEF None
  <2>2. (IF d.initial[k] = None THEN log.read ELSE d.initial[k]) = base[k]
    BY <1>2 DEF DedupOk
  <2> DEFINE was == k \in d.modified
             is == base[k] # log.written
  <2>3. e = Processed(d, log, base[k], log.written)
    <3>1. e = Processed(d, log, IF d.initial[log.key] = None THEN log.read ELSE d.initial[log.key],
                        IF log.rollback THEN log.read ELSE log.written)
      BY <1>1, <1>4, Zenon DEF ProcessLog, Processed
    <3>2. (IF log.rollback THEN log.read ELSE log.written) = log.written
      BY <1>2
    <3> QED BY <1>1, <2>2, <3>1, <3>2
  <2>4. /\ e.initial = [d.initial EXCEPT ![k] = base[k]]
        /\ e.modified = IF is THEN d.modified \cup {k} ELSE d.modified \ {k}
        /\ e.metrics = Count(d.metrics, log.initial, IF is <=> was THEN 0 ELSE IF is THEN 1 ELSE -1)
        /\ e.updates = IF is <=> was THEN d.updates
                       ELSE Append(d.updates, [key |-> k, insertion |-> is, initial |-> log.initial])
        /\ e = [initial |-> e.initial, modified |-> e.modified, metrics |-> e.metrics, updates |-> e.updates]
    BY <1>1, <2>3 DEF Processed
  <2>5. PICK now : now = [cur EXCEPT ![k] = log.written]
    OBVIOUS
  <2>6. now \in [Keys -> Values] /\ now[k] = log.written /\ \A x \in Keys : x # k => now[x] = cur[x]
    BY <1>2, <1>4, <2>5
  <2>7. d.modified = {x \in Keys : cur[x] # base[x]} /\ d.initial \in [Keys -> Values \cup {None}] /\ d.metrics = Tally(d.modified, known)
    BY DEF DedupOk
  <2>8. e.modified = {x \in Keys : now[x] # base[x]}
    BY <1>2, <2>4, <2>6, <2>7
  <2>9. /\ e.initial \in [Keys -> Values \cup {None}]
        /\ \A x \in Keys : IF e.initial[x] = None THEN now[x] = base[x] ELSE e.initial[x] = base[x]
        /\ \A x \in Keys : e.initial[x] = None => d.initial[x] = None
    <3>1. e.initial[k] = base[k] /\ base[k] \in Values /\ \A x \in Keys : x # k => e.initial[x] = d.initial[x]
      BY <1>2, <2>4, <2>7
    <3>2. e.initial \in [Keys -> Values \cup {None}]
      BY <1>2, <2>4, <2>7
    <3>3. \A x \in Keys : IF d.initial[x] = None THEN cur[x] = base[x] ELSE d.initial[x] = base[x]
      BY DEF DedupOk
    <3> QED BY <2>1, <2>6, <3>1, <3>2, <3>3
  <2>10. d.modified \in SUBSET Keys /\ IsSeq(d.updates)
    BY <2>7 DEF DedupOk
  <2>11. CASE is <=> was
    <3>1. e.modified = d.modified
      BY <2>4, <2>11
    <3>2. e.metrics = Count(d.metrics, log.initial, 0) /\ e.updates = d.updates
      BY <2>4, <2>11
    <3>3. e.metrics = Tally(e.modified, known)
      BY <2>7, <2>10, <3>1, <3>2, TallySame
    <3>4. DedupOk(e, base, now, known)
      BY <2>4, <2>8, <2>9, <2>10, <3>2, <3>3 DEF DedupOk
    <3> QED BY <1>1, <1>4, <2>5, <2>9, <3>1, <3>2, <3>4 DEF StepOk
  <2>12. CASE is /\ ~ was
    <3>1. e.modified = d.modified \cup {k} /\ k \notin d.modified
      BY <2>4, <2>12
    <3>2. e.metrics = Count(d.metrics, log.initial, 1)
          /\ e.updates = Append(d.updates, [key |-> k, insertion |-> TRUE, initial |-> log.initial])
      BY <2>4, <2>12
    <3>3. e.metrics = Tally(e.modified, known)
      BY <1>2, <2>7, <2>10, <3>1, <3>2, TallyStep
    <3>4. IsSeq(e.updates)
      BY <2>10, <3>2, Appended
    <3>5. DedupOk(e, base, now, known)
      BY <2>4, <2>8, <2>9, <3>3, <3>4 DEF DedupOk
    <3> QED BY <1>1, <1>4, <2>5, <2>9, <3>1, <3>2, <3>5 DEF StepOk
  <2>13. CASE ~ is /\ was
    <3>1. e.modified = d.modified \ {k} /\ k \in d.modified
      BY <2>4, <2>13
    <3>2. e.metrics = Count(d.metrics, log.initial, -1)
          /\ e.updates = Append(d.updates, [key |-> k, insertion |-> FALSE, initial |-> log.initial])
      BY <2>4, <2>13
    <3>3. e.metrics = Tally(e.modified, known)
      <4>1. PICK M : M = e.modified
        OBVIOUS
      <4>2. M \in SUBSET Keys /\ k \in Keys \ M /\ d.modified = M \cup {k}
        BY <1>2, <2>10, <3>1, <4>1
      <4>3. Count(Tally(M \cup {k}, known), log.initial, -1) = Tally(M, known)
        BY <1>2, <4>2, TallyStep
      <4> QED BY <2>7, <3>2, <4>1, <4>2, <4>3
    <3>4. IsSeq(e.updates)
      BY <2>10, <3>2, Appended
    <3>5. DedupOk(e, base, now, known)
      BY <2>4, <2>8, <2>9, <3>3, <3>4 DEF DedupOk
    <3> QED BY <1>1, <1>4, <2>5, <2>9, <3>1, <3>2, <3>5 DEF StepOk
  <2> QED BY <2>11, <2>12, <2>13
<1> QED BY <1>2, <1>3, <1>4

ProcessRows(d, logs, f, N) == [n \in 0..N |-> IF n = 0 THEN d ELSE ProcessLog(f[n - 1], logs[n])]

\* The recursion has a solution.
LEMMA ProcessExists ==
    ASSUME NEW d, NEW logs, NEW N \in Nat
    PROVE  \E f : f = ProcessRows(d, logs, f, N)
<1> DEFINE S == {n \in 0..N : \E f : f = ProcessRows(d, logs, f, n)}
<1>1. 0 \in S
  <2> DEFINE f == [n \in 0..0 |-> d]
  <2>1. \A n \in 0..0 : n = 0
    OBVIOUS
  <2>2. f = ProcessRows(d, logs, f, 0)
    BY <2>1, Zenon DEF ProcessRows
  <2> QED BY <2>2
<1>2. ASSUME NEW n \in 0..(N - 1), n \in S PROVE n + 1 \in S
  <2>1. PICK f : f = ProcessRows(d, logs, f, n)
    BY <1>2
  <2> DEFINE g == ProcessRows(d, logs, f, n + 1)
  <2>2. \A i \in 0..n : g[i] = f[i]
    <3>1. \A i \in 0..n : f[i] = ProcessRows(d, logs, f, n)[i]
      BY <2>1, Zenon
    <3>2. \A i \in 0..n : i \in 0..(n + 1)
      OBVIOUS
    <3> QED BY <3>1, <3>2, Zenon DEF ProcessRows
  <2>3. g = ProcessRows(d, logs, g, n + 1)
    <3>1. \A i \in 0..(n + 1) : i # 0 => g[i - 1] = f[i - 1]
      <4> HIDE DEF g
      <4> QED BY <2>2
    <3> QED BY <3>1, Zenon DEF ProcessRows
  <2> QED BY <2>3
<1>3. N \in S
  <2> HIDE DEF S
  <2> QED BY <1>1, <1>2, Upward
<1> QED BY <1>3

\* process_storage_logs, log by log.
LEMMA ProcessesAre ==
    ASSUME NEW d, NEW logs, Len(logs) \in Nat
    PROVE  \E f : /\ f[0] = d
                  /\ \A n \in 1..Len(logs) : f[n] = ProcessLog(f[n - 1], logs[n])
                  /\ ProcessStorageLogs(d, logs) = f[Len(logs)]
<1>1. PICK N : N = Len(logs)
  OBVIOUS
<1>2. \E f : f = ProcessRows(d, logs, f, N)
  BY <1>1, ProcessExists
<1> DEFINE s == CHOOSE f : f = ProcessRows(d, logs, f, N)
<1>3. s = ProcessRows(d, logs, s, N)
  BY <1>2, Zenon
<1>4. ProcessStorageLogs(d, logs) = s[N]
  BY <1>1, Zenon DEF ProcessStorageLogs, ProcessRows
<1> HIDE DEF s
<1>5. \A n \in 0..N : s[n] = ProcessRows(d, logs, s, N)[n]
  BY <1>3, Zenon
<1>6. \A n \in 0..N : s[n] = IF n = 0 THEN d ELSE ProcessLog(s[n - 1], logs[n])
  BY <1>5, Zenon DEF ProcessRows
<1>7. 0 \in 0..N /\ \A n \in 1..N : n \in 0..N /\ n # 0
  BY <1>1
<1> QED BY <1>1, <1>4, <1>6, <1>7, Zenon

UndoRows(d, us, L, f, N) == [n \in 0..N |-> IF n = 0 THEN d ELSE Undo(f[n - 1], us[L + 1 - n])]

\* The recursion has a solution.
LEMMA UndoExists ==
    ASSUME NEW d, NEW us, NEW L, NEW N \in Nat
    PROVE  \E f : f = UndoRows(d, us, L, f, N)
<1> DEFINE S == {n \in 0..N : \E f : f = UndoRows(d, us, L, f, n)}
<1>1. 0 \in S
  <2> DEFINE f == [n \in 0..0 |-> d]
  <2>1. \A n \in 0..0 : n = 0
    OBVIOUS
  <2>2. f = UndoRows(d, us, L, f, 0)
    BY <2>1, Zenon DEF UndoRows
  <2> QED BY <2>2
<1>2. ASSUME NEW n \in 0..(N - 1), n \in S PROVE n + 1 \in S
  <2>1. PICK f : f = UndoRows(d, us, L, f, n)
    BY <1>2
  <2> DEFINE g == UndoRows(d, us, L, f, n + 1)
  <2>2. \A i \in 0..n : g[i] = f[i]
    <3>1. \A i \in 0..n : f[i] = UndoRows(d, us, L, f, n)[i]
      BY <2>1, Zenon
    <3>2. \A i \in 0..n : i \in 0..(n + 1)
      OBVIOUS
    <3> QED BY <3>1, <3>2, Zenon DEF UndoRows
  <2>3. g = UndoRows(d, us, L, g, n + 1)
    <3>1. \A i \in 0..(n + 1) : i # 0 => g[i - 1] = f[i - 1]
      <4> HIDE DEF g
      <4> QED BY <2>2
    <3> QED BY <3>1, Zenon DEF UndoRows
  <2> QED BY <2>3
<1>3. N \in S
  <2> HIDE DEF S
  <2> QED BY <1>1, <1>2, Upward
<1> QED BY <1>3

\* rollback, update by update.
LEMMA UndonesAre ==
    ASSUME NEW d, Len(d.updates) \in Nat
    PROVE  \E f : /\ f[0] = d
                  /\ \A n \in 1..Len(d.updates) :
                       f[n] = Undo(f[n - 1], d.updates[Len(d.updates) + 1 - n])
                  /\ Rollback(d) = Forget(f[Len(d.updates)])
<1>1. PICK N : N = Len(d.updates)
  OBVIOUS
<1>2. \E f : f = UndoRows(d, d.updates, N, f, N)
  BY <1>1, UndoExists
<1> DEFINE s == CHOOSE f : f = UndoRows(d, d.updates, N, f, N)
<1>3. s = UndoRows(d, d.updates, N, s, N)
  BY <1>2, Zenon
<1>4. Rollback(d) = Forget(s[N])
  BY <1>1, Zenon DEF Rollback, UndoRows
<1> HIDE DEF s
<1>5. \A n \in 0..N : s[n] = UndoRows(d, d.updates, N, s, N)[n]
  BY <1>3, Zenon
<1>6. \A n \in 0..N : s[n] = IF n = 0 THEN d ELSE Undo(s[n - 1], d.updates[N + 1 - n])
  BY <1>5, Zenon DEF UndoRows
<1>7. 0 \in 0..N /\ \A n \in 1..N : n \in 0..N /\ n # 0
  BY <1>1
<1> QED BY <1>1, <1>4, <1>6, <1>7, Zenon

\* The modified slots before and after an update.
TraceStep(item, prev, next, known) ==
    /\ item.key \in Keys /\ item.initial = (item.key \notin known)
    /\ \/ item.insertion = TRUE /\ item.key \notin prev /\ next = prev \cup {item.key}
       \/ item.insertion = FALSE /\ item.key \in prev /\ next = prev \ {item.key}

\* The modified slots from update to update.
Trace(t, us, from, to, known) ==
    /\ t[0] = from /\ t[Len(us)] = to
    /\ \A i \in 0..Len(us) : t[i] \in SUBSET Keys
    /\ \A i \in 1..Len(us) : TraceStep(us[i], t[i - 1], t[i], known)

\* One update more.
LEMMA TraceAppended ==
    ASSUME NEW us, IsSeq(us), NEW t, NEW from, NEW to, NEW known, Trace(t, us, from, to, known),
           NEW next \in SUBSET Keys, NEW item, TraceStep(item, to, next, known)
    PROVE  \E u : Trace(u, Append(us, item), from, next, known)
<1>1. PICK vs, L : vs = Append(us, item) /\ L = Len(us)
  OBVIOUS
<1>2. /\ L \in Nat /\ Len(vs) = L + 1 /\ vs[L + 1] = item
      /\ \A i \in 1..L : vs[i] = us[i]
  BY <1>1, Appended
<1> DEFINE u == [i \in 0..(L + 1) |-> IF i <= L THEN t[i] ELSE next]
<1>3. u[L + 1] = next /\ \A i \in 0..L : u[i] = t[i]
  BY <1>2
<1> HIDE DEF u
<1>4. /\ t[0] = from /\ t[L] = to
      /\ \A i \in 0..L : t[i] \in SUBSET Keys
      /\ \A i \in 1..L : TraceStep(us[i], t[i - 1], t[i], known)
  BY <1>1 DEF Trace
<1>5. u[0] = from /\ u[L] = to
  BY <1>2, <1>3, <1>4
<1>6. \A i \in 0..(L + 1) : u[i] \in SUBSET Keys
  BY <1>2, <1>3, <1>4
<1>7. ASSUME NEW i \in 1..(L + 1) PROVE TraceStep(vs[i], u[i - 1], u[i], known)
  <2>1. CASE i \in 1..L
    <3>1. u[i] = t[i] /\ u[i - 1] = t[i - 1] /\ vs[i] = us[i]
      BY <1>2, <1>3, <2>1
    <3> QED BY <1>4, <2>1, <3>1
  <2>2. CASE i = L + 1
    <3>1. u[i] = next /\ u[i - 1] = to /\ vs[i] = item
      BY <1>2, <1>3, <1>5, <2>2
    <3> QED BY <3>1
  <2> QED BY <1>2, <2>1, <2>2
<1>8. Trace(u, vs, from, next, known)
  BY <1>2, <1>3, <1>5, <1>6, <1>7 DEF Trace
<1> QED BY <1>1, <1>8

ValuesAt(v, ops, n) == [k \in Keys |-> ValueAt(v, ops, k, n)]

\* The values of all slots, access by access.
LEMMA ValuesAtStep ==
    ASSUME NEW v \in [Keys -> Values], NEW ops \in Seq(Ops), NEW n \in Nat
    PROVE  /\ ValuesAt(v, ops, 0) = v
           /\ \A k \in Keys : ValueAt(v, ops, k, n + 1) =
                               IF ops[n + 1].rw /\ ops[n + 1].key = k THEN ops[n + 1].value
                               ELSE ValueAt(v, ops, k, n)
<1>1. \A k \in Keys : ValueAt(v, ops, k, 0) = v[k]
  BY ValueStep
<1>2. v = [k \in Keys |-> v[k]]
  OBVIOUS
<1>3. ValuesAt(v, ops, 0) = v
  BY <1>1, <1>2, Zenon DEF ValuesAt
<1>4. ASSUME NEW k \in Keys
      PROVE  ValueAt(v, ops, k, n + 1) =
               IF ops[n + 1].rw /\ ops[n + 1].key = k THEN ops[n + 1].value ELSE ValueAt(v, ops, k, n)
  <2>1. CASE ops[n + 1].rw /\ ops[n + 1].key = k
    <3>1. ValueAt(v, ops, k, n + 1) = ops[n + 1].value
      BY <2>1, ValueWritten
    <3> QED BY <2>1, <3>1
  <2>2. CASE ~ (ops[n + 1].rw /\ ops[n + 1].key = k)
    <3>1. ValueAt(v, ops, k, n + 1) = ValueAt(v, ops, k, n)
      BY <2>2, ValueKept
    <3> QED BY <2>2, <3>1
  <2> QED BY <2>1, <2>2
<1> QED BY <1>3, <1>4

\* What the logs of a run do to the deduplicator.
LEMMA ProcessedRun ==
    ASSUME NEW base \in [Keys -> Values], NEW v \in [Keys -> Values], NEW known, NEW ops \in Seq(Ops),
           NEW d, DedupOk(d, base, v, known), d.updates = <<>>
    PROVE  LET e == ProcessStorageLogs(d, RunLogs(v, known, ops))
           IN  /\ DedupOk(e, base, RunValues(v, ops), known)
               /\ \A x \in Keys : e.initial[x] = None => d.initial[x] = None
               /\ \E t : Trace(t, e.updates, d.modified, e.modified, known)
<1>1. PICK logs, N : logs = RunLogs(v, known, ops) /\ N = Len(ops)
  OBVIOUS
<1>2. N \in Nat /\ \A i \in 1..N : ops[i].key \in Keys /\ ops[i].rw \in BOOLEAN /\ ops[i].value \in Values
  BY <1>1, OpsAre
<1>3. Len(logs) = N /\ DOMAIN logs = 1..N /\ \A i \in 1..N : logs[i] = Access(v, known, ops, i)
  BY <1>1, <1>2, RunLogsAre
<1>4. PICK f : /\ f[0] = d
               /\ \A n \in 1..N : f[n] = ProcessLog(f[n - 1], logs[n])
               /\ ProcessStorageLogs(d, logs) = f[N]
  BY <1>2, <1>3, ProcessesAre
<1>5. \A n \in 0..N : ValuesAt(v, ops, n) \in [Keys -> Values]
  <2>1. \A n \in 0..N, k \in Keys : ValueAt(v, ops, k, n) \in Values
    BY <1>1, RunTypes
  <2> QED BY <2>1 DEF ValuesAt
<1> DEFINE Ok(n) == /\ DedupOk(f[n], base, ValuesAt(v, ops, n), known)
                    /\ \A x \in Keys : f[n].initial[x] = None => d.initial[x] = None
                    /\ \E t : Trace(t, f[n].updates, d.modified, f[n].modified, known)
           S == {n \in 0..N : Ok(n)}
<1>6. 0 \in S
  <2>1. ValuesAt(v, ops, 0) = v
    BY ValuesAtStep, 0 \in Nat
  <2>2. \E t : Trace(t, d.updates, d.modified, d.modified, known)
    <3> DEFINE t == [i \in 0..0 |-> d.modified]
    <3>1. d.modified \in SUBSET Keys
      BY DEF DedupOk
    <3>2. Len(d.updates) = 0
      OBVIOUS
    <3>3. Trace(t, d.updates, d.modified, d.modified, known)
      BY <3>1, <3>2 DEF Trace
    <3> QED BY <3>3
  <2> QED BY <1>2, <1>4, <2>1, <2>2
<1>7. ASSUME NEW n \in 0..(N - 1), n \in S PROVE n + 1 \in S
  <2>1. PICK m, log, op, g, cur : m = n + 1 /\ log = logs[m] /\ op = ops[m] /\ g = f[n] /\ cur = ValuesAt(v, ops, n)
    OBVIOUS
  <2>2. m \in 1..N /\ m \in 0..N /\ n \in 0..N /\ m - 1 = n /\ n \in Nat
    BY <1>2, <2>1
  <2>3. f[m] = ProcessLog(g, log)
    BY <1>4, <2>1, <2>2
  <2>4. log = Access(v, known, ops, m)
    BY <1>3, <2>1, <2>2
  <2>5. /\ log.key = op.key /\ log.rw = op.rw /\ log.rollback = FALSE
        /\ log.read = ValueAt(v, ops, op.key, n)
        /\ op.rw => log.written = op.value
        /\ log.initial = (op.key \notin known)
    BY <2>1, <2>2, <2>4 DEF Access
  <2>6. op.key \in Keys /\ op.rw \in BOOLEAN /\ op.value \in Values
    BY <1>2, <2>1, <2>2
  <2>7. cur \in [Keys -> Values]
    BY <1>5, <2>1, <2>2
  <2>8. LogOk(log, cur, known)
    <3>1. log.read = cur[log.key]
      BY <2>1, <2>5, <2>6 DEF ValuesAt
    <3> QED BY <2>5, <2>6, <2>7, <3>1 DEF LogOk
  <2>9. Ok(n)
    BY <1>7
  <2>10. DedupOk(g, base, cur, known)
    BY <2>1, <2>9
  <2>11. PICK t : Trace(t, g.updates, d.modified, g.modified, known)
    BY <2>1, <2>9
  <2>12. PICK k : k = log.key
    OBVIOUS
  <2>13. \A k2 \in Keys : ValueAt(v, ops, k2, m) = IF op.rw /\ op.key = k2 THEN op.value ELSE ValueAt(v, ops, k2, n)
    <3>1. \A k2 \in Keys : ValueAt(v, ops, k2, n + 1) =
            IF ops[n + 1].rw /\ ops[n + 1].key = k2 THEN ops[n + 1].value ELSE ValueAt(v, ops, k2, n)
      BY <2>2, ValuesAtStep
    <3> QED BY <2>1, <3>1
  <2>14. StepOk(g, log, f[m], k, base, cur, known)
    <3>1. StepOk(g, log, ProcessLog(g, log), log.key, base, cur, known)
      BY <2>7, <2>8, <2>10, ProcessLogIs
    <3> QED BY <2>3, <2>12, <3>1
  <2>15. CASE ~ log.rw
    <3>1. f[m] = g
      BY <2>15, <2>14 DEF StepOk
    <3>2. ValuesAt(v, ops, m) = cur
      <4>1. \A k2 \in Keys : ValueAt(v, ops, k2, m) = ValueAt(v, ops, k2, n)
        BY <2>5, <2>13, <2>15
      <4> QED BY <2>1, <4>1, Zenon DEF ValuesAt
    <3>3. Ok(m)
      BY <2>1, <2>9, <3>1, <3>2
    <3> QED BY <2>1, <2>2, <3>3
  <2>16. CASE log.rw
    <3>1. PICK h, now : h = f[m] /\ now = [cur EXCEPT ![k] = log.written]
      OBVIOUS
    <3>2. /\ DedupOk(h, base, now, known)
          /\ \A x \in Keys : h.initial[x] = None => g.initial[x] = None
          /\ \/ h.modified = g.modified /\ h.updates = g.updates
             \/ /\ k \notin g.modified /\ h.modified = g.modified \cup {k}
                /\ h.updates = Append(g.updates, [key |-> k, insertion |-> TRUE, initial |-> log.initial])
             \/ /\ k \in g.modified /\ h.modified = g.modified \ {k}
                /\ h.updates = Append(g.updates, [key |-> k, insertion |-> FALSE, initial |-> log.initial])
      BY <2>16, <2>14, <3>1 DEF StepOk
    <3>3. ValuesAt(v, ops, m) = now
      <4>1. \A k2 \in Keys : ValueAt(v, ops, k2, m) = now[k2]
        <5> SUFFICES ASSUME NEW k2 \in Keys PROVE ValueAt(v, ops, k2, m) = now[k2]
          OBVIOUS
        <5>1. cur[k2] = ValueAt(v, ops, k2, n)
          BY <2>1 DEF ValuesAt
        <5>2. CASE k2 = k
          BY <2>5, <2>6, <2>7, <2>12, <2>13, <2>16, <3>1, <5>2
        <5>3. CASE k2 # k
          BY <2>5, <2>6, <2>7, <2>12, <2>13, <3>1, <5>1, <5>3
        <5> QED BY <5>2, <5>3
      <4>2. now = [k2 \in Keys |-> now[k2]]
        BY <2>7, <3>1
      <4> QED BY <4>1, <4>2, Zenon DEF ValuesAt
    <3>4. \E u : Trace(u, h.updates, d.modified, h.modified, known)
      <4>1. k \in Keys /\ h.modified \in SUBSET Keys /\ IsSeq(g.updates) /\ log.initial = (k \notin known)
        BY <2>5, <2>6, <2>10, <2>12, <3>2 DEF DedupOk
      <4>2. CASE h.modified = g.modified /\ h.updates = g.updates
        BY <2>11, <4>2
      <4>3. ASSUME NEW ins \in BOOLEAN, NEW item, item = [key |-> k, insertion |-> ins, initial |-> log.initial],
                   h.updates = Append(g.updates, item),
                   \/ ins = TRUE /\ k \notin g.modified /\ h.modified = g.modified \cup {k}
                   \/ ins = FALSE /\ k \in g.modified /\ h.modified = g.modified \ {k}
            PROVE  \E u : Trace(u, h.updates, d.modified, h.modified, known)
        <5>1. item.key = k /\ item.insertion = ins /\ item.initial = log.initial
          BY <4>3
        <5>2. item.initial = (k \notin known)
          BY <4>1, <5>1
        <5>3. PICK next, to, us, from : next = h.modified /\ to = g.modified /\ us = g.updates /\ from = d.modified
          OBVIOUS
        <5>4. Trace(t, us, from, to, known) /\ IsSeq(us) /\ next \in SUBSET Keys
          BY <2>11, <4>1, <5>3
        <5>5. TraceStep(item, to, next, known)
          BY <4>1, <4>3, <5>1, <5>2, <5>3 DEF TraceStep
        <5>6. \E u : Trace(u, Append(us, item), from, next, known)
          BY <5>4, <5>5, TraceAppended
        <5> QED BY <4>3, <5>3, <5>6
      <4> QED BY <3>2, <4>2, <4>3
    <3>5. Ok(m)
      <4>1. \A x \in Keys : h.initial[x] = None => d.initial[x] = None
        BY <2>1, <2>9, <3>2
      <4> QED BY <3>1, <3>2, <3>3, <3>4, <4>1
    <3> QED BY <2>1, <2>2, <3>5
  <2> QED BY <2>5, <2>6, <2>15, <2>16
<1>8. N \in S
  <2> HIDE DEF S
  <2>1. \A n \in 0..N : n \in S
    BY <1>2, <1>6, <1>7, Upward
  <2> QED BY <1>2, <2>1
<1>9. ValuesAt(v, ops, N) = RunValues(v, ops)
  BY <1>1 DEF ValuesAt, RunValues
<1> QED BY <1>1, <1>4, <1>8, <1>9

\* A deduplicator with the counters that belong to its slots.
Tallied(initial, modified, updates, known) ==
    [initial |-> initial, modified |-> modified, metrics |-> Tally(modified, known), updates |-> updates]

\* Undo changes two fields of a record.
LEMMA UndoFields ==
    ASSUME NEW i, NEW M, NEW c, NEW u, NEW item, NEW k, k = item.key, NEW by,
           item.insertion \in BOOLEAN, by = IF item.insertion THEN -1 ELSE 1
    PROVE  Undo([initial |-> i, modified |-> M, metrics |-> c, updates |-> u], item) =
             [initial |-> i, modified |-> IF item.insertion THEN M \ {k} ELSE M \cup {k},
              metrics |-> Count(c, item.initial, by), updates |-> u]
<1>1. PICK d, N, C : /\ d = [initial |-> i, modified |-> M, metrics |-> c, updates |-> u]
                     /\ N = IF item.insertion THEN M \ {k} ELSE M \cup {k}
                     /\ C = Count(c, item.initial, by)
  OBVIOUS
<1>2. PICK g : g = [d EXCEPT !.modified = N]
  OBVIOUS
<1>3. g = [initial |-> i, modified |-> N, metrics |-> c, updates |-> u]
  BY <1>1, <1>2
<1>4. [g EXCEPT !.metrics = C] = [initial |-> i, modified |-> N, metrics |-> C, updates |-> u]
  BY <1>3
<1>5. d.modified = M /\ d.metrics = c /\ g.metrics = c
  BY <1>1, <1>3
<1>6. Undo(d, item) = [g EXCEPT !.metrics = C]
  BY <1>1, <1>2, <1>5 DEF Undo
<1> QED BY <1>1, <1>4, <1>6

\* Taking an update back.
LEMMA UndoIs ==
    ASSUME NEW i, NEW u, NEW known, NEW prev \in SUBSET Keys, NEW next, NEW item,
           TraceStep(item, prev, next, known)
    PROVE  Undo(Tallied(i, next, u, known), item) = Tallied(i, prev, u, known)
<1>1. PICK k : k = item.key
  OBVIOUS
<1>2. k \in Keys /\ item.initial = (k \notin known)
  BY <1>1 DEF TraceStep
<1>3. CASE item.insertion = TRUE /\ k \notin prev /\ next = prev \cup {k}
  <2>1. Count(Tally(prev \cup {k}, known), item.initial, -1) = Tally(prev, known)
    BY <1>2, <1>3, TallyStep
  <2>2. next \ {k} = prev
    BY <1>3
  <2>3. Undo(Tallied(i, next, u, known), item) =
          [initial |-> i, modified |-> next \ {k}, metrics |-> Count(Tally(next, known), item.initial, -1), updates |-> u]
    <3>1. PICK c, by, T : c = Tally(next, known) /\ by = (-1) /\ T = Tallied(i, next, u, known)
      OBVIOUS
    <3>2. T = [initial |-> i, modified |-> next, metrics |-> c, updates |-> u]
      BY <3>1 DEF Tallied
    <3>3. by = (IF item.insertion THEN -1 ELSE 1) /\ item.insertion \in BOOLEAN
      BY <1>3, <3>1
    <3>4. Undo([initial |-> i, modified |-> next, metrics |-> c, updates |-> u], item) =
             [initial |-> i, modified |-> IF item.insertion THEN next \ {k} ELSE next \cup {k},
              metrics |-> Count(c, item.initial, by), updates |-> u]
      BY <1>1, <3>3, UndoFields
    <3> QED BY <1>3, <3>1, <3>2, <3>4
  <2> QED BY <1>3, <2>1, <2>2, <2>3 DEF Tallied
<1>4. CASE item.insertion = FALSE /\ k \in prev /\ next = prev \ {k}
  <2>1. next \in SUBSET Keys /\ k \in Keys \ next /\ prev = next \cup {k}
    BY <1>2, <1>4
  <2>2. Count(Tally(next, known), item.initial, 1) = Tally(next \cup {k}, known)
    BY <1>2, <2>1, TallyStep
  <2>3. Undo(Tallied(i, next, u, known), item) =
          [initial |-> i, modified |-> next \cup {k}, metrics |-> Count(Tally(next, known), item.initial, 1), updates |-> u]
    <3>1. PICK c, by, T : c = Tally(next, known) /\ by = (1) /\ T = Tallied(i, next, u, known)
      OBVIOUS
    <3>2. T = [initial |-> i, modified |-> next, metrics |-> c, updates |-> u]
      BY <3>1 DEF Tallied
    <3>3. by = (IF item.insertion THEN -1 ELSE 1) /\ item.insertion \in BOOLEAN
      BY <1>4, <3>1
    <3>4. Undo([initial |-> i, modified |-> next, metrics |-> c, updates |-> u], item) =
             [initial |-> i, modified |-> IF item.insertion THEN next \ {k} ELSE next \cup {k},
              metrics |-> Count(c, item.initial, by), updates |-> u]
      BY <1>1, <3>3, UndoFields
    <3> QED BY <1>4, <3>1, <3>2, <3>4
  <2> QED BY <2>1, <2>2, <2>3 DEF Tallied
<1> QED BY <1>1, <1>3, <1>4 DEF TraceStep

\* rollback brings the modified slots and the counters back.
LEMMA RollbackIs ==
    ASSUME NEW i, NEW us, IsSeq(us), NEW from, NEW to, NEW known, NEW t, Trace(t, us, from, to, known)
    PROVE  Rollback(Tallied(i, to, us, known)) = Tallied(i, from, <<>>, known)
<1>1. PICK e, L : e = Tallied(i, to, us, known) /\ L = Len(us)
  OBVIOUS
<1>2. e.updates = us /\ L \in Nat
  BY <1>1 DEF Tallied, IsSeq
<1>3. PICK f : /\ f[0] = e
               /\ \A n \in 1..L : f[n] = Undo(f[n - 1], us[L + 1 - n])
               /\ Rollback(e) = Forget(f[L])
  <2>1. \E f : /\ f[0] = e
               /\ \A n \in 1..Len(e.updates) :
                    f[n] = Undo(f[n - 1], e.updates[Len(e.updates) + 1 - n])
               /\ Rollback(e) = Forget(f[Len(e.updates)])
    BY <1>1, <1>2, UndonesAre
  <2> QED BY <1>1, <1>2, <2>1
<1>4. /\ t[0] = from /\ t[L] = to
      /\ \A j \in 0..L : t[j] \in SUBSET Keys
      /\ \A j \in 1..L : TraceStep(us[j], t[j - 1], t[j], known)
  BY <1>1 DEF Trace
<1> DEFINE S == {n \in 0..L : f[n] = Tallied(i, t[L - n], us, known)}
<1>5. 0 \in S
  <2>1. L - 0 = L
    BY <1>2
  <2> QED BY <1>1, <1>2, <1>3, <1>4, <2>1
<1>6. ASSUME NEW n \in 0..(L - 1), n \in S PROVE n + 1 \in S
  <2>1. PICK m, j, prev, next, item : /\ m = n + 1 /\ j = L - n /\ prev = t[j - 1] /\ next = t[j] /\ item = us[j]
    OBVIOUS
  <2>2. m \in 1..L /\ m \in 0..L /\ m - 1 = n /\ j \in 1..L /\ j - 1 \in 0..L /\ L + 1 - m = j /\ L - m = j - 1
    BY <1>2, <2>1
  <2>3. prev \in SUBSET Keys /\ TraceStep(item, prev, next, known)
    BY <1>4, <2>1, <2>2
  <2>4. f[n] = Tallied(i, next, us, known)
    BY <1>6, <2>1
  <2>5. f[m] = Undo(f[n], item)
    BY <1>3, <2>1, <2>2
  <2>6. Undo(Tallied(i, next, us, known), item) = Tallied(i, prev, us, known)
    BY <2>3, UndoIs
  <2>7. f[m] = Tallied(i, t[L - m], us, known)
    BY <2>1, <2>2, <2>4, <2>5, <2>6
  <2> QED BY <2>1, <2>2, <2>7
<1>7. L \in S
  <2> HIDE DEF S
  <2>1. \A n \in 0..L : n \in S
    BY <1>2, <1>5, <1>6, Upward
  <2> QED BY <1>2, <2>1
<1>8. L - L = 0
  BY <1>2
<1>9. f[L] = Tallied(i, from, us, known)
  BY <1>4, <1>7, <1>8
<1>10. Forget(Tallied(i, from, us, known)) = Tallied(i, from, <<>>, known)
  BY DEF Forget, Tallied
<1> QED BY <1>1, <1>3, <1>9, <1>10

\* Where the deduplicator starts in a batch.
LEMMA NewDedupOk ==
    ASSUME NEW base \in [Keys -> Values], NEW known
    PROVE  DedupOk(NewDeduplicator, base, base, known) /\ NewDeduplicator.updates = <<>>
<1>1. PICK d : d = NewDeduplicator
  OBVIOUS
<1>2. /\ d = [initial |-> d.initial, modified |-> d.modified, metrics |-> d.metrics, updates |-> d.updates]
      /\ d.initial = [k \in Keys |-> None] /\ d.modified = {} /\ d.metrics = [initial |-> 0, repeated |-> 0]
      /\ d.updates = <<>>
  BY <1>1 DEF NewDeduplicator
<1>3. Tally({}, known) = [initial |-> 0, repeated |-> 0]
  <2>1. {} \ known = {} /\ {} \intersect known = {}
    OBVIOUS
  <2>2. Cardinality({}) = 0
    BY FS_EmptySet
  <2> QED BY <2>1, <2>2 DEF Tally
<1>4. IsSeq(d.updates)
  <2>1. d.updates \in Seq({})
    BY <1>2
  <2> QED BY <2>1 DEF IsSeq
<1>5. \A k \in Keys : d.initial[k] = None /\ base[k] = base[k]
  BY <1>2
<1>6. d.initial \in [Keys -> Values \cup {None}]
  BY <1>2
<1>7. d.modified = {k \in Keys : base[k] # base[k]}
  BY <1>2
<1>8. DedupOk(d, base, base, known)
  BY <1>2, <1>3, <1>4, <1>5, <1>6, <1>7 DEF DedupOk
<1> QED BY <1>1, <1>2, <1>8

\* A deduplicator without updates that stands for the values cur.
Settled(d, base, cur, known) == DedupOk(d, base, cur, known) /\ d.updates = <<>>

\* apply: the values of the run are taken over.
LEMMA ApplyIs ==
    ASSUME NEW base \in [Keys -> Values], NEW v \in [Keys -> Values], NEW known, NEW ops \in Seq(Ops),
           NEW d, Settled(d, base, v, known)
    PROVE  Settled(Apply(d, RunLogs(v, known, ops)), base, RunValues(v, ops), known)
<1>1. PICK e, w : e = ProcessStorageLogs(d, RunLogs(v, known, ops)) /\ w = RunValues(v, ops)
  OBVIOUS
<1>2. DedupOk(e, base, w, known)
  BY <1>1, ProcessedRun DEF Settled
<1>3. PICK g : g = Forget(e)
  OBVIOUS
<1>4. e = [initial |-> e.initial, modified |-> e.modified, metrics |-> e.metrics, updates |-> e.updates]
  BY <1>2 DEF DedupOk
<1>5. g = [initial |-> e.initial, modified |-> e.modified, metrics |-> e.metrics, updates |-> <<>>]
  BY <1>3, <1>4 DEF Forget
<1>6. /\ g = [initial |-> g.initial, modified |-> g.modified, metrics |-> g.metrics, updates |-> g.updates]
      /\ g.initial = e.initial /\ g.modified = e.modified /\ g.metrics = e.metrics /\ g.updates = <<>>
  BY <1>5
<1>7. IsSeq(g.updates)
  <2>1. g.updates \in Seq({})
    BY <1>6
  <2> QED BY <2>1 DEF IsSeq
<1>8. DedupOk(g, base, w, known)
  BY <1>2, <1>6, <1>7 DEF DedupOk
<1> QED BY <1>1, <1>3, <1>6, <1>8 DEF Settled, Apply

\* apply_and_rollback: the slots and counters are as before; the first values
\* of more slots may be known.
LEMMA ApplyAndRollbackIs ==
    ASSUME NEW base \in [Keys -> Values], NEW v \in [Keys -> Values], NEW known, NEW ops \in Seq(Ops),
           NEW d, Settled(d, base, v, known)
    PROVE  /\ Settled(ApplyAndRollback(d, RunLogs(v, known, ops)), base, v, known)
           /\ ApplyAndRollback(d, RunLogs(v, known, ops)).modified = d.modified
           /\ ApplyAndRollback(d, RunLogs(v, known, ops)).metrics = d.metrics
<1>1. PICK e, w : e = ProcessStorageLogs(d, RunLogs(v, known, ops)) /\ w = RunValues(v, ops)
  OBVIOUS
<1>2. /\ DedupOk(e, base, w, known)
      /\ \A x \in Keys : e.initial[x] = None => d.initial[x] = None
      /\ \E t : Trace(t, e.updates, d.modified, e.modified, known)
  BY <1>1, ProcessedRun DEF Settled
<1>3. PICK g, us, to, from, i : /\ g = Rollback(e) /\ us = e.updates /\ to = e.modified /\ from = d.modified
                                /\ i = e.initial
  OBVIOUS
<1>4. e = Tallied(i, to, us, known)
  BY <1>2, <1>3 DEF DedupOk, Tallied
<1>5. IsSeq(us) /\ \E t : Trace(t, us, from, to, known)
  BY <1>2, <1>3 DEF DedupOk
<1>6. Rollback(Tallied(i, to, us, known)) = Tallied(i, from, <<>>, known)
  BY <1>5, RollbackIs
<1>7. g = Tallied(i, from, <<>>, known)
  BY <1>3, <1>4, <1>6
<1>8. /\ g = [initial |-> g.initial, modified |-> g.modified, metrics |-> g.metrics, updates |-> g.updates]
      /\ g.initial = i /\ g.modified = from /\ g.metrics = Tally(from, known) /\ g.updates = <<>>
  BY <1>7 DEF Tallied
<1>9. IsSeq(g.updates)
  <2>1. g.updates \in Seq({})
    BY <1>8
  <2> QED BY <2>1 DEF IsSeq
<1>10. /\ i \in [Keys -> Values \cup {None}]
       /\ \A k \in Keys : IF i[k] = None THEN v[k] = base[k] ELSE i[k] = base[k]
  BY <1>2, <1>3 DEF DedupOk, Settled
<1>11. from = {k \in Keys : v[k] # base[k]} /\ d.metrics = Tally(from, known)
  BY <1>3 DEF DedupOk, Settled
<1>12. DedupOk(g, base, v, known)
  BY <1>8, <1>9, <1>10, <1>11 DEF DedupOk
<1> QED BY <1>1, <1>3, <1>8, <1>11, <1>12 DEF Settled, ApplyAndRollback

-----------------------------------------------------------------------------
(* The tables of miniblocks and storage logs. *)

LogsIn(rows, mbs, b) == {r \in rows : mbs[r.miniblock].batch = b}
RowsUpTo(rows, mbs, b) == {r \in rows : mbs[r.miniblock].batch \in 0..b}
ValuesTo(rows, mbs, b) == LatestOr(RowsUpTo(rows, mbs, b), Zeros)
DepsIn(mbs, b) == UNION {mbs[i].deps : i \in {j \in DOMAIN mbs : mbs[j].batch = b}}

\* The slots that have another value after batch b than before.
Tree(rows, mbs, b) == {k \in Keys : ValuesTo(rows, mbs, b)[k] # ValuesTo(rows, mbs, b - 1)[k]}

\* The miniblocks of a batch follow each other, those of a later batch come
\* later, and the ones without a batch last.
BlocksOk(rows, mbs, top) ==
    /\ top \in Nat /\ IsSeq(mbs) /\ RowsOk(rows)
    /\ \A r \in rows : r.miniblock \in 1..Len(mbs)
    /\ \A i \in 1..Len(mbs) : mbs[i].batch = None \/ mbs[i].batch \in 0..top
    /\ \A i, j \in 1..Len(mbs) :
         i < j /\ mbs[j].batch # None => mbs[i].batch # None /\ mbs[i].batch <= mbs[j].batch
    /\ \A b \in 0..top : HasNewest(LogsIn(rows, mbs, b))

\* Rows of an earlier batch are earlier.
LEMMA LaterRows ==
    ASSUME NEW rows, NEW mbs, NEW top, BlocksOk(rows, mbs, top), NEW p \in rows, NEW q \in rows,
           mbs[p.miniblock].batch \in 0..top,
           mbs[q.miniblock].batch = None \/ mbs[p.miniblock].batch < mbs[q.miniblock].batch
    PROVE  Later(q, p)
<1>1. PICK i, j, L : i = p.miniblock /\ j = q.miniblock /\ L = Len(mbs)
  OBVIOUS
<1>2. i \in 1..L /\ j \in 1..L /\ L \in Nat /\ top \in Nat
  BY <1>1 DEF BlocksOk, IsSeq
<1>3. /\ mbs[j].batch = None \/ mbs[j].batch \in 0..top
      /\ i > j /\ mbs[i].batch # None => mbs[j].batch # None /\ mbs[j].batch <= mbs[i].batch
  BY <1>1, <1>2 DEF BlocksOk
<1>4. mbs[i].batch # None
  BY <1>1 DEF None
<1>5. i < j
  BY <1>1, <1>2, <1>3, <1>4 DEF None
<1> QED BY <1>1, <1>2, <1>5 DEF Later

\* A subset of the rows.
LEMMA SomeRows ==
    ASSUME NEW rows, RowsOk(rows), NEW A, A \subseteq rows
    PROVE  RowsOk(A)
BY DEF RowsOk

\* The values before the first batch.
LEMMA ValuesFirst ==
    ASSUME NEW rows, NEW mbs
    PROVE  ValuesTo(rows, mbs, -1) = Zeros /\ RowsUpTo(rows, mbs, -1) = {}
<1>1. RowsUpTo(rows, mbs, -1) = {}
  BY DEF RowsUpTo
<1>2. \A k \in Keys : LatestOr({}, Zeros)[k] = Zeros[k]
  BY LatestBase
<1>3. LatestOr({}, Zeros) = [k \in Keys |-> LatestOr({}, Zeros)[k]]
  BY DEF LatestOr
<1>4. Zeros = [k \in Keys |-> Zeros[k]]
  BY DEF Zeros
<1>5. LatestOr({}, Zeros) = Zeros
  BY <1>2, <1>3, <1>4, Zenon
<1> QED BY <1>1, <1>5 DEF ValuesTo

\* The values after a batch are those before it with its rows on top.
LEMMA ValuesNext ==
    ASSUME NEW rows, NEW mbs, NEW top, BlocksOk(rows, mbs, top), NEW b \in 0..top
    PROVE  ValuesTo(rows, mbs, b) = LatestOr(LogsIn(rows, mbs, b), ValuesTo(rows, mbs, b - 1))
<1>1. PICK A, B : A = RowsUpTo(rows, mbs, b - 1) /\ B = LogsIn(rows, mbs, b)
  OBVIOUS
<1>2. A \subseteq rows /\ B \subseteq rows
  BY <1>1 DEF RowsUpTo, LogsIn
<1>3. RowsOk(A) /\ RowsOk(B) /\ HasNewest(B) /\ top \in Nat
  BY <1>1, <1>2, SomeRows DEF BlocksOk
<1>4. ASSUME NEW p \in A, NEW q \in B PROVE Later(q, p)
  <2>1. /\ p \in rows /\ q \in rows
        /\ mbs[p.miniblock].batch \in 0..(b - 1) /\ mbs[q.miniblock].batch = b
    BY <1>1, <1>4 DEF RowsUpTo, LogsIn
  <2>2. mbs[p.miniblock].batch \in 0..top /\ mbs[p.miniblock].batch < mbs[q.miniblock].batch
    BY <1>3, <2>1
  <2> QED BY <2>1, <2>2, LaterRows
<1>5. RowsUpTo(rows, mbs, b) = A \cup B
  <2>1. \A x : x \in 0..b <=> x \in 0..(b - 1) \/ x = b
    BY <1>3
  <2> QED BY <1>1, <2>1 DEF RowsUpTo, LogsIn
<1>6. LatestOr(A \cup B, Zeros) = LatestOr(B, LatestOr(A, Zeros))
  BY <1>3, <1>4, LatestOver
<1> QED BY <1>1, <1>5, <1>6 DEF ValuesTo

\* They are values.
LEMMA ValuesTyped ==
    ASSUME NEW rows, NEW mbs, NEW top, BlocksOk(rows, mbs, top)
    PROVE  \A b \in (-1)..top : ValuesTo(rows, mbs, b) \in [Keys -> Values]
<1>1. top \in Nat
  BY DEF BlocksOk
<1> DEFINE S == {n \in 0..(top + 1) : ValuesTo(rows, mbs, n - 1) \in [Keys -> Values]}
<1>2. 0 \in S
  <2>1. 0 - 1 = -1 /\ 0 \in 0..(top + 1)
    BY <1>1
  <2>2. Zeros \in [Keys -> Values]
    BY StorageAssumption DEF Zeros
  <2> QED BY <2>1, <2>2, ValuesFirst
<1>3. ASSUME NEW n \in 0..top, n \in S PROVE n + 1 \in S
  <2>1. PICK B, v : B = LogsIn(rows, mbs, n) /\ v = ValuesTo(rows, mbs, n - 1)
    OBVIOUS
  <2>2. v \in [Keys -> Values]
    BY <1>3, <2>1
  <2>3. RowsOk(B) /\ HasNewest(B)
    <3>1. B \subseteq rows
      BY <2>1 DEF LogsIn
    <3> QED BY <2>1, <3>1, SomeRows DEF BlocksOk
  <2>4. LatestOr(B, v) \in [Keys -> Values]
    BY <2>2, <2>3, LatestTypes
  <2>5. ValuesTo(rows, mbs, n) \in [Keys -> Values]
    BY <2>1, <2>4, ValuesNext
  <2>6. (n + 1) - 1 = n /\ n + 1 \in 0..(top + 1)
    BY <1>1
  <2> QED BY <2>5, <2>6
<1>4. \A n \in 0..(top + 1) : n \in S
  <2> HIDE DEF S
  <2>1. (top + 1) - 1 = top /\ top + 1 \in Nat
    BY <1>1
  <2> QED BY <1>2, <1>3, <2>1, Upward
<1>5. ASSUME NEW b \in (-1)..top PROVE ValuesTo(rows, mbs, b) \in [Keys -> Values]
  <2>1. b + 1 \in 0..(top + 1) /\ (b + 1) - 1 = b
    BY <1>1
  <2> QED BY <1>4, <2>1
<1> QED BY <1>5

\* All rows: those of the batches, and on top of them those without a batch.
LEMMA ValuesLast ==
    ASSUME NEW rows, NEW mbs, NEW top, BlocksOk(rows, mbs, top), NEW ops \in Seq(Ops),
           Carries(LogsIn(rows, mbs, None), ops)
    PROVE  LatestOr(rows, Zeros) = RunValues(ValuesTo(rows, mbs, top), ops)
<1>1. PICK A, B : A = RowsUpTo(rows, mbs, top) /\ B = LogsIn(rows, mbs, None)
  OBVIOUS
<1>2. A \subseteq rows /\ B \subseteq rows
  BY <1>1 DEF RowsUpTo, LogsIn
<1>3. RowsOk(A) /\ RowsOk(B) /\ HasNewest(B)
  BY <1>1, <1>2, SomeRows, CarriesNewest DEF BlocksOk
<1>4. ASSUME NEW p \in A, NEW q \in B PROVE Later(q, p)
  <2>1. /\ p \in rows /\ q \in rows
        /\ mbs[p.miniblock].batch \in 0..top /\ mbs[q.miniblock].batch = None
    BY <1>1, <1>4 DEF RowsUpTo, LogsIn
  <2> QED BY <2>1, LaterRows
<1>5. rows = A \cup B
  <2>1. \A r \in rows : mbs[r.miniblock].batch = None \/ mbs[r.miniblock].batch \in 0..top
    BY DEF BlocksOk
  <2> QED BY <1>1, <2>1 DEF RowsUpTo, LogsIn
<1>6. LatestOr(A \cup B, Zeros) = LatestOr(B, LatestOr(A, Zeros))
  BY <1>3, <1>4, LatestOver
<1>7. LatestOr(B, LatestOr(A, Zeros)) = RunValues(LatestOr(A, Zeros), ops)
  BY <1>1, <1>3, CarriedValues
<1> QED BY <1>1, <1>5, <1>6, <1>7 DEF ValuesTo

\* The tables after one more miniblock, with rows new: it, and every miniblock
\* without a batch, has batch nb, which is None or the next one.
Grows(rows, mbs, top, new, mbs2, nb) ==
    /\ nb = None \/ nb = top + 1
    /\ RowsOk(new) /\ \A r \in new : r.miniblock = Len(mbs) + 1
    /\ IsSeq(mbs2) /\ Len(mbs2) = Len(mbs) + 1
    /\ mbs2[Len(mbs) + 1].batch = nb
    /\ \A i \in 1..Len(mbs) : /\ mbs2[i].deps = mbs[i].deps
                              /\ mbs2[i].batch = IF mbs[i].batch = None THEN nb ELSE mbs[i].batch

\* The batch of a row is the same, or the new one.
LEMMA GrownRows ==
    ASSUME NEW rows, NEW mbs, NEW top, BlocksOk(rows, mbs, top), NEW new, NEW mbs2, NEW nb,
           Grows(rows, mbs, top, new, mbs2, nb)
    PROVE  /\ \A r \in rows : mbs2[r.miniblock].batch = IF mbs[r.miniblock].batch = None THEN nb
                                                        ELSE mbs[r.miniblock].batch
           /\ \A r \in rows : mbs[r.miniblock].batch = None \/ mbs[r.miniblock].batch \in 0..top
           /\ \A r \in new : mbs2[r.miniblock].batch = nb
           /\ nb \notin 0..top /\ top \in Nat
<1>1. \A r \in rows : r.miniblock \in 1..Len(mbs)
  BY DEF BlocksOk
<1>2. top \in Nat /\ \A i \in 1..Len(mbs) : mbs[i].batch = None \/ mbs[i].batch \in 0..top
  BY DEF BlocksOk
<1>3. nb \notin 0..top
  BY <1>2 DEF Grows, None
<1>4. \A r \in rows : mbs2[r.miniblock].batch = IF mbs[r.miniblock].batch = None THEN nb
                                                ELSE mbs[r.miniblock].batch
  BY <1>1 DEF Grows
<1>5. \A r \in new : mbs2[r.miniblock].batch = nb
  BY DEF Grows
<1> QED BY <1>1, <1>2, <1>3, <1>4, <1>5

\* What is recorded of the sealed batches stays.
Framed(rows, mbs, top, rows2, mbs2, nb, new) ==
    /\ \A b \in 0..top : LogsIn(rows2, mbs2, b) = LogsIn(rows, mbs, b)
    /\ \A b \in (-1)..top : ValuesTo(rows2, mbs2, b) = ValuesTo(rows, mbs, b)
    /\ LogsIn(rows2, mbs2, nb) = LogsIn(rows, mbs, None) \cup new
    /\ nb # None => LogsIn(rows2, mbs2, None) = {}

\* New rows of a new miniblock leave the rows of the sealed batches alone.
LEMMA GrownFrame ==
    ASSUME NEW rows, NEW mbs, NEW top, BlocksOk(rows, mbs, top), NEW new, NEW mbs2, NEW nb,
           Grows(rows, mbs, top, new, mbs2, nb)
    PROVE  Framed(rows, mbs, top, rows \cup new, mbs2, nb, new)
<1>1. /\ \A r \in rows : mbs2[r.miniblock].batch = IF mbs[r.miniblock].batch = None THEN nb
                                                   ELSE mbs[r.miniblock].batch
      /\ \A r \in rows : mbs[r.miniblock].batch = None \/ mbs[r.miniblock].batch \in 0..top
      /\ \A r \in new : mbs2[r.miniblock].batch = nb
      /\ nb \notin 0..top /\ top \in Nat
  BY GrownRows
<1>2. None \notin 0..top
  BY DEF None
<1>3. ASSUME NEW b \in 0..top PROVE LogsIn(rows \cup new, mbs2, b) = LogsIn(rows, mbs, b)
  BY <1>1, <1>2 DEF LogsIn
<1>4. ASSUME NEW b \in (-1)..top PROVE ValuesTo(rows \cup new, mbs2, b) = ValuesTo(rows, mbs, b)
  <2>1. \A x \in 0..b : x \in 0..top
    BY <1>1
  <2>2. nb \notin 0..b /\ None \notin 0..b
    BY <1>1, <1>2, <2>1
  <2>3. RowsUpTo(rows \cup new, mbs2, b) = RowsUpTo(rows, mbs, b)
    BY <1>1, <2>2 DEF RowsUpTo
  <2> QED BY <2>3 DEF ValuesTo
<1>5. LogsIn(rows \cup new, mbs2, nb) = LogsIn(rows, mbs, None) \cup new
  BY <1>1, <1>2 DEF LogsIn
<1>6. nb # None => LogsIn(rows \cup new, mbs2, None) = {}
  BY <1>1, <1>2 DEF LogsIn
<1> QED BY <1>3, <1>4, <1>5, <1>6 DEF Framed

\* The order of the miniblocks is kept.
LEMMA GrownBlocks ==
    ASSUME NEW rows, NEW mbs, NEW top, BlocksOk(rows, mbs, top), NEW new, NEW mbs2, NEW nb,
           Grows(rows, mbs, top, new, mbs2, nb), HasNewest(LogsIn(rows, mbs, None) \cup new)
    PROVE  BlocksOk(rows \cup new, mbs2, IF nb = None THEN top ELSE nb)
<1>0. /\ \A b \in 0..top : LogsIn(rows \cup new, mbs2, b) = LogsIn(rows, mbs, b)
      /\ LogsIn(rows \cup new, mbs2, nb) = LogsIn(rows, mbs, None) \cup new
  <2>1. Framed(rows, mbs, top, rows \cup new, mbs2, nb, new)
    BY GrownFrame
  <2> QED BY <2>1 DEF Framed
<1>1. PICK L, M, top2 : L = Len(mbs) /\ M = Len(mbs2) /\ top2 = IF nb = None THEN top ELSE nb
  OBVIOUS
<1>2. /\ IsSeq(mbs2) /\ M = L + 1 /\ mbs2[M].batch = nb
      /\ \A i \in 1..L : mbs2[i].batch = IF mbs[i].batch = None THEN nb ELSE mbs[i].batch
      /\ nb = None \/ nb = top + 1
      /\ \A r \in new : r.miniblock = M
  BY <1>1 DEF Grows
<1>3. L \in Nat /\ top \in Nat
  BY <1>1 DEF BlocksOk, IsSeq
<1>4. RowsOk(rows \cup new)
  BY DEF RowsOk, BlocksOk, Grows
<1>5. \A r \in rows \cup new : r.miniblock \in 1..M
  <2>1. \A r \in rows : r.miniblock \in 1..L
    BY <1>1 DEF BlocksOk
  <2> QED BY <1>2, <1>3, <2>1
<1>6. \A i \in 1..L : mbs[i].batch = None \/ mbs[i].batch \in 0..top
  BY <1>1 DEF BlocksOk
<1>7. top2 \in Nat /\ (nb = None \/ nb \in 0..top2) /\ (nb # None => nb = top2 /\ top < top2) /\ top <= top2
  BY <1>1, <1>2, <1>3 DEF None
<1>8. \A i \in 1..M : mbs2[i].batch = None \/ mbs2[i].batch \in 0..top2
  <2> SUFFICES ASSUME NEW i \in 1..M PROVE mbs2[i].batch = None \/ mbs2[i].batch \in 0..top2
    OBVIOUS
  <2>1. CASE i = M
    BY <1>2, <1>7, <2>1
  <2>2. CASE i \in 1..L
    <3>1. PICK x : x = mbs[i].batch
      OBVIOUS
    <3>2. x = None \/ x \in 0..top2
      BY <1>3, <1>6, <1>7, <2>2, <3>1
    <3> QED BY <1>2, <1>7, <2>2, <3>1, <3>2
  <2> QED BY <1>2, <1>3, <2>1, <2>2
<1>9. ASSUME NEW i \in 1..M, NEW j \in 1..M, i < j, mbs2[j].batch # None
      PROVE  mbs2[i].batch # None /\ mbs2[i].batch <= mbs2[j].batch
  <2>1. i \in 1..L
    BY <1>2, <1>3, <1>9
  <2>2. PICK x, x2, y2 : x = mbs[i].batch /\ x2 = mbs2[i].batch /\ y2 = mbs2[j].batch
    OBVIOUS
  <2>3. (x = None \/ x \in 0..top) /\ x2 = IF x = None THEN nb ELSE x
    BY <1>2, <1>6, <2>1, <2>2
  <2>4. CASE j = M
    <3>1. y2 = nb /\ nb # None
      BY <1>2, <1>9, <2>2, <2>4
    <3> QED BY <1>3, <1>7, <2>2, <2>3, <3>1 DEF None
  <2>5. CASE j \in 1..L
    <3>1. PICK y : y = mbs[j].batch
      OBVIOUS
    <3>2. (y = None \/ y \in 0..top) /\ y2 = (IF y = None THEN nb ELSE y) /\ (y # None => x # None /\ x <= y)
      BY <1>1, <1>2, <1>6, <1>9, <2>1, <2>2, <2>5, <3>1 DEF BlocksOk
    <3>3. y2 # None
      BY <1>9, <2>2
    <3> QED BY <1>3, <1>7, <2>2, <2>3, <3>2, <3>3 DEF None
  <2> QED BY <1>2, <1>3, <2>4, <2>5
<1>10. ASSUME NEW b \in 0..top2 PROVE HasNewest(LogsIn(rows \cup new, mbs2, b))
  <2>1. CASE b \in 0..top
    <3>1. LogsIn(rows \cup new, mbs2, b) = LogsIn(rows, mbs, b)
      BY <2>1, <1>0
    <3> QED BY <2>1, <3>1 DEF BlocksOk
  <2>2. CASE b \notin 0..top
    <3>1. b = nb
      BY <1>1, <1>2, <1>3, <2>2
    <3>2. LogsIn(rows \cup new, mbs2, nb) = LogsIn(rows, mbs, None) \cup new
      BY <1>0
    <3> QED BY <3>1, <3>2
  <2> QED BY <2>1, <2>2
<1>11. BlocksOk(rows \cup new, mbs2, top2)
  BY <1>1, <1>2, <1>4, <1>5, <1>7, <1>8, <1>9, <1>10 DEF BlocksOk
<1> QED BY <1>1, <1>11

\* The bytecodes of the sealed batches stay where they are.
LEMMA GrownDeps ==
    ASSUME NEW rows, NEW mbs, NEW top, BlocksOk(rows, mbs, top), NEW new, NEW mbs2, NEW nb,
           Grows(rows, mbs, top, new, mbs2, nb), NEW b \in 0..top
    PROVE  DepsIn(mbs2, b) = DepsIn(mbs, b)
<1>1. PICK L, M : L = Len(mbs) /\ M = Len(mbs2)
  OBVIOUS
<1>2. L \in Nat /\ M = L + 1 /\ DOMAIN mbs = 1..L /\ DOMAIN mbs2 = 1..M /\ top \in Nat
  BY <1>1 DEF BlocksOk, Grows, IsSeq
<1>3. /\ mbs2[M].batch = nb /\ nb # b
      /\ \A i \in 1..L : /\ mbs2[i].deps = mbs[i].deps
                         /\ mbs2[i].batch = IF mbs[i].batch = None THEN nb ELSE mbs[i].batch
  BY <1>1, <1>2 DEF Grows, None
<1>4. None # b
  BY <1>2 DEF None
<1>5. {j \in DOMAIN mbs2 : mbs2[j].batch = b} = {j \in DOMAIN mbs : mbs[j].batch = b}
  <2>1. \A j \in 1..M : j \in 1..L \/ j = M
    BY <1>2
  <2>2. \A j \in 1..L : j \in 1..M
    BY <1>2
  <2> QED BY <1>2, <1>3, <1>4, <2>1, <2>2
<1>6. \A j \in {i \in DOMAIN mbs : mbs[i].batch = b} : mbs2[j].deps = mbs[j].deps
  BY <1>2, <1>3
<1> QED BY <1>5, <1>6 DEF DepsIn

-----------------------------------------------------------------------------
(* The enumeration indices. *)

\* The index a slot gets.
UpTo(keys, k) == {j \in keys : j <= k}
IndexRow(keys, b, last, k) == [key |-> k, batch |-> b, index |-> last + Cardinality(UpTo(keys, k))]

\* The rows that insert_initial_writes adds, one for each slot.
LEMMA IndexRowsAre ==
    ASSUME NEW keys, NEW b, NEW last
    PROVE  IndexRows(keys, b, last) = {IndexRow(keys, b, last, k) : k \in keys}
BY Zenon DEF IndexRows, IndexRow, UpTo

\* Indices start with 1, have no gaps, follow batches and keys, and there is
\* one for a slot.
IndexOk(iw) ==
    /\ IsFiniteSet(iw)
    /\ \A w \in iw : w.key \in Keys /\ w.batch \in Nat /\ w.index \in Nat
    /\ {w.index : w \in iw} = 1..Cardinality(iw)
    /\ \A q, r \in iw : q.key = r.key => q = r
    /\ \A q, r \in iw : q.index < r.index <=> q.batch < r.batch \/ (q.batch = r.batch /\ q.key < r.key)

\* The slots get the next numbers.
LEMMA NumbersAre ==
    ASSUME NEW keys \in SUBSET Keys
    PROVE  /\ IsFiniteSet(keys) /\ Cardinality(keys) \in Nat
           /\ \A k \in keys : Cardinality(UpTo(keys, k)) = Cardinality(Before(keys, k)) + 1
           /\ \A k \in keys : Cardinality(UpTo(keys, k)) \in 1..Cardinality(keys)
           /\ \A n \in 1..Cardinality(keys) : \E k \in keys : Cardinality(UpTo(keys, k)) = n
           /\ \A j, k \in keys : j < k => Cardinality(UpTo(keys, j)) < Cardinality(UpTo(keys, k))
<1>1. NumKeys \in Nat /\ keys \in SUBSET (1..NumKeys)
  BY StorageAssumption DEF Keys
<1>2. /\ IsFiniteSet(keys) /\ Cardinality(keys) \in Nat
      /\ Ranks(keys) = 0..(Cardinality(keys) - 1)
  BY <1>1, RanksAre
<1>3. ASSUME NEW k \in keys
      PROVE  /\ Cardinality(UpTo(keys, k)) = Cardinality(Before(keys, k)) + 1
             /\ Cardinality(Before(keys, k)) \in 0..(Cardinality(keys) - 1)
  <2>1. Before(keys, k) \in SUBSET keys /\ k \notin Before(keys, k)
    BY <1>1 DEF Before
  <2>2. IsFiniteSet(Before(keys, k))
    BY <1>2, <2>1, FS_Subset
  <2>3. UpTo(keys, k) = Before(keys, k) \cup {k}
    <3>1. k \in Int /\ \A j \in keys : j \in Int
      BY <1>1
    <3>2. \A j \in keys : j <= k <=> j < k \/ j = k
      BY <3>1
    <3> QED BY <3>2 DEF UpTo, Before
  <2>4. Cardinality(Before(keys, k) \cup {k}) = Cardinality(Before(keys, k)) + 1
    BY <2>1, <2>2, FS_AddElement
  <2>5. Cardinality(Before(keys, k)) \in Ranks(keys)
    BY DEF Ranks
  <2> QED BY <1>2, <2>3, <2>4, <2>5
<1>4. ASSUME NEW k \in keys PROVE Cardinality(UpTo(keys, k)) \in 1..Cardinality(keys)
  <2>1. PICK a, c : a = Cardinality(Before(keys, k)) /\ c = Cardinality(keys)
    OBVIOUS
  <2>2. a \in 0..(c - 1) /\ c \in Nat /\ Cardinality(UpTo(keys, k)) = a + 1
    BY <1>2, <1>3, <2>1
  <2>3. a + 1 \in 1..c
    BY <2>2
  <2> QED BY <2>1, <2>2, <2>3
<1>5. ASSUME NEW n \in 1..Cardinality(keys) PROVE \E k \in keys : Cardinality(UpTo(keys, k)) = n
  <2>1. n - 1 \in 0..(Cardinality(keys) - 1) /\ (n - 1) + 1 = n
    BY <1>2
  <2>2. n - 1 \in Ranks(keys)
    BY <1>2, <2>1
  <2>3. PICK k \in keys : n - 1 = Cardinality(Before(keys, k))
    BY <2>2 DEF Ranks
  <2> QED BY <1>3, <2>1, <2>3
<1>6. ASSUME NEW j \in keys, NEW k \in keys, j < k
      PROVE  Cardinality(UpTo(keys, j)) < Cardinality(UpTo(keys, k))
  <2>1. PICK a, c : a = Cardinality(Before(keys, j)) /\ c = Cardinality(Before(keys, k))
    OBVIOUS
  <2>2. a \in Nat /\ c \in Nat /\ a < c
    BY <1>1, <1>6, <2>1, RanksGrow
  <2> QED BY <1>3, <2>1, <2>2
<1> QED BY <1>2, <1>3, <1>4, <1>5, <1>6

\* No slot has an index yet.
LEMMA NoIndex == IndexOk({})
<1>1. IsFiniteSet({}) /\ Cardinality({}) = 0
  BY FS_EmptySet
<1>2. 1..0 = {} /\ {w.index : w \in {}} = {}
  OBVIOUS
<1> QED BY <1>1, <1>2 DEF IndexOk

\* The last index given.
LEMMA LastIndex ==
    ASSUME IndexOk(initialWrites)
    PROVE  MaxSetEnumerationIndex = Cardinality(initialWrites)
<1>1. PICK n, I : n = Cardinality(initialWrites) /\ I = {0} \cup {w.index : w \in initialWrites}
  OBVIOUS
<1>2. n \in Nat
  BY <1>1, FS_CardinalityType DEF IndexOk
<1>3. I = {0} \cup 1..n
  BY <1>1 DEF IndexOk
<1>4. n \in I /\ I \subseteq Int /\ \A y \in I : y <= n
  BY <1>2, <1>3
<1>5. Max(I) = n
  BY <1>4, MaxIs
<1>6. MaxSetEnumerationIndex = Max(I)
  BY <1>1 DEF MaxSetEnumerationIndex
<1> QED BY <1>1, <1>5, <1>6

\* insert_initial_writes.
LEMMA IndexGrown ==
    ASSUME NEW iw, IndexOk(iw), NEW keys \in SUBSET Keys, NEW b \in Nat,
           \A w \in iw : w.batch < b /\ w.key \notin keys
    PROVE  IndexOk(iw \cup IndexRows(keys, b, Cardinality(iw)))
<1>1. PICK n, c, new : n = Cardinality(iw) /\ c = Cardinality(keys) /\ new = IndexRows(keys, b, n)
  OBVIOUS
<1> DEFINE num(k) == Cardinality(UpTo(keys, k))
           row(k) == IndexRow(keys, b, n, k)
<1>2. /\ IsFiniteSet(iw) /\ n \in Nat /\ {w.index : w \in iw} = 1..n
      /\ \A w \in iw : w.key \in Keys /\ w.batch \in Nat /\ w.index \in Nat /\ w.index \in 1..n
  <2>1. IsFiniteSet(iw) /\ {w.index : w \in iw} = 1..n
    BY <1>1 DEF IndexOk
  <2>2. \A w \in iw : w.index \in 1..n
    BY <2>1
  <2> QED BY <1>1, <2>1, <2>2, FS_CardinalityType DEF IndexOk
<1>3. new = {row(k) : k \in keys}
  BY <1>1, IndexRowsAre
<1>4. /\ IsFiniteSet(keys) /\ c \in Nat
      /\ \A k \in keys : num(k) \in 1..c
      /\ \A m \in 1..c : \E k \in keys : num(k) = m
      /\ \A j, k \in keys : j < k => num(j) < num(k)
  BY <1>1, NumbersAre
<1>5. \A k : row(k).key = k /\ row(k).batch = b /\ row(k).index = n + num(k)
  BY DEF IndexRow
<1> HIDE DEF row, num
<1>6. \A w \in new : w.key \in keys /\ w.batch = b /\ w.index = n + num(w.key) /\ w = row(w.key)
  BY <1>3, <1>5
<1>7. Cardinality(new) = c /\ IsFiniteSet(new)
  <2> DEFINE f == [k \in keys |-> row(k)]
  <2>1. f \in [keys -> new] /\ \A k \in keys : f[k] = row(k)
    BY <1>3
  <2> HIDE DEF f
  <2>2. \A j, k \in keys : f[j] = f[k] => j = k
    BY <1>5, <2>1
  <2>3. \A w \in new : \E k \in keys : f[k] = w
    BY <1>6, <2>1
  <2>4. f \in Bijection(keys, new)
    BY <2>1, <2>2, <2>3 DEF Bijection, Injection, Surjection, IsInjective
  <2>5. ExistsBijection(keys, new)
    BY <2>4 DEF ExistsBijection
  <2> QED BY <1>1, <1>4, <2>5, FS_Bijection
<1>8. iw \cap new = {}
  <2>1. \A w \in iw : w.batch # b
    BY <1>2
  <2> QED BY <1>6, <2>1
<1>9. IsFiniteSet(iw \cup new) /\ Cardinality(iw \cup new) = n + c
  <2>1. Cardinality(iw \cap new) = 0
    BY <1>8, FS_EmptySet
  <2>2. IsFiniteSet(iw \cup new) /\ Cardinality(iw \cup new) = Cardinality(iw) + Cardinality(new) - Cardinality(iw \cap new)
    BY <1>2, <1>7, FS_Union
  <2> QED BY <1>1, <1>2, <1>4, <1>7, <2>1, <2>2
<1>10. \A w \in new : w.key \in Keys /\ w.batch \in Nat /\ w.index \in Nat /\ w.index \in (n + 1)..(n + c)
  <2> SUFFICES ASSUME NEW w \in new
               PROVE  w.key \in Keys /\ w.batch \in Nat /\ w.index \in Nat /\ w.index \in (n + 1)..(n + c)
    OBVIOUS
  <2>1. PICK k, m : k = w.key /\ m = num(k)
    OBVIOUS
  <2>2. k \in keys /\ m \in 1..c /\ w.index = n + m /\ w.batch = b
    BY <1>4, <1>6, <2>1
  <2> QED BY <1>2, <1>4, <2>1, <2>2
<1>11. {w.index : w \in iw \cup new} = 1..(n + c)
  <2>1. \A w \in iw \cup new : w.index \in 1..(n + c)
    BY <1>2, <1>4, <1>10
  <2>2. ASSUME NEW i \in 1..(n + c) PROVE \E w \in iw \cup new : w.index = i
    <3>1. CASE i \in 1..n
      BY <1>2, <3>1
    <3>2. CASE i \notin 1..n
      <4>1. PICK m : m = i - n
        OBVIOUS
      <4>2. m \in 1..c /\ i = n + m
        BY <1>2, <1>4, <3>2, <4>1
      <4>3. PICK k \in keys : num(k) = m
        BY <1>4, <4>2
      <4>4. row(k) \in new /\ row(k).index = i
        BY <1>3, <1>5, <4>2, <4>3
      <4> QED BY <4>4
    <3> QED BY <3>1, <3>2
  <2> QED BY <2>1, <2>2
<1>12. ASSUME NEW q \in iw \cup new, NEW r \in iw \cup new, q.key = r.key PROVE q = r
  <2>1. CASE q \in iw /\ r \in iw
    BY <1>12, <2>1 DEF IndexOk
  <2>2. CASE q \in new /\ r \in new
    BY <1>6, <1>12, <2>2
  <2>3. CASE (q \in iw /\ r \in new) \/ (q \in new /\ r \in iw)
    BY <1>6, <1>12, <2>3
  <2> QED BY <2>1, <2>2, <2>3
<1>13. ASSUME NEW q \in iw \cup new, NEW r \in iw \cup new
       PROVE  q.index < r.index <=> q.batch < r.batch \/ (q.batch = r.batch /\ q.key < r.key)
  <2>1. CASE q \in iw /\ r \in iw
    BY <2>1 DEF IndexOk
  <2>2. CASE q \in new /\ r \in new
    <3>1. PICK j, k, x, y : j = q.key /\ k = r.key /\ x = num(j) /\ y = num(k)
      OBVIOUS
    <3>2. /\ j \in keys /\ k \in keys /\ q.batch = b /\ r.batch = b
          /\ q.index = n + x /\ r.index = n + y /\ x \in Nat /\ y \in Nat
          /\ j \in Nat /\ k \in Nat
      <4>1. j \in keys /\ k \in keys /\ q.batch = b /\ r.batch = b /\ q.index = n + x /\ r.index = n + y
        BY <1>6, <2>2, <3>1
      <4>2. x \in 1..c /\ y \in 1..c
        BY <1>4, <3>1, <4>1
      <4>3. j \in Keys /\ k \in Keys
        BY <4>1
      <4>4. j \in Nat /\ k \in Nat
        BY <4>3 DEF Keys
      <4> QED BY <1>4, <4>1, <4>2, <4>4
    <3>3. (j < k => x < y) /\ (k < j => y < x) /\ (j = k => x = y)
      BY <1>4, <3>1, <3>2
    <3>4. x < y <=> j < k
      BY <3>2, <3>3
    <3> QED BY <1>2, <3>1, <3>2, <3>4
  <2>3. CASE q \in iw /\ r \in new
    <3>1. q.index \in 1..n /\ r.index \in (n + 1)..(n + c) /\ r.batch = b /\ q.batch < b /\ q.batch \in Nat
      BY <1>2, <1>6, <1>10, <2>3
    <3> QED BY <1>2, <1>4, <3>1
  <2>4. CASE q \in new /\ r \in iw
    <3>1. r.index \in 1..n /\ q.index \in (n + 1)..(n + c) /\ q.batch = b /\ r.batch < b /\ r.batch \in Nat
      BY <1>2, <1>6, <1>10, <2>4
    <3> QED BY <1>2, <1>4, <3>1
  <2> QED BY <2>1, <2>2, <2>3, <2>4
<1>14. \A w \in iw \cup new : w.key \in Keys /\ w.batch \in Nat /\ w.index \in Nat
  BY <1>2, <1>10
<1>15. IndexOk(iw \cup new)
  BY <1>9, <1>11, <1>12, <1>13, <1>14 DEF IndexOk
<1> QED BY <1>1, <1>15

\* The slots with an index after batch b.
KnownBy(iw, b) == {k \in Keys : \E w \in iw : w.key = k /\ w.batch <= b}

\* A slot has an index from the first batch on that changed it; until then it
\* is empty.
WritesOk(iw, rows, mbs, top) ==
    /\ IndexOk(iw)
    /\ \A w \in iw : w.batch \in 0..top
    /\ \A b \in (-1)..top : KnownBy(iw, b) = UNION {Tree(rows, mbs, a) : a \in 0..b}
    /\ \A b \in (-1)..top : \A k \in Keys \ KnownBy(iw, b) : ValuesTo(rows, mbs, b)[k] = 0

\* The protective reads of a batch are of slots it does not change.
ReadsOk(reads, rows, mbs, top) ==
    /\ IsSeq(reads) /\ Len(reads) = top + 1
    /\ \A b \in 0..top : reads[b + 1] \cap Tree(rows, mbs, b) = {}

\* The same values after every batch up to top.
SameValues(rows, mbs, rows2, mbs2, top) ==
    \A b \in (-1)..top : ValuesTo(rows2, mbs2, b) = ValuesTo(rows, mbs, b)

\* What the tree is told of a batch depends on the rows of sealed batches only.
LEMMA SameTree ==
    ASSUME NEW rows, NEW mbs, NEW rows2, NEW mbs2, NEW top, top + 1 \in Nat, top \in Int,
           SameValues(rows, mbs, rows2, mbs2, top)
    PROVE  \A b \in 0..top : Tree(rows2, mbs2, b) = Tree(rows, mbs, b)
<1> SUFFICES ASSUME NEW b \in 0..top PROVE Tree(rows2, mbs2, b) = Tree(rows, mbs, b)
  OBVIOUS
<1>1. b \in (-1)..top /\ b - 1 \in (-1)..top
  OBVIOUS
<1>2. ValuesTo(rows2, mbs2, b) = ValuesTo(rows, mbs, b) /\ ValuesTo(rows2, mbs2, b - 1) = ValuesTo(rows, mbs, b - 1)
  BY <1>1 DEF SameValues
<1> QED BY <1>2 DEF Tree

\* So do the enumeration indices,
LEMMA WritesSame ==
    ASSUME NEW rows, NEW mbs, NEW rows2, NEW mbs2, NEW top \in Nat, NEW iw, WritesOk(iw, rows, mbs, top),
           SameValues(rows, mbs, rows2, mbs2, top)
    PROVE  WritesOk(iw, rows2, mbs2, top)
<1>1. top + 1 \in Nat /\ top \in Int
  OBVIOUS
<1>2. \A b \in 0..top : Tree(rows2, mbs2, b) = Tree(rows, mbs, b)
  BY <1>1, SameTree
<1>3. ASSUME NEW b \in (-1)..top
      PROVE  KnownBy(iw, b) = UNION {Tree(rows2, mbs2, a) : a \in 0..b}
  <2>1. \A a \in 0..b : a \in 0..top
    OBVIOUS
  <2>2. \A a \in 0..b : Tree(rows2, mbs2, a) = Tree(rows, mbs, a)
    BY <1>2, <2>1
  <2>3. KnownBy(iw, b) = UNION {Tree(rows, mbs, a) : a \in 0..b}
    BY DEF WritesOk
  <2> QED BY <2>2, <2>3
<1>4. ASSUME NEW b \in (-1)..top, NEW k \in Keys \ KnownBy(iw, b)
      PROVE  ValuesTo(rows2, mbs2, b)[k] = 0
  BY DEF WritesOk, SameValues
<1> QED BY <1>3, <1>4 DEF WritesOk

\* and the protective reads.
LEMMA ReadsSame ==
    ASSUME NEW rows, NEW mbs, NEW rows2, NEW mbs2, NEW top \in Nat, NEW reads, ReadsOk(reads, rows, mbs, top),
           SameValues(rows, mbs, rows2, mbs2, top)
    PROVE  ReadsOk(reads, rows2, mbs2, top)
<1>1. top + 1 \in Nat /\ top \in Int
  OBVIOUS
<1>2. \A b \in 0..top : Tree(rows2, mbs2, b) = Tree(rows, mbs, b)
  BY <1>1, SameTree
<1> QED BY <1>2 DEF ReadsOk

\* Before the first batch.
LEMMA WritesStart ==
    ASSUME NEW rows, NEW mbs
    PROVE  WritesOk({}, rows, mbs, -1)
<1>1. \A b \in (-1)..(-1) : b = -1
  OBVIOUS
<1>2. KnownBy({}, -1) = {}
  BY DEF KnownBy
<1>3. UNION {Tree(rows, mbs, a) : a \in 0..(-1)} = {}
  OBVIOUS
<1>4. \A k \in Keys : ValuesTo(rows, mbs, -1)[k] = 0
  BY ValuesFirst DEF Zeros
<1> QED BY <1>1, <1>2, <1>3, <1>4, NoIndex DEF WritesOk

\* The slots with an index after earlier batches.
LEMMA KnownKept ==
    ASSUME NEW iw, NEW new, NEW top \in Int, \A w \in new : w.batch = top + 1, NEW b \in Int, b <= top
    PROVE  KnownBy(iw \cup new, b) = KnownBy(iw, b)
<1>1. \A w \in new : ~ (w.batch <= b)
  OBVIOUS
<1> QED BY <1>1 DEF KnownBy

\* A batch is sealed: the slots it changes first get the next indices.
LEMMA WritesGrown ==
    ASSUME NEW rows, NEW mbs, NEW rows2, NEW mbs2, NEW top \in Int, top + 1 \in Nat, NEW iw,
           WritesOk(iw, rows, mbs, top), SameValues(rows, mbs, rows2, mbs2, top), NEW keys,
           keys = Tree(rows2, mbs2, top + 1) \ KnownBy(iw, top)
    PROVE  WritesOk(iw \cup IndexRows(keys, top + 1, Cardinality(iw)), rows2, mbs2, top + 1)
<1>1. PICK new, n, iw2, t : /\ t = top + 1 /\ n = Cardinality(iw) /\ new = IndexRows(keys, t, n)
                            /\ iw2 = iw \cup new
  OBVIOUS
<1>2. IndexOk(iw) /\ \A w \in iw : w.batch \in 0..top
  BY DEF WritesOk
<1>3. keys \in SUBSET Keys
  BY DEF Tree
<1>4. t \in Nat /\ \A w \in iw : w.batch < t /\ w.batch <= top /\ w.key \in Keys
  BY <1>1, <1>2 DEF IndexOk
<1>5. \A w \in iw : w.key \notin keys
  BY <1>4 DEF KnownBy
<1>6. IndexOk(iw2)
  <2>1. IndexOk(iw \cup IndexRows(keys, t, Cardinality(iw)))
    BY <1>2, <1>3, <1>4, <1>5, IndexGrown
  <2> QED BY <1>1, <2>1
<1>7. \A w \in new : w.batch = t /\ w.key \in keys
  <2>1. new = {IndexRow(keys, t, n, k) : k \in keys}
    BY <1>1, IndexRowsAre
  <2> QED BY <2>1 DEF IndexRow
<1>8. \A k \in keys : \E w \in new : w.key = k
  <2>1. new = {IndexRow(keys, t, n, k) : k \in keys}
    BY <1>1, IndexRowsAre
  <2>2. \A k : IndexRow(keys, t, n, k).key = k
    BY DEF IndexRow
  <2>3. \A k \in keys : IndexRow(keys, t, n, k) \in new
    BY <2>1
  <2> QED BY <2>2, <2>3
<1>9. \A w \in iw2 : w.batch \in 0..t
  BY <1>1, <1>2, <1>4, <1>7
<1>10. \A b \in 0..top : Tree(rows2, mbs2, b) = Tree(rows, mbs, b)
  BY SameTree
<1>11. ASSUME NEW b \in (-1)..top
       PROVE  /\ KnownBy(iw2, b) = UNION {Tree(rows2, mbs2, a) : a \in 0..b}
              /\ \A k \in Keys \ KnownBy(iw2, b) : ValuesTo(rows2, mbs2, b)[k] = 0
  <2>1. KnownBy(iw2, b) = KnownBy(iw, b)
    <3>1. KnownBy(iw \cup new, b) = KnownBy(iw, b)
      <4>1. b \in Int /\ b <= top /\ \A w \in new : w.batch = top + 1
        BY <1>1, <1>7
      <4> QED BY <4>1, KnownKept
    <3> QED BY <1>1, <3>1
  <2>2. \A a \in 0..b : Tree(rows2, mbs2, a) = Tree(rows, mbs, a)
    <3>1. \A a \in 0..b : a \in 0..top
      OBVIOUS
    <3> QED BY <1>10, <3>1
  <2>3. KnownBy(iw, b) = UNION {Tree(rows, mbs, a) : a \in 0..b}
    BY DEF WritesOk
  <2>4. \A k \in Keys \ KnownBy(iw, b) : ValuesTo(rows, mbs, b)[k] = 0
    BY DEF WritesOk
  <2>5. ValuesTo(rows2, mbs2, b) = ValuesTo(rows, mbs, b)
    BY DEF SameValues
  <2> QED BY <2>1, <2>2, <2>3, <2>4, <2>5
<1>12. KnownBy(iw2, t) = KnownBy(iw2, top) \cup Tree(rows2, mbs2, t)
  <2>1. KnownBy(iw2, top) = KnownBy(iw, top)
    <3>1. KnownBy(iw \cup new, top) = KnownBy(iw, top)
      <4>1. top <= top /\ \A w \in new : w.batch = top + 1
        BY <1>1, <1>7
      <4> QED BY <4>1, KnownKept
    <3> QED BY <1>1, <3>1
  <2>2. ASSUME NEW k \in Keys PROVE k \in KnownBy(iw2, t) <=> k \in KnownBy(iw, top) \/ k \in keys
    <3>1. \A w \in iw2 : w.batch <= t
      BY <1>4, <1>9
    <3>2. k \in KnownBy(iw2, t) <=> \E w \in iw2 : w.key = k
      BY <3>1 DEF KnownBy
    <3>3. k \in KnownBy(iw, top) <=> \E w \in iw : w.key = k
      BY <1>4 DEF KnownBy
    <3>4. k \in keys <=> \E w \in new : w.key = k
      BY <1>7, <1>8
    <3> QED BY <1>1, <3>2, <3>3, <3>4
  <2>3. KnownBy(iw2, t) \subseteq Keys /\ KnownBy(iw, top) \subseteq Keys
    BY DEF KnownBy
  <2>4. keys = Tree(rows2, mbs2, t) \ KnownBy(iw, top)
    BY <1>1
  <2> QED BY <1>3, <2>1, <2>2, <2>3, <2>4
<1>13. top \in (-1)..top /\ t - 1 = top
  BY <1>1
<1>14. KnownBy(iw2, t) = UNION {Tree(rows2, mbs2, a) : a \in 0..t}
  <2>1. KnownBy(iw2, top) = UNION {Tree(rows2, mbs2, a) : a \in 0..top}
    BY <1>11, <1>13
  <2>2. \A a : a \in 0..t <=> a \in 0..top \/ a = t
    BY <1>1
  <2> QED BY <1>12, <2>1, <2>2
<1>15. ASSUME NEW k \in Keys \ KnownBy(iw2, t) PROVE ValuesTo(rows2, mbs2, t)[k] = 0
  <2>1. k \notin KnownBy(iw2, top) /\ k \notin Tree(rows2, mbs2, t)
    BY <1>12
  <2>2. ValuesTo(rows2, mbs2, top)[k] = 0
    BY <1>11, <1>13, <2>1
  <2>3. ValuesTo(rows2, mbs2, t)[k] = ValuesTo(rows2, mbs2, t - 1)[k]
    BY <2>1 DEF Tree
  <2> QED BY <1>13, <2>2, <2>3
<1>16. \A b \in (-1)..t : b \in (-1)..top \/ b = t
  BY <1>1
<1>17. WritesOk(iw2, rows2, mbs2, t)
  BY <1>6, <1>9, <1>11, <1>14, <1>15, <1>16 DEF WritesOk
<1> QED BY <1>1, <1>17

\* And its protective reads are recorded.
LEMMA ReadsGrown ==
    ASSUME NEW rows, NEW mbs, NEW rows2, NEW mbs2, NEW top \in Nat, NEW reads,
           ReadsOk(reads, rows, mbs, top), SameValues(rows, mbs, rows2, mbs2, top), NEW more,
           more \cap Tree(rows2, mbs2, top + 1) = {}
    PROVE  ReadsOk(Append(reads, more), rows2, mbs2, top + 1)
<1>1. PICK t, s : t = top + 1 /\ s = Append(reads, more)
  OBVIOUS
<1>2. /\ IsSeq(s) /\ Len(s) = t + 1 /\ s[t + 1] = more
      /\ \A i \in 1..t : s[i] = reads[i]
  BY <1>1, Appended DEF ReadsOk
<1>3. \A b \in 0..top : Tree(rows2, mbs2, b) = Tree(rows, mbs, b)
  BY SameTree
<1>4. ASSUME NEW b \in 0..t PROVE s[b + 1] \cap Tree(rows2, mbs2, b) = {}
  <2>1. CASE b = t
    BY <1>1, <1>2, <2>1
  <2>2. CASE b \in 0..top
    <3>1. b + 1 \in 1..t
      BY <1>1, <2>2
    <3>2. reads[b + 1] \cap Tree(rows, mbs, b) = {}
      BY <2>2 DEF ReadsOk
    <3>3. s[b + 1] = reads[b + 1]
      BY <1>2, <3>1
    <3>4. Tree(rows2, mbs2, b) = Tree(rows, mbs, b)
      BY <1>3, <2>2
    <3> QED BY <3>2, <3>3, <3>4
  <2>3. b = t \/ b \in 0..top
    BY <1>1
  <2> QED BY <2>1, <2>2, <2>3
<1>5. ReadsOk(s, rows2, mbs2, t)
  BY <1>2, <1>4 DEF ReadsOk
<1> QED BY <1>1, <1>5

-----------------------------------------------------------------------------
(* RocksDB. *)

Nones == [k \in Keys |-> None]

\* A state of RocksDB has the values after the batches before its next one.
ValuesRow(r, rows, mbs, top) ==
    /\ r.next \in 0..(top + 1)
    /\ r.values \in [Keys -> Values \cup {None}]
    /\ \A k \in Keys : \/ r.values[k] = ValuesTo(rows, mbs, r.next - 1)[k]
                       \/ r.values[k] = None /\ ValuesTo(rows, mbs, r.next - 1)[k] = 0
    /\ r.deps = UNION {DepsIn(mbs, b) : b \in 0..(r.next - 1)}

\* While no batch was sealed after an excluded transaction, it has an entry for
\* the slots with an index and no other.
RocksRow(r, rows, mbs, iw, top) ==
    /\ r.next \in 0..(top + 1)
    /\ r.values \in [Keys -> Values \cup {None}]
    /\ \A k \in Keys : r.values[k] = IF k \in KnownBy(iw, r.next - 1)
                                       THEN ValuesTo(rows, mbs, r.next - 1)[k] ELSE None
    /\ r.deps = UNION {DepsIn(mbs, b) : b \in 0..(r.next - 1)}

\* What is known of the batches up to top stays.
SameBatches(rows, mbs, iw, rows2, mbs2, iw2, top) ==
    /\ SameValues(rows, mbs, rows2, mbs2, top)
    /\ \A b \in 0..top : DepsIn(mbs2, b) = DepsIn(mbs, b)
    /\ \A b \in (-1)..top : KnownBy(iw2, b) = KnownBy(iw, b)

\* A state of RocksDB stays that of a sealed batch when later batches are
\* added.
LEMMA RocksSame ==
    ASSUME NEW rows, NEW mbs, NEW iw, NEW rows2, NEW mbs2, NEW iw2, NEW top \in Nat, NEW top2 \in Nat,
           top <= top2, SameBatches(rows, mbs, iw, rows2, mbs2, iw2, top),
           NEW r, RocksRow(r, rows, mbs, iw, top)
    PROVE  RocksRow(r, rows2, mbs2, iw2, top2)
<1>1. PICK n : n = r.next - 1
  OBVIOUS
<1>2. r.next \in 0..(top + 1)
  BY DEF RocksRow
<1>3. n \in (-1)..top /\ r.next \in 0..(top2 + 1) /\ \A b \in 0..n : b \in 0..top
  BY <1>1, <1>2
<1>4. ValuesTo(rows2, mbs2, n) = ValuesTo(rows, mbs, n) /\ KnownBy(iw2, n) = KnownBy(iw, n)
  BY <1>3 DEF SameBatches, SameValues
<1>5. \A k \in Keys : r.values[k] = IF k \in KnownBy(iw2, n) THEN ValuesTo(rows2, mbs2, n)[k] ELSE None
  BY <1>1, <1>4 DEF RocksRow
<1>6. r.deps = UNION {DepsIn(mbs2, b) : b \in 0..n}
  <2>1. \A b \in 0..n : DepsIn(mbs2, b) = DepsIn(mbs, b)
    BY <1>3 DEF SameBatches
  <2>2. r.deps = UNION {DepsIn(mbs, b) : b \in 0..n}
    BY <1>1 DEF RocksRow
  <2> QED BY <2>1, <2>2
<1> QED BY <1>1, <1>3, <1>5, <1>6 DEF RocksRow

\* The slots a batch touched, with their new values.
LEMMA TouchedIs ==
    ASSUME NEW rows, NEW mbs, NEW top, BlocksOk(rows, mbs, top), NEW b \in 0..top, NEW k \in Keys
    PROVE  LET touched == LatestOr(LogsIn(rows, mbs, b), Nones)[k]
           IN  \/ touched = None /\ ValuesTo(rows, mbs, b)[k] = ValuesTo(rows, mbs, b - 1)[k]
               \/ touched # None /\ touched = ValuesTo(rows, mbs, b)[k]
<1>1. PICK B, v, x : B = LogsIn(rows, mbs, b) /\ v = ValuesTo(rows, mbs, b - 1) /\ x = LatestOr(B, Nones)[k]
  OBVIOUS
<1>2. ValuesTo(rows, mbs, b) = LatestOr(B, v)
  BY <1>1, ValuesNext
<1>3. RowsOk(B) /\ HasNewest(B)
  <2>1. B \subseteq rows
    BY <1>1 DEF LogsIn
  <2> QED BY <1>1, <2>1, SomeRows DEF BlocksOk
<1>4. CASE \A q \in B : q.key # k
  <2>1. LatestOr(B, Nones)[k] = Nones[k] /\ LatestOr(B, v)[k] = v[k]
    BY <1>4, LatestBase
  <2>2. Nones[k] = None
    BY DEF Nones
  <2> QED BY <1>1, <1>2, <2>1, <2>2
<1>5. CASE \E q \in B : q.key = k
  <2>1. PICK r : Newest(B, k, r)
    BY <1>3, <1>5 DEF HasNewest
  <2>2. LatestOr(B, Nones)[k] = r.value /\ LatestOr(B, v)[k] = r.value
    BY <1>3, <2>1, LatestValue
  <2>3. r.value \in Values
    BY <1>3, <2>1 DEF Newest, RowsOk
  <2>4. r.value # None
    BY <2>3, StorageAssumption DEF None
  <2> QED BY <1>1, <1>2, <2>2, <2>4
<1> QED BY <1>4, <1>5

\* The slots the tree is told of.
LEMMA TreeIs ==
    ASSUME NEW rows, NEW mbs, NEW top, BlocksOk(rows, mbs, top), NEW b \in 0..top
    PROVE  {k \in Keys : LET touched == LatestOr(LogsIn(rows, mbs, b), Nones)
                         IN  touched[k] # None /\ touched[k] # ValuesTo(rows, mbs, b - 1)[k]}
             = Tree(rows, mbs, b)
<1>1. PICK t, v, w : t = LatestOr(LogsIn(rows, mbs, b), Nones) /\ v = ValuesTo(rows, mbs, b - 1) /\ w = ValuesTo(rows, mbs, b)
  OBVIOUS
<1>2. \A k \in Keys : (t[k] = None /\ w[k] = v[k]) \/ (t[k] # None /\ t[k] = w[k])
  BY <1>1, TouchedIs
<1>3. Tree(rows, mbs, b) = {k \in Keys : w[k] # v[k]}
  BY <1>1 DEF Tree
<1> QED BY <1>1, <1>2, <1>3

\* update_from_postgres writes the state after the next batch.
LEMMA RocksLoaded ==
    ASSUME NEW rows, NEW mbs, NEW top, BlocksOk(rows, mbs, top), NEW iw, WritesOk(iw, rows, mbs, top),
           NEW r, RocksRow(r, rows, mbs, iw, top), r.next <= top,
           NEW s, s.next = r.next + 1,
           s.values = ProcessTransactionLogs(r.values, LatestOr(LogsIn(rows, mbs, r.next), Nones)),
           s.deps = r.deps \cup DepsIn(mbs, r.next)
    PROVE  RocksRow(s, rows, mbs, iw, top)
<1>1. PICK n, t, v, w, K, M : /\ n = r.next /\ t = LatestOr(LogsIn(rows, mbs, n), Nones)
                              /\ v = ValuesTo(rows, mbs, n - 1) /\ w = ValuesTo(rows, mbs, n)
                              /\ K = KnownBy(iw, n - 1) /\ M = KnownBy(iw, n)
  OBVIOUS
<1>2. top \in Nat /\ n \in 0..top /\ s.next - 1 = n /\ s.next \in 0..(top + 1) /\ n - 1 \in (-1)..top /\ n \in (-1)..top
  <2>1. top \in Nat /\ r.next \in 0..(top + 1)
    BY DEF BlocksOk, RocksRow
  <2> QED BY <1>1, <2>1
<1>3. v \in [Keys -> Values] /\ w \in [Keys -> Values]
  BY <1>1, <1>2, ValuesTyped
<1>4. \A k \in Keys : (t[k] = None /\ w[k] = v[k]) \/ (t[k] # None /\ t[k] = w[k])
  BY <1>1, <1>2, TouchedIs
<1>5. M = K \cup Tree(rows, mbs, n)
  <2>1. K = UNION {Tree(rows, mbs, a) : a \in 0..(n - 1)} /\ M = UNION {Tree(rows, mbs, a) : a \in 0..n}
    BY <1>1, <1>2 DEF WritesOk
  <2>2. \A a : a \in 0..n <=> a \in 0..(n - 1) \/ a = n
    BY <1>2
  <2> QED BY <2>1, <2>2
<1>6. Tree(rows, mbs, n) = {k \in Keys : w[k] # v[k]}
  BY <1>1 DEF Tree
<1>7. (\A k \in Keys \ K : v[k] = 0) /\ (\A k \in Keys \ M : w[k] = 0)
  BY <1>1, <1>2 DEF WritesOk
<1>8. \A k \in Keys : r.values[k] = IF k \in K THEN v[k] ELSE None
  BY <1>1 DEF RocksRow
<1>9. \A x \in Values : x # None
  BY StorageAssumption DEF None
<1>10. ASSUME NEW k \in Keys
       PROVE  s.values[k] = IF k \in M THEN w[k] ELSE None
  <2>1. s.values[k] = IF t[k] # None /\ (t[k] # 0 \/ r.values[k] # None) THEN t[k] ELSE r.values[k]
    BY <1>1 DEF ProcessTransactionLogs
  <2>2. v[k] \in Values /\ w[k] \in Values /\ v[k] # None /\ w[k] # None
    BY <1>3, <1>9
  <2>3. k \in M <=> k \in K \/ w[k] # v[k]
    BY <1>5, <1>6
  <2>4. (k \notin K => v[k] = 0) /\ (k \notin M => w[k] = 0)
    BY <1>7
  <2>5. r.values[k] = IF k \in K THEN v[k] ELSE None
    BY <1>8
  <2>6. (t[k] = None /\ w[k] = v[k]) \/ (t[k] # None /\ t[k] = w[k])
    BY <1>4
  <2>7. CASE k \in K
    BY <2>1, <2>2, <2>3, <2>5, <2>6, <2>7
  <2>8. CASE k \notin K
    BY <2>1, <2>2, <2>3, <2>4, <2>5, <2>6, <2>8
  <2> QED BY <2>7, <2>8
<1>11. s.values \in [Keys -> Values \cup {None}]
  <2>1. s.values = [k \in Keys |-> s.values[k]]
    <3>1. s.values = [k \in Keys |-> IF t[k] # None /\ (t[k] # 0 \/ r.values[k] # None) THEN t[k] ELSE r.values[k]]
      BY <1>1 DEF ProcessTransactionLogs
    <3> QED BY <3>1
  <2>2. \A k \in Keys : s.values[k] \in Values \cup {None}
    BY <1>3, <1>10
  <2> QED BY <2>1, <2>2
<1>12. s.deps = UNION {DepsIn(mbs, b) : b \in 0..n}
  <2>1. r.deps = UNION {DepsIn(mbs, b) : b \in 0..(n - 1)}
    BY <1>1 DEF RocksRow
  <2>2. \A a : a \in 0..n <=> a \in 0..(n - 1) \/ a = n
    BY <1>2
  <2>3. s.deps = r.deps \cup DepsIn(mbs, n)
    BY <1>1
  <2> QED BY <2>1, <2>2, <2>3
<1> QED BY <1>1, <1>2, <1>10, <1>11, <1>12 DEF RocksRow

\* An empty RocksDB.
LEMMA RocksStart ==
    ASSUME NEW rows, NEW mbs, NEW top \in Nat, NEW iw, WritesOk(iw, rows, mbs, top)
    PROVE  RocksRow(EmptyRocksdb, rows, mbs, iw, top)
<1>1. PICK r : r = EmptyRocksdb
  OBVIOUS
<1>2. r.next = 0 /\ r.values = [k \in Keys |-> None] /\ r.deps = {}
  BY <1>1 DEF EmptyRocksdb
<1>3. KnownBy(iw, -1) = {}
  <2>1. \A w \in iw : ~ (w.batch <= -1)
    BY DEF WritesOk
  <2> QED BY <2>1 DEF KnownBy
<1>4. r.next - 1 = -1 /\ r.next \in 0..(top + 1)
  BY <1>2
<1>5. r.deps = UNION {DepsIn(mbs, b) : b \in 0..(-1)}
  BY <1>2
<1>6. r.values \in [Keys -> Values \cup {None}] /\ \A k \in Keys : r.values[k] = None
  BY <1>2
<1>7. RocksRow(r, rows, mbs, iw, top)
  BY <1>3, <1>4, <1>5, <1>6 DEF RocksRow
<1> QED BY <1>1, <1>7

\* An up-to-date RocksDB answers with the values after the last batch, and has
\* an entry for the slots with an index.
LEMMA RocksCurrent ==
    ASSUME NEW rows, NEW mbs, NEW top, BlocksOk(rows, mbs, top), NEW iw, WritesOk(iw, rows, mbs, top),
           NEW r, RocksRow(r, rows, mbs, iw, top), r.next = top + 1
    PROVE  /\ {k \in Keys : r.values[k] # None} = KnownBy(iw, top)
           /\ [k \in Keys |-> IF r.values[k] = None THEN 0 ELSE r.values[k]] = ValuesTo(rows, mbs, top)
<1>1. PICK K, v : K = KnownBy(iw, top) /\ v = ValuesTo(rows, mbs, top)
  OBVIOUS
<1>2. top \in Nat /\ r.next - 1 = top /\ top \in (-1)..top
  <2>1. top \in Nat
    BY DEF BlocksOk
  <2> QED BY <2>1
<1>3. v \in [Keys -> Values]
  BY <1>1, <1>2, ValuesTyped
<1>4. \A k \in Keys : r.values[k] = IF k \in K THEN v[k] ELSE None
  BY <1>1, <1>2 DEF RocksRow
<1>5. \A k \in Keys \ K : v[k] = 0
  BY <1>1, <1>2 DEF WritesOk
<1>6. \A x \in Values : x # None
  BY StorageAssumption DEF None
<1>7. \A k \in Keys : v[k] # None
  BY <1>3, <1>6
<1>8. {k \in Keys : r.values[k] # None} = K
  <2>1. K \subseteq Keys
    BY <1>1 DEF KnownBy
  <2> QED BY <1>4, <1>7, <2>1
<1>9. \A k \in Keys : (IF r.values[k] = None THEN 0 ELSE r.values[k]) = v[k]
  BY <1>4, <1>5, <1>7
<1>10. v = [k \in Keys |-> v[k]]
  BY <1>3
<1>11. [k \in Keys |-> IF r.values[k] = None THEN 0 ELSE r.values[k]] = v
  BY <1>9, <1>10, Zenon
<1> QED BY <1>1, <1>8, <1>11

\* The values in RocksDB stay when later batches are added.
LEMMA ValuesSame ==
    ASSUME NEW rows, NEW mbs, NEW rows2, NEW mbs2, NEW top \in Nat, NEW top2 \in Nat, top <= top2,
           SameValues(rows, mbs, rows2, mbs2, top), \A b \in 0..top : DepsIn(mbs2, b) = DepsIn(mbs, b),
           NEW r, ValuesRow(r, rows, mbs, top)
    PROVE  ValuesRow(r, rows2, mbs2, top2)
<1>1. PICK n : n = r.next - 1
  OBVIOUS
<1>2. r.next \in 0..(top + 1)
  BY DEF ValuesRow
<1>3. n \in (-1)..top /\ r.next \in 0..(top2 + 1) /\ \A b \in 0..n : b \in 0..top
  BY <1>1, <1>2
<1>4. ValuesTo(rows2, mbs2, n) = ValuesTo(rows, mbs, n)
  BY <1>3 DEF SameValues
<1>5. \A k \in Keys : r.values[k] = ValuesTo(rows2, mbs2, n)[k] \/ (r.values[k] = None /\ ValuesTo(rows2, mbs2, n)[k] = 0)
  BY <1>1, <1>4 DEF ValuesRow
<1>6. r.deps = UNION {DepsIn(mbs2, b) : b \in 0..n}
  <2>1. \A b \in 0..n : DepsIn(mbs2, b) = DepsIn(mbs, b)
    BY <1>3
  <2>2. r.deps = UNION {DepsIn(mbs, b) : b \in 0..n}
    BY <1>1 DEF ValuesRow
  <2> QED BY <2>1, <2>2
<1> QED BY <1>1, <1>3, <1>5, <1>6 DEF ValuesRow

\* update_from_postgres writes the values after the next batch.
LEMMA ValuesLoaded ==
    ASSUME NEW rows, NEW mbs, NEW top, BlocksOk(rows, mbs, top),
           NEW r, ValuesRow(r, rows, mbs, top), r.next <= top,
           NEW s, s.next = r.next + 1,
           s.values = ProcessTransactionLogs(r.values, LatestOr(LogsIn(rows, mbs, r.next), Nones)),
           s.deps = r.deps \cup DepsIn(mbs, r.next)
    PROVE  ValuesRow(s, rows, mbs, top)
<1>1. PICK n, t, v, w : /\ n = r.next /\ t = LatestOr(LogsIn(rows, mbs, n), Nones)
                        /\ v = ValuesTo(rows, mbs, n - 1) /\ w = ValuesTo(rows, mbs, n)
  OBVIOUS
<1>2. top \in Nat /\ n \in 0..top /\ s.next - 1 = n /\ s.next \in 0..(top + 1) /\ n - 1 \in (-1)..top /\ n \in (-1)..top
  <2>1. top \in Nat /\ r.next \in 0..(top + 1)
    BY DEF BlocksOk, ValuesRow
  <2> QED BY <1>1, <2>1
<1>3. v \in [Keys -> Values] /\ w \in [Keys -> Values]
  BY <1>1, <1>2, ValuesTyped
<1>4. \A k \in Keys : (t[k] = None /\ w[k] = v[k]) \/ (t[k] # None /\ t[k] = w[k])
  BY <1>1, <1>2, TouchedIs
<1>5. \A k \in Keys : r.values[k] = v[k] \/ (r.values[k] = None /\ v[k] = 0)
  BY <1>1 DEF ValuesRow
<1>6. s.values = [k \in Keys |-> IF t[k] # None /\ (t[k] # 0 \/ r.values[k] # None) THEN t[k] ELSE r.values[k]]
  BY <1>1 DEF ProcessTransactionLogs
<1>7. ASSUME NEW k \in Keys
      PROVE  s.values[k] = w[k] \/ (s.values[k] = None /\ w[k] = 0)
  <2>1. s.values[k] = IF t[k] # None /\ (t[k] # 0 \/ r.values[k] # None) THEN t[k] ELSE r.values[k]
    BY <1>6
  <2>2. r.values[k] = v[k] \/ (r.values[k] = None /\ v[k] = 0)
    BY <1>5
  <2>3. (t[k] = None /\ w[k] = v[k]) \/ (t[k] # None /\ t[k] = w[k])
    BY <1>4
  <2> QED BY <2>1, <2>2, <2>3
<1>8. s.values \in [Keys -> Values \cup {None}]
  <2>1. s.values = [k \in Keys |-> s.values[k]]
    BY <1>6
  <2>2. \A k \in Keys : s.values[k] \in Values \cup {None}
    BY <1>3, <1>7
  <2> QED BY <2>1, <2>2
<1>9. s.deps = UNION {DepsIn(mbs, b) : b \in 0..n}
  <2>1. r.deps = UNION {DepsIn(mbs, b) : b \in 0..(n - 1)}
    BY <1>1 DEF ValuesRow
  <2>2. \A a : a \in 0..n <=> a \in 0..(n - 1) \/ a = n
    BY <1>2
  <2>3. s.deps = r.deps \cup DepsIn(mbs, n)
    BY <1>1
  <2> QED BY <2>1, <2>2, <2>3
<1> QED BY <1>1, <1>2, <1>7, <1>8, <1>9 DEF ValuesRow

\* An empty RocksDB.
LEMMA ValuesEmpty ==
    ASSUME NEW rows, NEW mbs, NEW top \in Nat
    PROVE  ValuesRow(EmptyRocksdb, rows, mbs, top)
<1>1. PICK r : r = EmptyRocksdb
  OBVIOUS
<1>2. r.next = 0 /\ r.values = [k \in Keys |-> None] /\ r.deps = {}
  BY <1>1 DEF EmptyRocksdb
<1>3. \A k \in Keys : ValuesTo(rows, mbs, -1)[k] = 0
  BY ValuesFirst DEF Zeros
<1>4. r.next - 1 = -1 /\ r.next \in 0..(top + 1)
  BY <1>2
<1>5. r.deps = UNION {DepsIn(mbs, b) : b \in 0..(-1)}
  BY <1>2
<1>6. r.values \in [Keys -> Values \cup {None}] /\ \A k \in Keys : r.values[k] = None
  BY <1>2
<1>7. ValuesRow(r, rows, mbs, top)
  BY <1>3, <1>4, <1>5, <1>6 DEF ValuesRow
<1> QED BY <1>1, <1>7

\* An up-to-date RocksDB answers with the values after the last batch.
LEMMA ValuesCurrent ==
    ASSUME NEW rows, NEW mbs, NEW top, BlocksOk(rows, mbs, top),
           NEW r, ValuesRow(r, rows, mbs, top), r.next = top + 1
    PROVE  [k \in Keys |-> IF r.values[k] = None THEN 0 ELSE r.values[k]] = ValuesTo(rows, mbs, top)
<1>1. PICK v : v = ValuesTo(rows, mbs, top)
  OBVIOUS
<1>2. top \in Nat /\ r.next - 1 = top /\ top \in (-1)..top
  <2>1. top \in Nat
    BY DEF BlocksOk
  <2> QED BY <2>1
<1>3. v \in [Keys -> Values]
  BY <1>1, <1>2, ValuesTyped
<1>4. \A k \in Keys : r.values[k] = v[k] \/ (r.values[k] = None /\ v[k] = 0)
  BY <1>1, <1>2 DEF ValuesRow
<1>5. \A k \in Keys : v[k] # None
  BY <1>3, StorageAssumption DEF None
<1>6. \A k \in Keys : (IF r.values[k] = None THEN 0 ELSE r.values[k]) = v[k]
  BY <1>4, <1>5
<1>7. v = [k \in Keys |-> v[k]]
  BY <1>3
<1>8. [k \in Keys |-> IF r.values[k] = None THEN 0 ELSE r.values[k]] = v
  BY <1>6, <1>7, Zenon
<1> QED BY <1>1, <1>8

-----------------------------------------------------------------------------
(* The table of values, and the executor of the open batch. *)

\* Table storage: the values after the last batch and the writes since.
StateOk(rows, mbs, top, ops, st) ==
    /\ ops \in Seq(Ops)
    /\ Carries(LogsIn(rows, mbs, None), ops)
    /\ st = RunValues(ValuesTo(rows, mbs, top), ops)

\* A run without accesses.
LEMMA NothingRun ==
    ASSUME NEW v \in [Keys -> Values], NEW known
    PROVE  /\ <<>> \in Seq(Ops) /\ RunValues(v, <<>>) = v /\ RunLogs(v, known, <<>>) = <<>>
           /\ Carries({}, <<>>)
<1>1. <<>> \in Seq(Ops) /\ Len(<<>>) = 0
  OBVIOUS
<1>2. \A k : WritesTo(<<>>, k, 0) = {}
  BY DEF WritesTo
<1>3. \A k \in Keys : ValueAt(v, <<>>, k, 0) = v[k]
  BY <1>2, ValueIs
<1>4. v = [k \in Keys |-> v[k]]
  OBVIOUS
<1>5. RunValues(v, <<>>) = v
  BY <1>1, <1>3, <1>4, Zenon DEF RunValues
<1>6. RunLogs(v, known, <<>>) = <<>>
  <2>1. PICK s, t : s = RunLogs(v, known, <<>>) /\ t = <<>>
    OBVIOUS
  <2>2. IsSeq(s) /\ Len(s) = 0
    BY <1>1, <2>1, RunLogsAre
  <2>3. IsSeq(t) /\ Len(t) = 0
    <3>1. t \in Seq({})
      BY <2>1
    <3> QED BY <2>1, <3>1 DEF IsSeq
  <2>4. s = t
    BY <2>2, <2>3, SameSeq
  <2> QED BY <2>1, <2>4
<1>7. Carries({}, <<>>)
  BY <1>1, <1>2 DEF Carries, Wrote
<1> QED BY <1>1, <1>5, <1>6, <1>7

\* The rows of a new miniblock come after those without a batch.
LEMMA GrownCarries ==
    ASSUME NEW rows, NEW mbs, NEW top, BlocksOk(rows, mbs, top), NEW new, NEW mbs2, NEW nb,
           Grows(rows, mbs, top, new, mbs2, nb), NEW ops \in Seq(Ops), NEW more \in Seq(Ops),
           Carries(LogsIn(rows, mbs, None), ops), Carries(new, more)
    PROVE  Carries(LogsIn(rows, mbs, None) \cup new, ops \o more)
<1>1. PICK A, L : A = LogsIn(rows, mbs, None) /\ L = Len(mbs)
  OBVIOUS
<1>2. L \in Nat /\ \A r \in A : r.miniblock \in 1..L
  BY <1>1 DEF BlocksOk, LogsIn, IsSeq
<1>3. \A r \in new : r.miniblock = L + 1
  BY <1>1 DEF Grows
<1>4. \A p \in A, q \in new : Later(q, p)
  BY <1>2, <1>3 DEF Later
<1>5. Carries(A \cup new, ops \o more)
  BY <1>1, <1>4, CarriesJoined
<1> QED BY <1>1, <1>5

\* A miniblock more, without a batch.
LEMMA StateGrown ==
    ASSUME NEW rows, NEW mbs, NEW top, BlocksOk(rows, mbs, top), NEW new, NEW mbs2,
           Grows(rows, mbs, top, new, mbs2, None), NEW ops, NEW more \in Seq(Ops), NEW st,
           StateOk(rows, mbs, top, ops, st), Carries(new, more)
    PROVE  /\ BlocksOk(rows \cup new, mbs2, top)
           /\ StateOk(rows \cup new, mbs2, top, ops \o more, RunValues(st, more))
           /\ SameValues(rows, mbs, rows \cup new, mbs2, top)
<1>1. ops \in Seq(Ops) /\ Carries(LogsIn(rows, mbs, None), ops) /\ st = RunValues(ValuesTo(rows, mbs, top), ops)
  BY DEF StateOk
<1>2. PICK both, rows2 : both = LogsIn(rows, mbs, None) \cup new /\ rows2 = rows \cup new
  OBVIOUS
<1>3. Carries(both, ops \o more)
  BY <1>1, <1>2, GrownCarries
<1>4. Framed(rows, mbs, top, rows2, mbs2, None, new)
  BY <1>2, GrownFrame
<1>5. BlocksOk(rows2, mbs2, top)
  <2>1. HasNewest(both)
    BY <1>3, CarriesNewest
  <2>2. HasNewest(LogsIn(rows, mbs, None) \cup new)
    BY <1>2, <2>1
  <2>3. BlocksOk(rows \cup new, mbs2, IF None = None THEN top ELSE None)
    BY <2>2, GrownBlocks
  <2> QED BY <1>2, <2>3
<1>6. SameValues(rows, mbs, rows2, mbs2, top)
  BY <1>4 DEF Framed, SameValues
<1>7. LogsIn(rows2, mbs2, None) = both
  BY <1>2, <1>4 DEF Framed
<1>8. ValuesTo(rows2, mbs2, top) = ValuesTo(rows, mbs, top)
  <2>1. top \in (-1)..top
    BY DEF BlocksOk
  <2> QED BY <1>6, <2>1 DEF SameValues
<1>9. RunValues(st, more) = RunValues(ValuesTo(rows, mbs, top), ops \o more)
  <2>1. RunSplit(ValuesTo(rows, mbs, top), {}, ops, more)
    BY <1>1, RunJoined
  <2> QED BY <1>1, <2>1 DEF RunSplit
<1>10. ops \o more \in Seq(Ops)
  BY <1>1
<1>11. StateOk(rows2, mbs2, top, ops \o more, RunValues(st, more))
  BY <1>3, <1>7, <1>8, <1>9, <1>10 DEF StateOk
<1> QED BY <1>2, <1>5, <1>6, <1>11

\* The last miniblock of a batch.
SealedOk(rows, mbs, top, rows2, mbs2, next, all, st) ==
    /\ BlocksOk(rows2, mbs2, next)
    /\ StateOk(rows2, mbs2, next, <<>>, st)
    /\ SameValues(rows, mbs, rows2, mbs2, top)
    /\ Tree(rows2, mbs2, next) = Changed(ValuesTo(rows, mbs, top), all)

\* Sealing a batch turns its pending rows into the values after it.
LEMMA StateSealed ==
    ASSUME NEW rows, NEW mbs, NEW top, BlocksOk(rows, mbs, top), NEW new, NEW mbs2,
           Grows(rows, mbs, top, new, mbs2, top + 1), NEW ops, NEW more \in Seq(Ops), NEW st,
           StateOk(rows, mbs, top, ops, st), Carries(new, more)
    PROVE  SealedOk(rows, mbs, top, rows \cup new, mbs2, top + 1, ops \o more, RunValues(st, more))
<1>1. ops \in Seq(Ops) /\ Carries(LogsIn(rows, mbs, None), ops) /\ st = RunValues(ValuesTo(rows, mbs, top), ops)
  BY DEF StateOk
<1>2. PICK both, rows2, t, v : /\ both = LogsIn(rows, mbs, None) \cup new /\ rows2 = rows \cup new
                               /\ t = top + 1 /\ v = ValuesTo(rows, mbs, top)
  OBVIOUS
<1>3. top \in Nat /\ t \in 0..t /\ t - 1 = top /\ top \in (-1)..top /\ t # None /\ t \in (-1)..t
  <2>1. top \in Nat
    BY DEF BlocksOk
  <2> QED BY <1>2, <2>1 DEF None
<1>4. Carries(both, ops \o more)
  BY <1>1, <1>2, GrownCarries
<1>5. Framed(rows, mbs, top, rows2, mbs2, t, new)
  BY <1>2, GrownFrame
<1>6. BlocksOk(rows2, mbs2, t)
  <2>1. HasNewest(both)
    BY <1>4, CarriesNewest
  <2>2. HasNewest(LogsIn(rows, mbs, None) \cup new) /\ Grows(rows, mbs, top, new, mbs2, t)
    BY <1>2, <2>1
  <2>3. BlocksOk(rows \cup new, mbs2, IF t = None THEN top ELSE t)
    BY <2>2, GrownBlocks
  <2> QED BY <1>2, <1>3, <2>3
<1>7. SameValues(rows, mbs, rows2, mbs2, top)
  BY <1>5 DEF Framed, SameValues
<1>8. LogsIn(rows2, mbs2, t) = both /\ LogsIn(rows2, mbs2, None) = {}
  BY <1>2, <1>3, <1>5 DEF Framed
<1>9. ValuesTo(rows2, mbs2, top) = v
  BY <1>2, <1>3, <1>7 DEF SameValues
<1>10. RowsOk(both)
  <2>1. both \subseteq rows2 /\ RowsOk(rows2)
    BY <1>2, <1>6 DEF BlocksOk, LogsIn
  <2> QED BY <2>1, SomeRows
<1>11. ValuesTo(rows2, mbs2, t) = RunValues(v, ops \o more)
  <2>1. ValuesTo(rows2, mbs2, t) = LatestOr(LogsIn(rows2, mbs2, t), ValuesTo(rows2, mbs2, t - 1))
    BY <1>3, <1>6, ValuesNext
  <2>2. LatestOr(both, v) = RunValues(v, ops \o more)
    BY <1>4, <1>10, CarriedValues
  <2> QED BY <1>3, <1>8, <1>9, <2>1, <2>2
<1>12. RunValues(st, more) = RunValues(v, ops \o more)
  <2>1. RunSplit(v, {}, ops, more)
    BY <1>1, RunJoined
  <2> QED BY <1>1, <1>2, <2>1 DEF RunSplit
<1>13. ValuesTo(rows2, mbs2, t) \in [Keys -> Values]
  BY <1>3, <1>6, ValuesTyped
<1>14. <<>> \in Seq(Ops) /\ RunValues(ValuesTo(rows2, mbs2, t), <<>>) = ValuesTo(rows2, mbs2, t) /\ Carries({}, <<>>)
  BY <1>13, NothingRun
<1>15. StateOk(rows2, mbs2, t, <<>>, RunValues(st, more))
  BY <1>8, <1>11, <1>12, <1>14 DEF StateOk
<1>16. Tree(rows2, mbs2, t) = Changed(v, ops \o more)
  <2>1. Tree(rows2, mbs2, t) = {k \in Keys : ValuesTo(rows2, mbs2, t)[k] # ValuesTo(rows2, mbs2, t - 1)[k]}
    BY DEF Tree
  <2> QED BY <1>3, <1>9, <1>11, <2>1 DEF Changed
<1> QED BY <1>2, <1>6, <1>7, <1>15, <1>16 DEF SealedOk

\* The executor of an open batch that started with values base: ops are in
\* miniblocks, those of m in the open one.
ExecOk(known, base, ops, st, v, acc, d, m) ==
    /\ m.ops \in Seq(Ops) /\ m.txs \in Nat /\ (m.txs = 0 => m.ops = <<>>)
    /\ m.logs = RunLogs(st, known, m.ops)
    /\ v = RunValues(st, m.ops)
    /\ acc = RunLogs(base, known, ops \o m.ops)
    /\ Settled(d, base, v, known)

\* restore_state executes what is in miniblocks again.
LEMMA ExecOpened ==
    ASSUME NEW known, NEW base \in [Keys -> Values], NEW ops \in Seq(Ops)
    PROVE  ExecOk(known, base, ops, RunValues(base, ops), RunValues(base, ops), RunLogs(base, known, ops),
                  Apply(NewDeduplicator, RunLogs(base, known, ops)), NoMiniblock)
<1>1. PICK st, m, logs, d : /\ st = RunValues(base, ops) /\ m = NoMiniblock /\ logs = RunLogs(base, known, ops)
                            /\ d = Apply(NewDeduplicator, logs)
  OBVIOUS
<1>2. m.ops = <<>> /\ m.txs = 0 /\ m.logs = <<>>
  BY <1>1 DEF NoMiniblock
<1>3. st \in [Keys -> Values]
  BY <1>1, RunTypes
<1>4. <<>> \in Seq(Ops) /\ RunValues(st, <<>>) = st /\ RunLogs(st, known, <<>>) = <<>>
  BY <1>3, NothingRun
<1>5. ops \o m.ops = ops
  BY <1>2
<1>6. Settled(NewDeduplicator, base, base, known)
  BY NewDedupOk DEF Settled
<1>7. Settled(d, base, st, known)
  <2>1. Settled(Apply(NewDeduplicator, RunLogs(base, known, ops)), base, RunValues(base, ops), known)
    BY <1>6, ApplyIs
  <2> QED BY <1>1, <2>1
<1>8. ExecOk(known, base, ops, st, st, logs, d, m)
  BY <1>1, <1>2, <1>4, <1>5, <1>7 DEF ExecOk
<1> QED BY <1>1, <1>8

\* Where the executor is.
AtOps(base, ops, m, v, st) ==
    /\ v = RunValues(base, ops \o m.ops) /\ v \in [Keys -> Values]
    /\ ops \o m.ops \in Seq(Ops) /\ st \in [Keys -> Values]

\* The VM has run the pending transactions and then those of the open
\* miniblock.
LEMMA ExecAt ==
    ASSUME NEW known, NEW base \in [Keys -> Values], NEW ops \in Seq(Ops), NEW st, st = RunValues(base, ops),
           NEW v, NEW acc, NEW d, NEW m, ExecOk(known, base, ops, st, v, acc, d, m)
    PROVE  AtOps(base, ops, m, v, st)
<1>1. PICK t : t = m.ops
  OBVIOUS
<1>2. t \in Seq(Ops) /\ v = RunValues(st, t)
  BY <1>1 DEF ExecOk
<1>3. st \in [Keys -> Values]
  BY RunTypes
<1>4. v \in [Keys -> Values]
  BY <1>2, <1>3, RunTypes
<1>5. RunSplit(base, known, ops, t)
  BY <1>2, RunJoined
<1>6. ops \o t \in Seq(Ops)
  BY <1>2
<1> QED BY <1>1, <1>2, <1>3, <1>4, <1>5, <1>6 DEF AtOps, RunSplit

\* Joining accesses is associative.
LEMMA JoinedTwice ==
    ASSUME NEW s \in Seq(Ops), NEW t \in Seq(Ops), NEW u \in Seq(Ops)
    PROVE  s \o (t \o u) = (s \o t) \o u /\ t \o u \in Seq(Ops)
OBVIOUS

\* The open miniblock with one transaction more.
Extended(n, m, more, logs) == n.txs = m.txs + 1 /\ n.ops = m.ops \o more /\ n.logs = m.logs \o logs

\* A transaction is executed.
ExecNext(known, base, ops, st, v, acc, d, n, logs, w) ==
    ExecOk(known, base, ops, st, w, acc \o logs, Apply(ApplyAndRollback(d, logs), logs), n)

\* Executing one more transaction keeps what is known of the executor.
LEMMA ExecRun ==
    ASSUME NEW known, NEW base \in [Keys -> Values], NEW ops \in Seq(Ops), NEW st, st = RunValues(base, ops),
           NEW v, NEW acc, NEW d, NEW m, ExecOk(known, base, ops, st, v, acc, d, m),
           NEW more \in Seq(Ops), NEW n, Extended(n, m, more, RunLogs(v, known, more))
    PROVE  ExecNext(known, base, ops, st, v, acc, d, n, RunLogs(v, known, more), RunValues(v, more))
<1>1. PICK t, s : t = m.ops /\ s = ops \o t
  OBVIOUS
<1>2. /\ t \in Seq(Ops) /\ v = RunValues(st, t) /\ m.txs \in Nat /\ m.logs = RunLogs(st, known, t)
      /\ acc = RunLogs(base, known, s) /\ Settled(d, base, v, known)
  BY <1>1 DEF ExecOk
<1>3. v = RunValues(base, s) /\ v \in [Keys -> Values] /\ s \in Seq(Ops)
  <2>1. AtOps(base, ops, m, v, st)
    BY ExecAt
  <2> QED BY <1>1, <2>1 DEF AtOps
<1>4. RunLogs(base, known, s \o more) = RunLogs(base, known, s) \o RunLogs(RunValues(base, s), known, more)
  <2>1. RunSplit(base, known, s, more)
    BY <1>3, RunJoined
  <2> QED BY <2>1 DEF RunSplit
<1>5. /\ RunValues(st, t \o more) = RunValues(RunValues(st, t), more)
      /\ RunLogs(st, known, t \o more) = RunLogs(st, known, t) \o RunLogs(RunValues(st, t), known, more)
  <2>1. RunSplit(st, known, t, more)
    BY <1>2, RunJoined
  <2> QED BY <2>1 DEF RunSplit
<1>6. ops \o (t \o more) = s \o more /\ t \o more \in Seq(Ops)
  BY <1>1, <1>2, JoinedTwice
<1>7. PICK logs, w, e, g : /\ logs = RunLogs(v, known, more) /\ w = RunValues(v, more)
                           /\ e = ApplyAndRollback(d, logs) /\ g = Apply(e, logs)
  OBVIOUS
<1>8. n.ops = t \o more /\ n.txs = m.txs + 1 /\ n.logs = m.logs \o logs
  BY <1>1, <1>7 DEF Extended
<1>9. Settled(e, base, v, known)
  <2>1. Settled(ApplyAndRollback(d, RunLogs(v, known, more)), base, v, known)
    BY <1>2, <1>3, ApplyAndRollbackIs
  <2> QED BY <1>7, <2>1
<1>10. Settled(g, base, w, known)
  <2>1. Settled(Apply(e, RunLogs(v, known, more)), base, RunValues(v, more), known)
    BY <1>3, <1>9, ApplyIs
  <2> QED BY <1>7, <2>1
<1>11. n.logs = RunLogs(st, known, n.ops) /\ w = RunValues(st, n.ops)
  BY <1>2, <1>5, <1>7, <1>8
<1>12. acc \o logs = RunLogs(base, known, ops \o n.ops)
  BY <1>2, <1>3, <1>4, <1>6, <1>7, <1>8
<1>13. n.ops \in Seq(Ops) /\ n.txs \in Nat /\ n.txs # 0
  BY <1>2, <1>6, <1>8
<1>14. ExecOk(known, base, ops, st, w, acc \o logs, g, n)
  BY <1>10, <1>11, <1>12, <1>13 DEF ExecOk
<1> QED BY <1>7, <1>14 DEF ExecNext

\* The open miniblock is sealed.
LEMMA ExecSealed ==
    ASSUME NEW known, NEW base \in [Keys -> Values], NEW ops \in Seq(Ops), NEW st, st = RunValues(base, ops),
           NEW v, NEW acc, NEW d, NEW m, ExecOk(known, base, ops, st, v, acc, d, m)
    PROVE  ExecOk(known, base, ops \o m.ops, RunValues(st, m.ops), v, acc, d, NoMiniblock)
<1>1. PICK t, s, w, n : t = m.ops /\ s = ops \o t /\ w = RunValues(st, t) /\ n = NoMiniblock
  OBVIOUS
<1>2. /\ t \in Seq(Ops) /\ v = w
      /\ acc = RunLogs(base, known, s) /\ Settled(d, base, v, known)
  BY <1>1 DEF ExecOk
<1>3. v \in [Keys -> Values] /\ s \in Seq(Ops)
  <2>1. AtOps(base, ops, m, v, st)
    BY ExecAt
  <2> QED BY <1>1, <2>1 DEF AtOps
<1>4. n.ops = <<>> /\ n.txs = 0 /\ n.logs = <<>>
  BY <1>1 DEF NoMiniblock
<1>5. <<>> \in Seq(Ops) /\ RunValues(w, <<>>) = w /\ RunLogs(w, known, <<>>) = <<>>
  BY <1>2, <1>3, NothingRun
<1>6. s \o n.ops = s
  BY <1>3, <1>4
<1>7. ExecOk(known, base, s, w, v, acc, d, n)
  BY <1>2, <1>4, <1>5, <1>6 DEF ExecOk
<1> QED BY <1>1, <1>7

\* The executor when transactions may have been excluded: the VM has run some
\* accesses, and the logs of the open miniblock are those of its own.
RanOk(known, base, v, acc, m) ==
    /\ m.ops \in Seq(Ops) /\ m.txs \in Nat /\ (m.txs = 0 => m.ops = <<>>)
    /\ Logged(m.logs, m.ops)
    /\ \E ran \in Seq(Ops) : v = RunValues(base, ran) /\ acc = RunLogs(base, known, ran)

\* Without an excluded transaction that is so.
LEMMA ExecRan ==
    ASSUME NEW known, NEW base \in [Keys -> Values], NEW ops \in Seq(Ops), NEW st, st = RunValues(base, ops),
           NEW v, NEW acc, NEW d, NEW m, ExecOk(known, base, ops, st, v, acc, d, m)
    PROVE  RanOk(known, base, v, acc, m)
<1>1. PICK t, ran : t = m.ops /\ ran = ops \o t
  OBVIOUS
<1>2. t \in Seq(Ops) /\ m.txs \in Nat /\ (m.txs = 0 => t = <<>>) /\ m.logs = RunLogs(st, known, t)
      /\ acc = RunLogs(base, known, ran)
  BY <1>1 DEF ExecOk
<1>3. v = RunValues(base, ran) /\ ran \in Seq(Ops)
  <2>1. AtOps(base, ops, m, v, st)
    BY ExecAt
  <2> QED BY <1>1, <2>1 DEF AtOps
<1>4. Logged(m.logs, t)
  <2>1. Logged(RunLogs(st, known, t), t)
    BY <1>2, RunLogged
  <2> QED BY <1>2, <2>1
<1> QED BY <1>1, <1>2, <1>3, <1>4 DEF RanOk

\* The VM runs one more transaction.
LEMMA RanRun ==
    ASSUME NEW known, NEW base \in [Keys -> Values], NEW v, NEW acc, NEW m, RanOk(known, base, v, acc, m),
           NEW more \in Seq(Ops)
    PROVE  RanOk(known, base, RunValues(v, more), acc \o RunLogs(v, known, more), m)
<1>1. PICK ran \in Seq(Ops) : v = RunValues(base, ran) /\ acc = RunLogs(base, known, ran)
  BY DEF RanOk
<1>2. RunSplit(base, known, ran, more)
  BY RunJoined
<1>3. PICK next : next = ran \o more
  OBVIOUS
<1>4. next \in Seq(Ops)
  BY <1>3
<1>5. RunValues(v, more) = RunValues(base, next) /\ acc \o RunLogs(v, known, more) = RunLogs(base, known, next)
  BY <1>1, <1>2, <1>3 DEF RunSplit
<1> QED BY <1>4, <1>5 DEF RanOk

\* And it stays in the miniblock.
LEMMA RanKept ==
    ASSUME NEW known, NEW base \in [Keys -> Values], NEW v, NEW acc, NEW m, RanOk(known, base, v, acc, m),
           NEW more \in Seq(Ops), NEW n, Extended(n, m, more, RunLogs(v, known, more))
    PROVE  RanOk(known, base, RunValues(v, more), acc \o RunLogs(v, known, more), n)
<1>1. RanOk(known, base, RunValues(v, more), acc \o RunLogs(v, known, more), m)
  BY RanRun
<1>2. PICK t, f, g : t = m.ops /\ f = m.logs /\ g = RunLogs(v, known, more)
  OBVIOUS
<1>3. t \in Seq(Ops) /\ m.txs \in Nat /\ Logged(f, t)
  BY <1>2 DEF RanOk
<1>4. n.txs = m.txs + 1 /\ n.ops = t \o more /\ n.logs = f \o g
  BY <1>2 DEF Extended
<1>5. n.ops \in Seq(Ops) /\ n.txs \in Nat /\ n.txs # 0
  BY <1>3, <1>4
<1>6. Logged(n.logs, n.ops)
  <2>1. Logged(g, more)
    BY <1>2, RunLogged
  <2>2. Logged(f \o g, t \o more)
    BY <1>3, <2>1, LoggedJoined
  <2> QED BY <1>4, <2>2
<1> QED BY <1>1, <1>5, <1>6 DEF RanOk

\* A new miniblock is begun.
LEMMA RanSealed ==
    ASSUME NEW known, NEW base \in [Keys -> Values], NEW v, NEW acc, NEW m, RanOk(known, base, v, acc, m)
    PROVE  RanOk(known, base, v, acc, NoMiniblock)
<1>1. PICK n : n = NoMiniblock
  OBVIOUS
<1>2. n.ops = <<>> /\ n.txs = 0 /\ n.logs = <<>>
  BY <1>1 DEF NoMiniblock
<1>3. <<>> \in Seq(Ops) /\ RunLogs(base, known, <<>>) = <<>>
  BY NothingRun
<1>4. Logged(n.logs, n.ops)
  <2>1. Logged(RunLogs(base, known, <<>>), <<>>)
    BY <1>3, RunLogged
  <2> QED BY <1>2, <1>3, <2>1
<1>5. RanOk(known, base, v, acc, n)
  BY <1>2, <1>3, <1>4 DEF RanOk
<1> QED BY <1>1, <1>5

\* The states RocksDB may be in.
StatesOk(db, rows, mbs, top) ==
    /\ IsSeq(db) /\ Len(db) # 0
    /\ \A i \in 1..Len(db) : ValuesRow(db[i], rows, mbs, top)

RocksOk(db, rows, mbs, iw, top) ==
    /\ IsSeq(db) /\ Len(db) # 0
    /\ \A i \in 1..Len(db) : RocksRow(db[i], rows, mbs, iw, top)

(***************************************************************************)
(* The inductive invariant: the tables, the states of RocksDB, and the     *)
(* executor of an open batch.  What clean and excluded guard is lost when  *)
(* a batch is sealed after an excluded transaction; the rest never is.     *)
(***************************************************************************)
TablesInv ==
    /\ BlocksOk(storageLogs, miniblocks, sealed)
    /\ StateOk(storageLogs, miniblocks, sealed, pending.ops, storage)
    /\ IndexOk(initialWrites) /\ \A w \in initialWrites : w.batch \in 0..sealed
    /\ pending.excluded \in Nat
    /\ clean => /\ WritesOk(initialWrites, storageLogs, miniblocks, sealed)
                /\ ReadsOk(protectiveReads, storageLogs, miniblocks, sealed)

RocksInv ==
    /\ StatesOk(rocksdb, storageLogs, miniblocks, sealed)
    /\ clean => RocksOk(rocksdb, storageLogs, miniblocks, initialWrites, sealed)

ExecInv ==
    /\ excluded \in Nat
    /\ open => /\ Rocks.next = sealed + 1
               /\ RanOk(Known, ValuesTo(storageLogs, miniblocks, sealed), vm, accesses, mini)
    /\ open /\ excluded = 0 =>
         ExecOk(Known, ValuesTo(storageLogs, miniblocks, sealed), pending.ops, storage,
                vm, accesses, dedup, mini)

StorageInv == TablesInv /\ RocksInv /\ ExecInv

\* The current state of RocksDB is one of its states.
LEMMA CurrentValues ==
    ASSUME NEW rows, NEW mbs, NEW top, StatesOk(rocksdb, rows, mbs, top)
    PROVE  ValuesRow(Rocks, rows, mbs, top) /\ Len(rocksdb) \in 1..Len(rocksdb)
<1>1. Len(rocksdb) \in Nat /\ Len(rocksdb) # 0
  BY DEF StatesOk, IsSeq
<1>2. Len(rocksdb) \in 1..Len(rocksdb)
  BY <1>1
<1> QED BY <1>2 DEF StatesOk, Rocks

\* The same while no batch was sealed after an excluded transaction.
LEMMA CurrentRow ==
    ASSUME NEW rows, NEW mbs, NEW iw, NEW top, RocksOk(rocksdb, rows, mbs, iw, top)
    PROVE  RocksRow(Rocks, rows, mbs, iw, top) /\ Len(rocksdb) \in 1..Len(rocksdb)
<1>1. Len(rocksdb) \in Nat /\ Len(rocksdb) # 0
  BY DEF RocksOk, IsSeq
<1>2. Len(rocksdb) \in 1..Len(rocksdb)
  BY <1>1
<1> QED BY <1>2 DEF RocksOk, Rocks

\* What read_value answers when RocksDB is up to date.
LEMMA CurrentState ==
    ASSUME StorageInv, Rocks.next = sealed + 1
    PROVE  RocksValues = ValuesTo(storageLogs, miniblocks, sealed)
<1>1. PICK r : r = Rocks
  OBVIOUS
<1>2. ValuesRow(r, storageLogs, miniblocks, sealed)
  BY <1>1, CurrentValues DEF StorageInv, RocksInv
<1>3. [k \in Keys |-> IF r.values[k] = None THEN 0 ELSE r.values[k]] = ValuesTo(storageLogs, miniblocks, sealed)
  BY <1>1, <1>2, ValuesCurrent DEF StorageInv, TablesInv
<1> QED BY <1>1, <1>3 DEF RocksValues

\* And which slots it knows.
LEMMA CurrentKnown ==
    ASSUME StorageInv, clean, Rocks.next = sealed + 1
    PROVE  Known = KnownBy(initialWrites, sealed)
<1>1. PICK r : r = Rocks
  OBVIOUS
<1>2. RocksRow(r, storageLogs, miniblocks, initialWrites, sealed)
  BY <1>1, CurrentRow DEF StorageInv, RocksInv
<1>3. {k \in Keys : r.values[k] # None} = KnownBy(initialWrites, sealed)
  BY <1>1, <1>2, RocksCurrent DEF StorageInv, TablesInv
<1> QED BY <1>1, <1>3 DEF Known

\* The values after the last batch.
LEMMA LastValues ==
    ASSUME StorageInv
    PROVE  /\ sealed \in Nat
           /\ ValuesTo(storageLogs, miniblocks, sealed) \in [Keys -> Values]
           /\ pending.ops \in Seq(Ops)
           /\ storage = RunValues(ValuesTo(storageLogs, miniblocks, sealed), pending.ops)
<1>1. BlocksOk(storageLogs, miniblocks, sealed) /\ StateOk(storageLogs, miniblocks, sealed, pending.ops, storage)
  BY DEF StorageInv, TablesInv
<1>2. sealed \in Nat
  BY <1>1 DEF BlocksOk
<1>3. sealed \in (-1)..sealed
  BY <1>2
<1>4. ValuesTo(storageLogs, miniblocks, sealed) \in [Keys -> Values]
  BY <1>1, <1>3, ValuesTyped
<1> QED BY <1>1, <1>2, <1>4 DEF StateOk

\* A step that leaves the tables alone keeps what is known of them,
LEMMA TablesKept ==
    ASSUME StorageInv, UNCHANGED tables
    PROVE  TablesInv'
BY DEF StorageInv, TablesInv, tables

\* and of RocksDB, if it is left alone too.
LEMMA RocksLeft ==
    ASSUME StorageInv, UNCHANGED <<tables, rocksdb>>
    PROVE  RocksInv'
BY DEF StorageInv, RocksInv, tables

\* A batch is written to RocksDB.
LEMMA LoadBatchStep ==
    ASSUME StorageInv, LoadBatch
    PROVE  StorageInv'
<1>1. TablesInv' /\ UNCHANGED tables
  BY TablesKept DEF LoadBatch
<1>2. ~ open' /\ excluded' \in Nat
  BY DEF LoadBatch, executor, StorageInv, ExecInv
<1>3. PICK r, s, db : /\ r = Rocks /\ db = Append(rocksdb, s)
                      /\ s = [next |-> r.next + 1,
                              values |-> ProcessTransactionLogs(r.values, GetTouchedSlots(r.next)),
                              deps |-> r.deps \cup GetL1BatchFactoryDeps(r.next)]
  OBVIOUS
<1>4. r.next <= sealed /\ rocksdb' = db
  BY <1>3 DEF LoadBatch
<1>5. /\ s.next = r.next + 1
      /\ s.values = ProcessTransactionLogs(r.values, LatestOr(LogsIn(storageLogs, miniblocks, r.next), Nones))
      /\ s.deps = r.deps \cup DepsIn(miniblocks, r.next)
  BY <1>3 DEF GetTouchedSlots, GetL1BatchFactoryDeps, LogsOf, LogsIn, Nones, DepsIn, MiniblocksOf
<1>6. BlocksOk(storageLogs, miniblocks, sealed)
  BY DEF StorageInv, TablesInv
<1>7. IsSeq(rocksdb) /\ \A i \in 1..Len(rocksdb) : ValuesRow(rocksdb[i], storageLogs, miniblocks, sealed)
  BY DEF StorageInv, RocksInv, StatesOk
<1>8. PICK L : L = Len(rocksdb)
  OBVIOUS
<1>9. /\ IsSeq(db) /\ L \in Nat /\ Len(db) = L + 1 /\ Len(db) # 0
      /\ \A i \in 1..L : db[i] = rocksdb[i]
      /\ db[L + 1] = s /\ \A i \in 1..(L + 1) : i \in 1..L \/ i = L + 1
  <2>1. /\ IsSeq(db) /\ Len(rocksdb) \in Nat /\ Len(db) = Len(rocksdb) + 1
        /\ \A i \in 1..Len(rocksdb) : db[i] = rocksdb[i]
        /\ db[Len(rocksdb) + 1] = s
    BY <1>3, <1>7, Appended
  <2> QED BY <1>8, <2>1
<1>10. StatesOk(db, storageLogs, miniblocks, sealed)
  <2>1. ValuesRow(r, storageLogs, miniblocks, sealed)
    BY <1>3, CurrentValues DEF StorageInv, RocksInv
  <2>2. ValuesRow(s, storageLogs, miniblocks, sealed)
    BY <1>4, <1>5, <1>6, <2>1, ValuesLoaded
  <2>3. ASSUME NEW i \in 1..(L + 1) PROVE ValuesRow(db[i], storageLogs, miniblocks, sealed)
    BY <1>7, <1>8, <1>9, <2>2
  <2> QED BY <1>9, <2>3 DEF StatesOk
<1>11. ASSUME clean PROVE RocksOk(db, storageLogs, miniblocks, initialWrites, sealed)
  <2>1. RocksOk(rocksdb, storageLogs, miniblocks, initialWrites, sealed)
    BY <1>11 DEF StorageInv, RocksInv
  <2>2. RocksRow(r, storageLogs, miniblocks, initialWrites, sealed)
    BY <1>3, <2>1, CurrentRow
  <2>3. WritesOk(initialWrites, storageLogs, miniblocks, sealed)
    BY <1>11 DEF StorageInv, TablesInv
  <2>4. RocksRow(s, storageLogs, miniblocks, initialWrites, sealed)
    BY <1>4, <1>5, <1>6, <2>2, <2>3, RocksLoaded
  <2>5. \A i \in 1..L : RocksRow(rocksdb[i], storageLogs, miniblocks, initialWrites, sealed)
    BY <1>8, <2>1 DEF RocksOk
  <2>6. ASSUME NEW i \in 1..(L + 1) PROVE RocksRow(db[i], storageLogs, miniblocks, initialWrites, sealed)
    BY <1>9, <2>4, <2>5
  <2> QED BY <1>9, <2>6 DEF RocksOk
<1>12. RocksInv'
  BY <1>1, <1>4, <1>10, <1>11 DEF RocksInv, tables
<1> QED BY <1>1, <1>2, <1>12 DEF StorageInv, ExecInv

\* A batch is opened, and what is in miniblocks executed again.
LEMMA OpenBatchStep ==
    ASSUME StorageInv, OpenBatch
    PROVE  StorageInv'
<1>1. TablesInv' /\ RocksInv' /\ UNCHANGED <<tables, rocksdb>>
  BY TablesKept, RocksLeft DEF OpenBatch
<1>2. Rocks.next = sealed + 1 /\ Known' = Known /\ Rocks' = Rocks /\ excluded' \in Nat
  BY <1>1 DEF OpenBatch, Known, Rocks, StorageInv, TablesInv
<1>3. PICK base, known, ops : /\ base = ValuesTo(storageLogs, miniblocks, sealed) /\ known = Known
                              /\ ops = pending.ops
  OBVIOUS
<1>4. RocksValues = base
  BY <1>2, <1>3, CurrentState
<1>5. base \in [Keys -> Values] /\ ops \in Seq(Ops) /\ storage = RunValues(base, ops)
  BY <1>3, LastValues
<1>6. ExecOk(known, base, ops, RunValues(base, ops), RunValues(base, ops), RunLogs(base, known, ops),
             Apply(NewDeduplicator, RunLogs(base, known, ops)), NoMiniblock)
  BY <1>5, ExecOpened
<1>7. /\ Execute(base, known, ops).values = RunValues(base, ops)
      /\ Execute(base, known, ops).logs = RunLogs(base, known, ops)
  BY RunIs
<1>8. /\ vm' = RunValues(base, ops) /\ accesses' = RunLogs(base, known, ops)
      /\ dedup' = Apply(NewDeduplicator, RunLogs(base, known, ops)) /\ mini' = NoMiniblock
  BY <1>3, <1>4, <1>7 DEF OpenBatch
<1>9. ExecOk(known, base, ops, storage, vm', accesses', dedup', mini')
  BY <1>5, <1>6, <1>8
<1>10. RanOk(known, base, vm', accesses', mini')
  BY <1>5, <1>9, ExecRan
<1>11. /\ ExecOk(Known', ValuesTo(storageLogs', miniblocks', sealed'), pending'.ops, storage', vm', accesses', dedup', mini')
       /\ RanOk(Known', ValuesTo(storageLogs', miniblocks', sealed'), vm', accesses', mini')
  BY <1>1, <1>2, <1>3, <1>9, <1>10 DEF tables
<1>12. Rocks'.next = sealed' + 1
  BY <1>1, <1>2 DEF tables
<1> QED BY <1>1, <1>2, <1>11, <1>12 DEF StorageInv, ExecInv

\* A transaction is executed and stays.
LEMMA ExecuteTxStep ==
    ASSUME StorageInv, NEW tx \in Txs, ExecuteTx(tx)
    PROVE  StorageInv'
<1>1. TablesInv' /\ RocksInv' /\ UNCHANGED <<tables, rocksdb, open, excluded>>
  BY TablesKept, RocksLeft DEF ExecuteTx
<1>2. open /\ Rocks.next = sealed + 1 /\ Known' = Known /\ Rocks' = Rocks /\ excluded' \in Nat
  BY <1>1 DEF ExecuteTx, StorageInv, ExecInv, Known, Rocks
<1>3. PICK base, known, ops, more, logs : /\ base = ValuesTo(storageLogs, miniblocks, sealed) /\ known = Known
                                          /\ ops = pending.ops /\ more = tx.ops /\ logs = RunLogs(vm, known, more)
  OBVIOUS
<1>4. base \in [Keys -> Values] /\ ops \in Seq(Ops) /\ storage = RunValues(base, ops) /\ more \in Seq(Ops)
  BY <1>3, LastValues, StorageAssumption
<1>5. Execute(vm, known, more).values = RunValues(vm, more) /\ Execute(vm, known, more).logs = logs
  BY <1>3, RunIs
<1>6. /\ vm' = RunValues(vm, more) /\ accesses' = accesses \o logs
      /\ dedup' = Apply(ApplyAndRollback(dedup, logs), logs)
      /\ mini' = [txs |-> mini.txs + 1, ops |-> mini.ops \o more, logs |-> mini.logs \o logs,
                  deps |-> mini.deps \cup tx.deps]
  BY <1>3, <1>5 DEF ExecuteTx
<1>7. PICK n : n = mini'
  OBVIOUS
<1>8. Extended(n, mini, more, RunLogs(vm, known, more))
  <2>1. n.txs = mini.txs + 1 /\ n.ops = mini.ops \o more /\ n.logs = mini.logs \o logs
    BY <1>6, <1>7
  <2> QED BY <1>3, <2>1 DEF Extended
<1>9. RanOk(known, base, vm', accesses', mini')
  <2>1. RanOk(known, base, vm, accesses, mini)
    BY <1>2, <1>3 DEF StorageInv, ExecInv
  <2>2. RanOk(known, base, RunValues(vm, more), accesses \o RunLogs(vm, known, more), n)
    BY <1>4, <1>8, <2>1, RanKept
  <2> QED BY <1>3, <1>6, <1>7, <2>2
<1>10. ASSUME excluded = 0 PROVE ExecOk(known, base, ops, storage, vm', accesses', dedup', mini')
  <2>1. ExecOk(known, base, ops, storage, vm, accesses, dedup, mini)
    BY <1>2, <1>3, <1>10 DEF StorageInv, ExecInv
  <2>2. ExecNext(known, base, ops, storage, vm, accesses, dedup, n, RunLogs(vm, known, more), RunValues(vm, more))
    BY <1>4, <1>8, <2>1, ExecRun
  <2> QED BY <1>3, <1>6, <1>7, <2>2 DEF ExecNext
<1>11. /\ RanOk(Known', ValuesTo(storageLogs', miniblocks', sealed'), vm', accesses', mini')
       /\ excluded' = 0 => ExecOk(Known', ValuesTo(storageLogs', miniblocks', sealed'), pending'.ops, storage',
                                  vm', accesses', dedup', mini')
  BY <1>1, <1>2, <1>3, <1>9, <1>10 DEF tables
<1>12. Rocks'.next = sealed' + 1
  BY <1>1, <1>2 DEF tables
<1> QED BY <1>1, <1>2, <1>11, <1>12 DEF StorageInv, ExecInv

\* A transaction is executed and excluded: the VM keeps it.
LEMMA ExcludeTxStep ==
    ASSUME StorageInv, NEW tx \in Txs, ExcludeTx(tx)
    PROVE  StorageInv'
<1>1. TablesInv' /\ RocksInv' /\ UNCHANGED <<tables, rocksdb, open, mini>>
  BY TablesKept, RocksLeft DEF ExcludeTx
<1>2. open /\ Rocks.next = sealed + 1 /\ Known' = Known /\ Rocks' = Rocks
  BY <1>1 DEF ExcludeTx, StorageInv, ExecInv, Known, Rocks
<1>3. excluded' \in Nat /\ excluded' # 0
  BY DEF ExcludeTx, StorageInv, ExecInv
<1>4. PICK base, known, more, logs : /\ base = ValuesTo(storageLogs, miniblocks, sealed) /\ known = Known
                                     /\ more = tx.ops /\ logs = RunLogs(vm, known, more)
  OBVIOUS
<1>5. base \in [Keys -> Values] /\ more \in Seq(Ops)
  BY <1>4, LastValues, StorageAssumption
<1>6. Execute(vm, known, more).values = RunValues(vm, more) /\ Execute(vm, known, more).logs = logs
  BY <1>4, RunIs
<1>7. vm' = RunValues(vm, more) /\ accesses' = accesses \o logs
  BY <1>4, <1>6 DEF ExcludeTx
<1>8. RanOk(known, base, vm', accesses', mini')
  <2>1. RanOk(known, base, vm, accesses, mini)
    BY <1>2, <1>4 DEF StorageInv, ExecInv
  <2>2. RanOk(known, base, RunValues(vm, more), accesses \o RunLogs(vm, known, more), mini)
    BY <1>5, <2>1, RanRun
  <2> QED BY <1>1, <1>4, <1>7, <2>2
<1>9. RanOk(Known', ValuesTo(storageLogs', miniblocks', sealed'), vm', accesses', mini')
  BY <1>1, <1>2, <1>4, <1>8 DEF tables
<1>10. Rocks'.next = sealed' + 1
  BY <1>1, <1>2 DEF tables
<1> QED BY <1>1, <1>3, <1>9, <1>10 DEF StorageInv, ExecInv

\* The process ends.
LEMMA CrashStep ==
    ASSUME StorageInv, Crash
    PROVE  StorageInv'
<1>1. TablesInv' /\ ~ open' /\ excluded' = 0 /\ UNCHANGED tables
  BY TablesKept DEF Crash
<1>2. PICK n \in DOMAIN rocksdb : rocksdb' = SubSeq(rocksdb, 1, n)
  BY DEF Crash
<1>3. IsSeq(rocksdb)
  BY DEF StorageInv, RocksInv, StatesOk
<1>4. n \in 1..Len(rocksdb) /\ Len(rocksdb) \in Nat
  BY <1>2, <1>3 DEF IsSeq
<1>5. PICK db : db = SubSeq(rocksdb, 1, n)
  OBVIOUS
<1>6. /\ IsSeq(db) /\ Len(db) = n /\ n # 0
      /\ \A i \in 1..n : db[i] = rocksdb[i] /\ i \in 1..Len(rocksdb)
  BY <1>3, <1>4, <1>5, Shortened
<1>7. StatesOk(db, storageLogs, miniblocks, sealed)
  <2>1. \A i \in 1..Len(rocksdb) : ValuesRow(rocksdb[i], storageLogs, miniblocks, sealed)
    BY DEF StorageInv, RocksInv, StatesOk
  <2> QED BY <1>6, <2>1 DEF StatesOk
<1>8. ASSUME clean PROVE RocksOk(db, storageLogs, miniblocks, initialWrites, sealed)
  <2>1. \A i \in 1..Len(rocksdb) : RocksRow(rocksdb[i], storageLogs, miniblocks, initialWrites, sealed)
    BY <1>8 DEF StorageInv, RocksInv, RocksOk
  <2> QED BY <1>6, <2>1 DEF RocksOk
<1>9. RocksInv'
  BY <1>1, <1>2, <1>5, <1>7, <1>8 DEF RocksInv, tables
<1> QED BY <1>1, <1>9 DEF StorageInv, ExecInv

\* The states of RocksDB when the tables grow,
LEMMA StatesKept ==
    ASSUME NEW rows, NEW mbs, NEW rows2, NEW mbs2, NEW top \in Nat, NEW top2 \in Nat, top <= top2,
           SameValues(rows, mbs, rows2, mbs2, top), \A b \in 0..top : DepsIn(mbs2, b) = DepsIn(mbs, b),
           NEW db, StatesOk(db, rows, mbs, top)
    PROVE  StatesOk(db, rows2, mbs2, top2)
<1>1. ASSUME NEW i \in 1..Len(db) PROVE ValuesRow(db[i], rows2, mbs2, top2)
  <2>1. ValuesRow(db[i], rows, mbs, top)
    BY DEF StatesOk
  <2> QED BY <2>1, ValuesSame
<1> QED BY <1>1 DEF StatesOk

\* and its entries.
LEMMA RocksKept ==
    ASSUME NEW rows, NEW mbs, NEW iw, NEW rows2, NEW mbs2, NEW iw2, NEW top \in Nat, NEW top2 \in Nat,
           top <= top2, SameBatches(rows, mbs, iw, rows2, mbs2, iw2, top),
           NEW db, RocksOk(db, rows, mbs, iw, top)
    PROVE  RocksOk(db, rows2, mbs2, iw2, top2)
<1>1. ASSUME NEW i \in 1..Len(db) PROVE RocksRow(db[i], rows2, mbs2, iw2, top2)
  <2>1. RocksRow(db[i], rows, mbs, iw, top)
    BY DEF RocksOk
  <2> QED BY <2>1, RocksSame
<1> QED BY <1>1 DEF RocksOk

\* The miniblocks with one more.
LEMMA AppendGrows ==
    ASSUME NEW rows, NEW mbs, NEW top, BlocksOk(rows, mbs, top), NEW new, RowsOk(new),
           \A r \in new : r.miniblock = Len(mbs) + 1, NEW m, m.batch = None
    PROVE  Grows(rows, mbs, top, new, Append(mbs, m), None)
<1>1. PICK mbs2 : mbs2 = Append(mbs, m)
  OBVIOUS
<1>2. IsSeq(mbs)
  BY DEF BlocksOk
<1>3. /\ IsSeq(mbs2) /\ Len(mbs2) = Len(mbs) + 1 /\ mbs2[Len(mbs) + 1] = m
      /\ \A i \in 1..Len(mbs) : mbs2[i] = mbs[i]
  BY <1>1, <1>2, Appended
<1>4. Grows(rows, mbs, top, new, mbs2, None)
  BY <1>3 DEF Grows
<1> QED BY <1>1, <1>4

\* seal_inner of a miniblock.
LEMMA SealMiniblockStep ==
    ASSUME StorageInv, SealMiniblock
    PROVE  StorageInv'
<1>1. open /\ Rocks.next = sealed + 1 /\ Known' = Known /\ Rocks' = Rocks /\ rocksdb' = rocksdb /\ excluded \in Nat
  BY DEF SealMiniblock, StorageInv, ExecInv, Known, Rocks
<1>2. PICK base, known, ops, more, writes, new, m, mbs2 :
        /\ base = ValuesTo(storageLogs, miniblocks, sealed) /\ known = Known /\ ops = pending.ops
        /\ more = mini.ops /\ writes = WriteLogs(mini.logs) /\ new = LogRows(Len(miniblocks) + 1, writes)
        /\ m = [batch |-> None, deps |-> NewDeps(mini.deps)] /\ mbs2 = Append(miniblocks, m)
  OBVIOUS
<1>3. base \in [Keys -> Values] /\ ops \in Seq(Ops) /\ storage = RunValues(base, ops) /\ sealed \in Nat
  BY <1>2, LastValues
<1>4. RanOk(known, base, vm, accesses, mini)
  BY <1>1, <1>2 DEF StorageInv, ExecInv
<1>5. more \in Seq(Ops) /\ Logged(mini.logs, more)
  BY <1>2, <1>4 DEF RanOk
<1>6. IsWrites(writes, more)
  BY <1>2, <1>5, LoggedWrites
<1>7. BlocksOk(storageLogs, miniblocks, sealed) /\ Len(miniblocks) \in Nat
  BY DEF StorageInv, TablesInv, BlocksOk, IsSeq
<1>8. RowsOk(new) /\ (\A r \in new : r.miniblock = Len(miniblocks) + 1) /\ Carries(new, more)
  <2>1. Len(miniblocks) + 1 \in Nat
    BY <1>7
  <2> QED BY <1>2, <1>5, <1>6, <2>1, NewRowsCarry
<1>9. Grows(storageLogs, miniblocks, sealed, new, mbs2, None)
  <2>1. m.batch = None
    BY <1>2
  <2> QED BY <1>2, <1>7, <1>8, <2>1, AppendGrows
<1>10. StateOk(storageLogs, miniblocks, sealed, ops, storage)
  BY <1>2 DEF StorageInv, TablesInv
<1>11. PICK rows2, st2 : rows2 = storageLogs \cup new /\ st2 = RunValues(storage, more)
  OBVIOUS
<1>12. /\ BlocksOk(rows2, mbs2, sealed)
       /\ StateOk(rows2, mbs2, sealed, ops \o more, st2)
       /\ SameValues(storageLogs, miniblocks, rows2, mbs2, sealed)
  BY <1>5, <1>7, <1>8, <1>9, <1>10, <1>11, StateGrown
<1>13. /\ miniblocks' = mbs2 /\ storageLogs' = rows2 /\ pending'.ops = ops \o more /\ storage' = st2
       /\ pending'.excluded = excluded /\ mini' = NoMiniblock
       /\ UNCHANGED <<initialWrites, protectiveReads, sealed, rocksdb, vm, accesses, dedup, open, excluded, clean>>
  <2>1. ApplyStorageLogs(writes) = RunValues(storage, more)
    BY <1>5, <1>6, Applied
  <2> QED BY <1>2, <1>11, <2>1 DEF SealMiniblock
<1>14. ASSUME clean
       PROVE  WritesOk(initialWrites, rows2, mbs2, sealed) /\ ReadsOk(protectiveReads, rows2, mbs2, sealed)
  <2>1. /\ WritesOk(initialWrites, storageLogs, miniblocks, sealed)
        /\ ReadsOk(protectiveReads, storageLogs, miniblocks, sealed)
    BY <1>14 DEF StorageInv, TablesInv
  <2> QED BY <1>3, <1>12, <2>1, WritesSame, ReadsSame
<1>15. TablesInv'
  <2>1. IndexOk(initialWrites) /\ \A w \in initialWrites : w.batch \in 0..sealed
    BY DEF StorageInv, TablesInv
  <2> QED BY <1>1, <1>12, <1>13, <1>14, <2>1 DEF TablesInv
<1>16. \A b \in 0..sealed : DepsIn(mbs2, b) = DepsIn(miniblocks, b)
  BY <1>7, <1>9, GrownDeps
<1>17. sealed <= sealed
  BY <1>3
<1>18. StatesOk(rocksdb, rows2, mbs2, sealed)
  <2>1. StatesOk(rocksdb, storageLogs, miniblocks, sealed)
    BY DEF StorageInv, RocksInv
  <2> QED BY <1>3, <1>12, <1>16, <1>17, <2>1, StatesKept
<1>19. ASSUME clean PROVE RocksOk(rocksdb, rows2, mbs2, initialWrites, sealed)
  <2>1. SameBatches(storageLogs, miniblocks, initialWrites, rows2, mbs2, initialWrites, sealed)
    BY <1>12, <1>16 DEF SameBatches
  <2>2. RocksOk(rocksdb, storageLogs, miniblocks, initialWrites, sealed)
    BY <1>19 DEF StorageInv, RocksInv
  <2> QED BY <1>3, <1>17, <2>1, <2>2, RocksKept
<1>20. RocksInv'
  BY <1>13, <1>18, <1>19 DEF RocksInv
<1>21. ValuesTo(rows2, mbs2, sealed) = base
  <2>1. sealed \in (-1)..sealed
    BY <1>3
  <2> QED BY <1>2, <1>12, <2>1 DEF SameValues
<1>22. RanOk(known, base, vm, accesses, NoMiniblock)
  BY <1>3, <1>4, RanSealed
<1>23. ASSUME excluded = 0 PROVE ExecOk(known, base, ops \o more, st2, vm, accesses, dedup, NoMiniblock)
  <2>1. ExecOk(known, base, ops, storage, vm, accesses, dedup, mini)
    BY <1>1, <1>2, <1>23 DEF StorageInv, ExecInv
  <2>2. ExecOk(known, base, ops \o mini.ops, RunValues(storage, mini.ops), vm, accesses, dedup, NoMiniblock)
    BY <1>3, <2>1, ExecSealed
  <2> QED BY <1>2, <1>11, <2>2
<1>24. /\ RanOk(Known', ValuesTo(storageLogs', miniblocks', sealed'), vm', accesses', mini')
       /\ excluded' = 0 => ExecOk(Known', ValuesTo(storageLogs', miniblocks', sealed'), pending'.ops, storage',
                                  vm', accesses', dedup', mini')
  BY <1>1, <1>2, <1>13, <1>21, <1>22, <1>23
<1>25. Rocks'.next = sealed' + 1 /\ excluded' \in Nat
  BY <1>1, <1>13
<1> QED BY <1>15, <1>20, <1>24, <1>25 DEF StorageInv, ExecInv

\* The miniblocks without a batch get one, and a last one is added.
LEMMA SealedGrows ==
    ASSUME NEW rows, NEW mbs, NEW top, BlocksOk(rows, mbs, top), NEW new, RowsOk(new),
           \A r \in new : r.miniblock = Len(mbs) + 1
    PROVE  Grows(rows, mbs, top, new,
                 Append([i \in 1..Len(mbs) |-> IF Pending(mbs[i]) THEN [batch |-> top + 1, deps |-> mbs[i].deps]
                                               ELSE mbs[i]],
                        [batch |-> top + 1, deps |-> {}]), top + 1)
<1>1. PICK t, s, m, mbs2 : /\ t = top + 1
                           /\ s = [i \in 1..Len(mbs) |-> IF Pending(mbs[i]) THEN [batch |-> t, deps |-> mbs[i].deps]
                                                         ELSE mbs[i]]
                           /\ m = [batch |-> t, deps |-> {}]
                           /\ mbs2 = Append(s, m)
  OBVIOUS
<1>2. Len(mbs) \in Nat
  BY DEF BlocksOk, IsSeq
<1>3. IsSeq(s) /\ Len(s) = Len(mbs)
  <2> DEFINE R == {IF Pending(mbs[i]) THEN [batch |-> t, deps |-> mbs[i].deps] ELSE mbs[i] : i \in 1..Len(mbs)}
  <2>1. s \in [1..Len(mbs) -> R]
    BY <1>1
  <2> HIDE DEF R
  <2>2. s \in Seq(R) /\ Len(s) = Len(mbs)
    BY <1>2, <2>1
  <2> QED BY <2>2 DEF IsSeq
<1>4. /\ IsSeq(mbs2) /\ Len(mbs2) = Len(mbs) + 1 /\ mbs2[Len(mbs) + 1] = m
      /\ \A i \in 1..Len(mbs) : mbs2[i] = s[i]
  <2>1. /\ IsSeq(mbs2) /\ Len(mbs2) = Len(s) + 1 /\ mbs2[Len(s) + 1] = m
        /\ \A i \in 1..Len(s) : mbs2[i] = s[i]
    BY <1>1, <1>3, Appended
  <2> QED BY <1>3, <2>1
<1>5. ASSUME NEW i \in 1..Len(mbs)
      PROVE  /\ mbs2[i].deps = mbs[i].deps
             /\ mbs2[i].batch = IF mbs[i].batch = None THEN t ELSE mbs[i].batch
  <2>1. mbs2[i] = IF mbs[i].batch = None THEN [batch |-> t, deps |-> mbs[i].deps] ELSE mbs[i]
    BY <1>1, <1>4 DEF Pending
  <2> QED BY <2>1
<1>6. m.batch = t
  BY <1>1
<1>7. Grows(rows, mbs, top, new, mbs2, t)
  BY <1>1, <1>4, <1>5, <1>6 DEF Grows
<1> QED BY <1>1, <1>7

\* The net writes are the slots that the accesses have changed.
NetOf(all, base, ops) ==
    NetWrites(all) = Changed(base, ops) /\ NetReads(all) \cap Changed(base, ops) = {}

\* A batch with no excluded transaction is sealed.
LEMMA SealedWrites ==
    ASSUME NEW known, NEW base \in [Keys -> Values], NEW ops \in Seq(Ops), NEW st, st = RunValues(base, ops),
           NEW v, NEW acc, NEW d, NEW m, ExecOk(known, base, ops, st, v, acc, d, m), m.txs = 0,
           NEW tip \in Seq(Ops)
    PROVE  NetOf(acc \o RunLogs(v, known, tip), base, ops \o tip)
<1>1. m.ops = <<>> /\ v = RunValues(st, m.ops) /\ acc = RunLogs(base, known, ops \o m.ops)
  BY DEF ExecOk
<1>2. v = st /\ acc = RunLogs(base, known, ops)
  <2>1. st \in [Keys -> Values]
    BY RunTypes
  <2>2. RunValues(st, <<>>) = st
    BY <2>1, NothingRun
  <2>3. ops \o <<>> = ops
    OBVIOUS
  <2> QED BY <1>1, <2>2, <2>3
<1>3. PICK more, all : more = ops \o tip /\ all = acc \o RunLogs(v, known, tip)
  OBVIOUS
<1>4. all = RunLogs(base, known, more) /\ more \in Seq(Ops)
  <2>1. RunSplit(base, known, ops, tip)
    BY RunJoined
  <2>2. all = RunLogs(base, known, ops) \o RunLogs(RunValues(base, ops), known, tip)
    BY <1>2, <1>3
  <2>3. more \in Seq(Ops)
    BY <1>3
  <2> QED BY <1>3, <2>1, <2>2, <2>3 DEF RunSplit
<1>5. /\ NetWrites(RunLogs(base, known, more)) = Changed(base, more)
      /\ NetReads(RunLogs(base, known, more)) \intersect Changed(base, more) = {}
  BY <1>4, NetWritesAreChanges
<1> QED BY <1>3, <1>4, <1>5 DEF NetOf

\* seal_l1_batch.
LEMMA SealL1BatchStep ==
    ASSUME StorageInv, NEW tip \in Tips, SealL1Batch(tip)
    PROVE  StorageInv'
<1>1. open /\ Rocks.next = sealed + 1 /\ ~ open' /\ mini.txs = 0
  BY DEF SealL1Batch, StorageInv, ExecInv
<1>2. PICK base, known, ops, logs, writes, new, t, all :
        /\ base = ValuesTo(storageLogs, miniblocks, sealed) /\ known = Known /\ ops = pending.ops
        /\ logs = RunLogs(vm, known, tip) /\ writes = WriteLogs(logs)
        /\ new = LogRows(Len(miniblocks) + 1, writes) /\ t = sealed + 1 /\ all = accesses \o logs
  OBVIOUS
<1>3. base \in [Keys -> Values] /\ ops \in Seq(Ops) /\ storage = RunValues(base, ops) /\ sealed \in Nat
  BY <1>2, LastValues
<1>4. RanOk(known, base, vm, accesses, mini)
  BY <1>1, <1>2 DEF StorageInv, ExecInv
<1>5. tip \in Seq(Ops)
  BY StorageAssumption
<1>6. NetWrites(all) \subseteq Keys
  <2>1. RanOk(known, base, RunValues(vm, tip), accesses \o RunLogs(vm, known, tip), mini)
    BY <1>3, <1>4, <1>5, RanRun
  <2>2. PICK ran \in Seq(Ops) : accesses \o RunLogs(vm, known, tip) = RunLogs(base, known, ran)
    BY <2>1 DEF RanOk
  <2>3. Accessed(RunLogs(base, known, ran)) \subseteq Keys
    BY AccessedAreKeys
  <2>4. Accessed(all) \subseteq Keys
    BY <1>2, <2>2, <2>3
  <2> QED BY <2>4 DEF NetWrites
<1>7. IsWrites(writes, tip)
  BY <1>2, <1>5, Extracted
<1>8. BlocksOk(storageLogs, miniblocks, sealed) /\ Len(miniblocks) \in Nat
  BY DEF StorageInv, TablesInv, BlocksOk, IsSeq
<1>9. RowsOk(new) /\ (\A r \in new : r.miniblock = Len(miniblocks) + 1) /\ Carries(new, tip)
  <2>1. Len(miniblocks) + 1 \in Nat
    BY <1>8
  <2> QED BY <1>2, <1>5, <1>7, <2>1, NewRowsCarry
<1>10. PICK mbs2 : mbs2 = Append([i \in 1..Len(miniblocks) |->
                                    IF Pending(miniblocks[i]) THEN [batch |-> sealed + 1, deps |-> miniblocks[i].deps]
                                    ELSE miniblocks[i]],
                                 [batch |-> sealed + 1, deps |-> {}])
  OBVIOUS
<1>11. Grows(storageLogs, miniblocks, sealed, new, mbs2, t)
  BY <1>2, <1>8, <1>9, <1>10, SealedGrows
<1>12. StateOk(storageLogs, miniblocks, sealed, ops, storage)
  BY <1>2 DEF StorageInv, TablesInv
<1>13. PICK rows2, st2, all2 : rows2 = storageLogs \cup new /\ st2 = RunValues(storage, tip) /\ all2 = ops \o tip
  OBVIOUS
<1>14. /\ BlocksOk(rows2, mbs2, t)
       /\ StateOk(rows2, mbs2, t, <<>>, st2)
       /\ SameValues(storageLogs, miniblocks, rows2, mbs2, sealed)
       /\ Tree(rows2, mbs2, t) = Changed(base, all2)
  <2>1. Grows(storageLogs, miniblocks, sealed, new, mbs2, sealed + 1)
    BY <1>2, <1>11
  <2>2. SealedOk(storageLogs, miniblocks, sealed, storageLogs \cup new, mbs2, sealed + 1, ops \o tip,
                 RunValues(storage, tip))
    BY <1>5, <1>8, <1>9, <1>12, <2>1, StateSealed
  <2>3. SealedOk(storageLogs, miniblocks, sealed, rows2, mbs2, t, all2, st2)
    BY <1>2, <1>13, <2>2
  <2> QED BY <1>2, <2>3 DEF SealedOk
<1>15. PICK net, keys, iw2 : /\ net = NetWrites(all) /\ keys = net \ FilterWrittenSlots(net)
                             /\ iw2 = InsertInitialWrites(keys, t)
  OBVIOUS
<1>16. /\ miniblocks' = mbs2 /\ storageLogs' = rows2 /\ pending'.ops = <<>> /\ storage' = st2
       /\ protectiveReads' = Append(protectiveReads, NetReads(all)) /\ initialWrites' = iw2 /\ sealed' = t
       /\ rocksdb' = rocksdb /\ pending'.excluded = 0 /\ excluded' = 0 /\ clean' = (clean /\ excluded = 0)
  <2>1. ApplyStorageLogs(writes) = RunValues(storage, tip)
    BY <1>5, <1>7, Applied
  <2>2. Execute(vm, known, tip).logs = logs
    BY <1>2, RunIs
  <2>3. miniblocks' = mbs2
    BY <1>10 DEF SealL1Batch
  <2>4. storageLogs' = rows2 /\ storage' = st2
    BY <1>2, <1>13, <2>1, <2>2 DEF SealL1Batch
  <2>5. protectiveReads' = Append(protectiveReads, NetReads(all)) /\ initialWrites' = iw2
    BY <1>2, <1>15, <2>2 DEF SealL1Batch, InsertProtectiveReads
  <2> QED BY <1>2, <2>3, <2>4, <2>5 DEF SealL1Batch, NothingPending
<1>17. IndexOk(initialWrites) /\ \A w \in initialWrites : w.batch \in 0..sealed
  BY DEF StorageInv, TablesInv
<1>18. iw2 = initialWrites \cup IndexRows(keys, t, Cardinality(initialWrites))
  <2>1. MaxSetEnumerationIndex = Cardinality(initialWrites)
    BY <1>17, LastIndex
  <2> QED BY <1>15, <2>1 DEF InsertInitialWrites
<1>19. PICK more : more = IndexRows(keys, t, Cardinality(initialWrites))
  OBVIOUS
<1>20. \A w \in more : w.batch = sealed + 1
  <2>1. more = {IndexRow(keys, t, Cardinality(initialWrites), k) : k \in keys}
    BY <1>19, IndexRowsAre
  <2> QED BY <1>2, <2>1 DEF IndexRow
<1>21. IndexOk(iw2) /\ \A w \in iw2 : w.batch \in 0..t
  <2>1. keys \in SUBSET Keys /\ t \in Nat
    BY <1>2, <1>3, <1>6, <1>15
  <2>2. \A w \in initialWrites : w.batch < t /\ w.key \notin keys
    <3>1. \A w \in initialWrites : w.batch < t
      BY <1>2, <1>3, <1>17
    <3>2. \A w \in initialWrites : w.key \notin keys
      BY <1>15 DEF FilterWrittenSlots
    <3> QED BY <3>1, <3>2
  <2>3. IndexOk(initialWrites \cup IndexRows(keys, t, Cardinality(initialWrites)))
    BY <1>17, <2>1, <2>2, IndexGrown
  <2>4. \A w \in initialWrites \cup more : w.batch \in 0..t
    BY <1>2, <1>3, <1>17, <1>20
  <2> QED BY <1>18, <1>19, <2>3, <2>4
<1>22. ASSUME clean, excluded = 0
       PROVE  WritesOk(iw2, rows2, mbs2, t) /\ ReadsOk(Append(protectiveReads, NetReads(all)), rows2, mbs2, t)
  <2>1. WritesOk(initialWrites, storageLogs, miniblocks, sealed) /\ ReadsOk(protectiveReads, storageLogs, miniblocks, sealed)
    BY <1>22 DEF StorageInv, TablesInv
  <2>2. ExecOk(known, base, ops, storage, vm, accesses, dedup, mini)
    BY <1>1, <1>2, <1>22 DEF StorageInv, ExecInv
  <2>3. NetWrites(all) = Changed(base, all2) /\ NetReads(all) \cap Changed(base, all2) = {}
    <3>1. NetOf(accesses \o RunLogs(vm, known, tip), base, ops \o tip)
      BY <1>1, <1>3, <1>5, <2>2, SealedWrites
    <3> QED BY <1>2, <1>13, <3>1 DEF NetOf
  <2>4. sealed \in Int /\ sealed + 1 \in Nat
    BY <1>3
  <2>5. keys = Tree(rows2, mbs2, sealed + 1) \ KnownBy(initialWrites, sealed)
    <3>1. \A w \in initialWrites : w.batch <= sealed
      BY <1>3, <1>17
    <3>2. net \subseteq Keys /\ net = Tree(rows2, mbs2, sealed + 1)
      BY <1>2, <1>6, <1>14, <1>15, <2>3
    <3> QED BY <1>15, <3>1, <3>2 DEF FilterWrittenSlots, KnownBy
  <2>6. WritesOk(initialWrites \cup IndexRows(keys, sealed + 1, Cardinality(initialWrites)), rows2, mbs2, sealed + 1)
    BY <1>14, <2>1, <2>4, <2>5, WritesGrown
  <2>7. PICK reads : reads = NetReads(all)
    OBVIOUS
  <2>8. reads \cap Tree(rows2, mbs2, sealed + 1) = {}
    BY <1>2, <1>14, <2>3, <2>7
  <2>9. ReadsOk(Append(protectiveReads, reads), rows2, mbs2, sealed + 1)
    BY <1>3, <1>14, <2>1, <2>8, ReadsGrown
  <2> QED BY <1>2, <1>18, <2>6, <2>7, <2>9
<1>23. TablesInv'
  <2>1. clean' => clean /\ excluded = 0
    BY <1>16
  <2>2. clean' => /\ WritesOk(initialWrites', storageLogs', miniblocks', sealed')
                  /\ ReadsOk(protectiveReads', storageLogs', miniblocks', sealed')
    BY <1>16, <1>22, <2>1
  <2>3. pending'.excluded \in Nat
    BY <1>16
  <2>4. /\ BlocksOk(storageLogs', miniblocks', sealed')
        /\ StateOk(storageLogs', miniblocks', sealed', pending'.ops, storage')
        /\ IndexOk(initialWrites') /\ \A w \in initialWrites' : w.batch \in 0..sealed'
    BY <1>14, <1>16, <1>21
  <2> QED BY <2>2, <2>3, <2>4 DEF TablesInv
<1>24. \A b \in 0..sealed : DepsIn(mbs2, b) = DepsIn(miniblocks, b)
  BY <1>8, <1>11, GrownDeps
<1>25. sealed <= t /\ t \in Nat
  BY <1>2, <1>3
<1>26. StatesOk(rocksdb, rows2, mbs2, t)
  <2>1. StatesOk(rocksdb, storageLogs, miniblocks, sealed)
    BY DEF StorageInv, RocksInv
  <2> QED BY <1>3, <1>14, <1>24, <1>25, <2>1, StatesKept
<1>27. ASSUME clean PROVE RocksOk(rocksdb, rows2, mbs2, iw2, t)
  <2>1. ASSUME NEW b \in (-1)..sealed PROVE KnownBy(iw2, b) = KnownBy(initialWrites, b)
    <3>1. b \in Int /\ b <= sealed /\ sealed \in Int
      BY <1>3
    <3>2. KnownBy(initialWrites \cup more, b) = KnownBy(initialWrites, b)
      BY <1>20, <3>1, KnownKept
    <3> QED BY <1>18, <1>19, <3>2
  <2>2. SameBatches(storageLogs, miniblocks, initialWrites, rows2, mbs2, iw2, sealed)
    BY <1>14, <1>24, <2>1 DEF SameBatches
  <2>3. RocksOk(rocksdb, storageLogs, miniblocks, initialWrites, sealed)
    BY <1>27 DEF StorageInv, RocksInv
  <2> QED BY <1>3, <1>25, <2>2, <2>3, RocksKept
<1>28. RocksInv'
  BY <1>16, <1>26, <1>27 DEF RocksInv
<1> QED BY <1>1, <1>16, <1>23, <1>28 DEF StorageInv, ExecInv

\* insert_system_contracts.
LEMMA InitStep ==
    ASSUME Init
    PROVE  StorageInv
<1>1. PICK logs, writes, new, mbs, m : /\ logs = GenesisLogs /\ writes = WriteLogs(logs) /\ new = LogRows(1, writes)
                                       /\ m = [batch |-> 0, deps |-> GenesisDeps] /\ mbs = <<m>>
  OBVIOUS
<1>2. /\ miniblocks = mbs /\ storageLogs = new /\ pending.ops = <<>> /\ storage = LatestOr(new, Zeros)
      /\ initialWrites = IndexRows(NetWrites(logs), 0, 0) /\ protectiveReads = <<NetReads(logs)>>
      /\ sealed = 0 /\ rocksdb = <<EmptyRocksdb>> /\ ~ open /\ pending.excluded = 0 /\ excluded = 0
  BY <1>1 DEF Init, Zeros, NothingPending
<1>3. Zeros \in [Keys -> Values] /\ GenesisOps \in Seq(Ops)
  BY StorageAssumption DEF Zeros
<1>4. logs = RunLogs(Zeros, {}, GenesisOps)
  <2>1. Execute(Zeros, {}, GenesisOps).logs = RunLogs(Zeros, {}, GenesisOps)
    BY RunIs
  <2> QED BY <1>1, <2>1 DEF GenesisLogs, Zeros
<1>5. IsWrites(writes, GenesisOps)
  BY <1>1, <1>3, <1>4, Extracted
<1>6. RowsOk(new) /\ (\A r \in new : r.miniblock = 1) /\ Carries(new, GenesisOps)
  <2>1. 1 \in Nat
    OBVIOUS
  <2> QED BY <1>1, <1>3, <1>5, <2>1, NewRowsCarry
<1>7. IsSeq(mbs) /\ Len(mbs) = 1 /\ mbs[1] = m /\ m.batch = 0
  <2>1. mbs \in Seq({m})
    BY <1>1
  <2> QED BY <1>1, <2>1 DEF IsSeq
<1>8. \A r \in new : mbs[r.miniblock].batch = 0
  BY <1>6, <1>7
<1>9. LogsIn(new, mbs, 0) = new /\ LogsIn(new, mbs, None) = {}
  BY <1>8 DEF LogsIn, None
<1>10. HasNewest(new)
  BY <1>6, CarriesNewest
<1>11. BlocksOk(new, mbs, 0)
  <2>1. \A b \in 0..0 : HasNewest(LogsIn(new, mbs, b))
    BY <1>9, <1>10
  <2>2. \A i \in 1..Len(mbs) : i = 1
    BY <1>7
  <2>3. \A i \in 1..Len(mbs) : mbs[i].batch \in 0..0
    BY <1>7, <2>2
  <2>4. \A i, j \in 1..Len(mbs) : ~ (i < j)
    BY <2>2
  <2>5. \A r \in new : r.miniblock \in 1..Len(mbs)
    BY <1>6, <1>7
  <2> QED BY <1>6, <1>7, <2>1, <2>3, <2>4, <2>5 DEF BlocksOk
<1>12. 0 \in 0..0 /\ 0 - 1 = -1 /\ 0 \in (-1)..0 /\ (-1) + 1 = 0
  OBVIOUS
<1>13. ValuesTo(new, mbs, -1) = Zeros
  BY ValuesFirst
<1>14. ValuesTo(new, mbs, 0) = LatestOr(new, Zeros)
  BY <1>9, <1>11, <1>12, <1>13, ValuesNext
<1>15. LatestOr(new, Zeros) = RunValues(Zeros, GenesisOps)
  BY <1>6, CarriedValues
<1>16. ValuesTo(new, mbs, 0) \in [Keys -> Values]
  BY <1>11, <1>12, ValuesTyped
<1>17. StateOk(new, mbs, 0, <<>>, LatestOr(new, Zeros))
  <2>1. <<>> \in Seq(Ops) /\ RunValues(ValuesTo(new, mbs, 0), <<>>) = ValuesTo(new, mbs, 0) /\ Carries({}, <<>>)
    BY <1>16, NothingRun
  <2> QED BY <1>9, <1>14, <2>1 DEF StateOk
<1>18. Tree(new, mbs, 0) = Changed(Zeros, GenesisOps)
  BY <1>12, <1>13, <1>14, <1>15 DEF Tree, Changed
<1>19. NetWrites(logs) = Changed(Zeros, GenesisOps) /\ NetReads(logs) \cap Changed(Zeros, GenesisOps) = {}
  <2>1. /\ NetWrites(RunLogs(Zeros, {}, GenesisOps)) = Changed(Zeros, GenesisOps)
        /\ NetReads(RunLogs(Zeros, {}, GenesisOps)) \intersect Changed(Zeros, GenesisOps) = {}
    BY <1>3, NetWritesAreChanges
  <2> QED BY <1>4, <2>1
<1>20. WritesOk(initialWrites, new, mbs, 0)
  <2>1. PICK t, keys, none : t = -1 /\ keys = NetWrites(logs) /\ none = {}
    OBVIOUS
  <2>2. t \in Int /\ t + 1 = 0 /\ t + 1 \in Nat
    BY <2>1
  <2>3. WritesOk(none, new, mbs, t) /\ SameValues(new, mbs, new, mbs, t)
    BY <2>1, WritesStart DEF SameValues
  <2>4. keys = Tree(new, mbs, t + 1) \ KnownBy(none, t)
    BY <1>18, <1>19, <2>1, <2>2 DEF KnownBy
  <2>5. WritesOk(none \cup IndexRows(keys, t + 1, Cardinality(none)), new, mbs, t + 1)
    BY <2>2, <2>3, <2>4, WritesGrown
  <2>6. Cardinality(none) = 0
    BY <2>1, FS_EmptySet
  <2>7. none \cup IndexRows(keys, 0, 0) = initialWrites
    BY <1>2, <2>1
  <2> QED BY <2>2, <2>5, <2>6, <2>7
<1>21. ReadsOk(protectiveReads, new, mbs, 0)
  <2>1. PICK reads, more : reads = protectiveReads /\ more = NetReads(logs)
    OBVIOUS
  <2>2. reads = <<more>>
    BY <1>2, <2>1
  <2>3. IsSeq(reads) /\ Len(reads) = 1 /\ reads[1] = more
    <3>1. reads \in Seq({more})
      BY <2>2
    <3> QED BY <2>2, <3>1 DEF IsSeq
  <2>4. \A b \in 0..0 : b = 0 /\ b + 1 = 1
    OBVIOUS
  <2>5. more \cap Tree(new, mbs, 0) = {}
    BY <1>18, <1>19, <2>1
  <2>6. \A b \in 0..0 : reads[b + 1] \cap Tree(new, mbs, b) = {}
    BY <2>3, <2>4, <2>5
  <2> QED BY <2>1, <2>3, <2>6 DEF ReadsOk
<1>22. RocksOk(rocksdb, new, mbs, initialWrites, 0) /\ StatesOk(rocksdb, new, mbs, 0)
  <2>1. PICK db, r : db = rocksdb /\ r = EmptyRocksdb
    OBVIOUS
  <2>2. db = <<r>>
    BY <1>2, <2>1
  <2>3. IsSeq(db) /\ Len(db) = 1 /\ db[1] = r
    <3>1. db \in Seq({r})
      BY <2>2
    <3> QED BY <2>2, <3>1 DEF IsSeq
  <2>4. RocksRow(r, new, mbs, initialWrites, 0)
    BY <1>20, <2>1, RocksStart
  <2>5. \A i \in 1..Len(db) : i = 1
    BY <2>3
  <2>6. ValuesRow(r, new, mbs, 0)
    BY <2>1, ValuesEmpty
  <2> QED BY <2>1, <2>3, <2>4, <2>5, <2>6 DEF RocksOk, StatesOk
<1>23. TablesInv
  BY <1>2, <1>11, <1>17, <1>20, <1>21 DEF TablesInv, WritesOk
<1>24. RocksInv
  BY <1>2, <1>22 DEF RocksInv
<1> QED BY <1>2, <1>23, <1>24 DEF StorageInv, ExecInv

\* Every step keeps the invariant.
LEMMA NextStep ==
    ASSUME StorageInv, [Next]_vars
    PROVE  StorageInv'
<1>1. CASE LoadBatch
  BY <1>1, LoadBatchStep
<1>2. CASE OpenBatch
  BY <1>2, OpenBatchStep
<1>3. ASSUME NEW tx \in Txs, ExecuteTx(tx) \/ ExcludeTx(tx) PROVE StorageInv'
  BY <1>3, ExecuteTxStep, ExcludeTxStep
<1>4. CASE SealMiniblock
  BY <1>4, SealMiniblockStep
<1>5. ASSUME NEW tip \in Tips, SealL1Batch(tip) PROVE StorageInv'
  BY <1>5, SealL1BatchStep
<1>6. CASE Crash
  BY <1>6, CrashStep
<1>7. CASE UNCHANGED vars
  BY <1>7 DEF vars, StorageInv, TablesInv, RocksInv, ExecInv, Rocks, Known
<1> QED BY <1>1, <1>2, <1>3, <1>4, <1>5, <1>6, <1>7 DEF Next

\* In every state the tables, RocksDB and the executor of the open batch fit
\* together as StorageInv says, over restarts of the process too.
THEOREM StorageInvariant == Spec => []StorageInv
<1>1. Init => StorageInv
  BY InitStep
<1>2. StorageInv /\ [Next]_vars => StorageInv'
  BY NextStep
<1> QED BY <1>1, <1>2, PTL DEF Spec
-----------------------------------------------------------------------------
(* What follows for the properties. *)

\* The inductive invariant implies each of the properties: the VM works on the
\* latest state,
LEMMA VmSees ==
    ASSUME StorageInv
    PROVE  VmSeesState
<1>1. storage = HistoricalValues
  <2>1. PICK ops : ops = pending.ops
    OBVIOUS
  <2>2. /\ BlocksOk(storageLogs, miniblocks, sealed) /\ ops \in Seq(Ops)
        /\ Carries(LogsIn(storageLogs, miniblocks, None), ops)
        /\ storage = RunValues(ValuesTo(storageLogs, miniblocks, sealed), ops)
    BY <2>1 DEF StorageInv, TablesInv, StateOk
  <2>3. LatestOr(storageLogs, Zeros) = RunValues(ValuesTo(storageLogs, miniblocks, sealed), ops)
    BY <2>2, ValuesLast
  <2> QED BY <2>2, <2>3 DEF HistoricalValues, Zeros
<1>2. ASSUME open, excluded = 0 PROVE vm = ApplyStorageLogs(WriteLogs(mini.logs))
  <2>1. PICK ops, known, writes : ops = mini.ops /\ known = Known /\ writes = WriteLogs(mini.logs)
    OBVIOUS
  <2>2. ops \in Seq(Ops) /\ mini.logs = RunLogs(storage, known, ops) /\ vm = RunValues(storage, ops)
    BY <1>2, <2>1 DEF StorageInv, ExecInv, ExecOk
  <2>3. IsWrites(writes, ops)
    BY <2>1, <2>2, Extracted
  <2>4. ApplyStorageLogs(writes) = RunValues(storage, ops)
    BY <2>2, <2>3, Applied
  <2> QED BY <2>1, <2>2, <2>4
<1> QED BY <1>1, <1>2 DEF VmSeesState

\* RocksDB is in the state after a sealed batch,
LEMMA RocksSealed ==
    ASSUME StorageInv
    PROVE  RocksdbIsSealedState
<1>1. IsSeq(rocksdb) /\ sealed \in Nat
  BY DEF StorageInv, TablesInv, RocksInv, StatesOk, BlocksOk
<1>2. ASSUME NEW i \in DOMAIN rocksdb
      PROVE  LET r == rocksdb[i]
                 after == ValuesAfter(r.next - 1)
             IN  /\ r.next <= sealed + 1
                 /\ \A k \in Keys : \/ r.values[k] = after[k]
                                    \/ r.values[k] = None /\ after[k] = 0
                 /\ r.deps = UNION {GetL1BatchFactoryDeps(b) : b \in 0 .. r.next - 1}
                 /\ clean => \A k \in Keys :
                      r.values[k] # None <=> \E w \in initialWrites : w.key = k /\ w.batch < r.next
  <2>1. PICK r, n, v : r = rocksdb[i] /\ n = r.next - 1 /\ v = ValuesTo(storageLogs, miniblocks, n)
    OBVIOUS
  <2>2. i \in 1..Len(rocksdb)
    BY <1>1, <1>2 DEF IsSeq
  <2>3. ValuesRow(r, storageLogs, miniblocks, sealed)
    BY <2>1, <2>2 DEF StorageInv, RocksInv, StatesOk
  <2>4. r.next \in 0..(sealed + 1)
    BY <2>3 DEF ValuesRow
  <2>5. r.next <= sealed + 1 /\ n \in (-1)..sealed /\ r.next = n + 1
    BY <1>1, <2>1, <2>4
  <2>6. v = ValuesAfter(n)
    BY <2>1 DEF ValuesTo, ValuesAfter, RowsUpTo, LogsUpTo, Zeros
  <2>7. \A k \in Keys : r.values[k] = v[k] \/ (r.values[k] = None /\ v[k] = 0)
    BY <2>1, <2>3 DEF ValuesRow
  <2>8. r.deps = UNION {GetL1BatchFactoryDeps(b) : b \in 0..n}
    <3>1. \A b : DepsIn(miniblocks, b) = GetL1BatchFactoryDeps(b)
      BY DEF DepsIn, GetL1BatchFactoryDeps, MiniblocksOf
    <3>2. r.deps = UNION {DepsIn(miniblocks, b) : b \in 0..n}
      BY <2>1, <2>3 DEF ValuesRow
    <3> QED BY <3>1, <3>2
  <2>9. ASSUME clean, NEW k \in Keys
        PROVE  r.values[k] # None <=> \E w \in initialWrites : w.key = k /\ w.batch < r.next
    <3>1. RocksRow(r, storageLogs, miniblocks, initialWrites, sealed)
      BY <2>1, <2>2, <2>9 DEF StorageInv, RocksInv, RocksOk
    <3>2. r.values[k] = IF k \in KnownBy(initialWrites, n) THEN v[k] ELSE None
      BY <2>1, <3>1 DEF RocksRow
    <3>3. v[k] # None
      <4>1. BlocksOk(storageLogs, miniblocks, sealed)
        BY DEF StorageInv, TablesInv
      <4>2. v \in [Keys -> Values]
        BY <2>1, <2>5, <4>1, ValuesTyped
      <4> QED BY <4>2, StorageAssumption DEF None
    <3>4. \A w \in initialWrites : w.batch < r.next <=> w.batch <= n
      <4>1. \A w \in initialWrites : w.batch \in Nat
        BY DEF StorageInv, TablesInv, IndexOk
      <4> QED BY <2>5, <4>1
    <3>5. k \in KnownBy(initialWrites, n) <=> \E w \in initialWrites : w.key = k /\ w.batch < r.next
      BY <3>4 DEF KnownBy
    <3> QED BY <3>2, <3>3, <3>5
  <2> QED BY <2>1, <2>5, <2>6, <2>7, <2>8, <2>9
<1> QED BY <1>2 DEF RocksdbIsSealedState

\* (what get_logs_for_l1_batch tells the tree, as the invariant names it)
LEMMA TreeWritesAre ==
    ASSUME StorageInv, NEW b \in 0..sealed
    PROVE  TreeWrites(b) = Tree(storageLogs, miniblocks, b)
<1>1. PICK v, t : v = ValuesTo(storageLogs, miniblocks, b - 1) /\ t = LatestOr(LogsIn(storageLogs, miniblocks, b), Nones)
  OBVIOUS
<1>2. (IF b = 0 THEN [k \in Keys |-> 0] ELSE ValuesAfter(b - 1)) = v
  <2>1. CASE b = 0
    <3>1. b - 1 = -1
      BY <2>1
    <3> QED BY <1>1, <2>1, <3>1, ValuesFirst DEF Zeros
  <2>2. CASE b # 0
    BY <1>1, <2>2 DEF ValuesTo, ValuesAfter, RowsUpTo, LogsUpTo, Zeros
  <2> QED BY <2>1, <2>2
<1>3. GetTouchedSlots(b) = t
  BY <1>1 DEF GetTouchedSlots, LogsOf, LogsIn, Nones
<1>4. TreeWrites(b) = {k \in Keys : t[k] # None /\ t[k] # v[k]}
  BY <1>2, <1>3 DEF TreeWrites
<1>5. BlocksOk(storageLogs, miniblocks, sealed)
  BY DEF StorageInv, TablesInv
<1>6. {k \in Keys : t[k] # None /\ t[k] # v[k]} = Tree(storageLogs, miniblocks, b)
  BY <1>1, <1>5, TreeIs
<1> QED BY <1>4, <1>6

\* the enumeration indices are those of the tree,
LEMMA IndicesMatch ==
    ASSUME StorageInv
    PROVE  IndicesMatchTree
<1>1. sealed \in Nat
  BY DEF StorageInv, TablesInv, BlocksOk
<1>2. IndexOk(initialWrites)
  BY DEF StorageInv, TablesInv
<1>3. ASSUME clean, NEW b \in 0..sealed
      PROVE  InitialWritesForBatch(b) = TreeWrites(b) \ UNION {TreeWrites(a) : a \in 0 .. b - 1}
  <2>1. PICK K, M : K = KnownBy(initialWrites, b - 1) /\ M = KnownBy(initialWrites, b)
    OBVIOUS
  <2>2. b \in (-1)..sealed /\ b - 1 \in (-1)..sealed /\ \A a \in 0..(b - 1) : a \in 0..sealed
    BY <1>1
  <2>3. K = UNION {Tree(storageLogs, miniblocks, a) : a \in 0..(b - 1)} /\ M = UNION {Tree(storageLogs, miniblocks, a) : a \in 0..b}
    <3>1. WritesOk(initialWrites, storageLogs, miniblocks, sealed)
      BY <1>3 DEF StorageInv, TablesInv
    <3> QED BY <2>1, <2>2, <3>1 DEF WritesOk
  <2>4. M = K \cup TreeWrites(b) /\ K = UNION {TreeWrites(a) : a \in 0..(b - 1)}
    <3>1. TreeWrites(b) = Tree(storageLogs, miniblocks, b)
      BY TreeWritesAre
    <3>2. \A a \in 0..(b - 1) : TreeWrites(a) = Tree(storageLogs, miniblocks, a)
      BY <2>2, TreeWritesAre
    <3>3. \A a : a \in 0..b <=> a \in 0..(b - 1) \/ a = b
      BY <1>1
    <3>4. M = K \cup Tree(storageLogs, miniblocks, b)
      BY <2>3, <3>3
    <3>5. K = UNION {TreeWrites(a) : a \in 0..(b - 1)}
      BY <2>3, <3>2
    <3> QED BY <3>1, <3>4, <3>5
  <2>5. InitialWritesForBatch(b) = M \ K
    <3>1. \A w \in initialWrites : w.batch \in Nat /\ w.key \in Keys
      BY <1>2 DEF IndexOk
    <3>2. \A q, r \in initialWrites : q.key = r.key => q = r
      BY <1>2 DEF IndexOk
    <3>3. \A w \in initialWrites : (w.batch <= b <=> w.batch <= b - 1 \/ w.batch = b) /\ ~ (w.batch = b /\ w.batch <= b - 1)
      BY <1>1, <3>1
    <3>4. \A k : k \in InitialWritesForBatch(b) <=> \E w \in initialWrites : w.batch = b /\ w.key = k
      BY DEF InitialWritesForBatch
    <3>5. /\ \A k : k \in M <=> k \in Keys /\ \E w \in initialWrites : w.key = k /\ w.batch <= b
          /\ \A k : k \in K <=> k \in Keys /\ \E w \in initialWrites : w.key = k /\ w.batch <= b - 1
      BY <2>1 DEF KnownBy
    <3>6. ASSUME NEW k, k \in InitialWritesForBatch(b) PROVE k \in M \ K
      <4>1. PICK w \in initialWrites : w.batch = b /\ w.key = k
        BY <3>4, <3>6
      <4>2. k \in M
        BY <3>1, <3>3, <3>5, <4>1
      <4>3. k \notin K
        BY <3>2, <3>3, <3>5, <4>1
      <4> QED BY <4>2, <4>3
    <3>7. ASSUME NEW k \in M \ K PROVE k \in InitialWritesForBatch(b)
      BY <3>3, <3>4, <3>5
    <3> QED BY <3>6, <3>7
  <2> QED BY <2>4, <2>5
<1>4. ASSUME clean, NEW b \in 0..sealed PROVE protectiveReads[b + 1] \cap TreeWrites(b) = {}
  BY <1>4, TreeWritesAre DEF StorageInv, TablesInv, ReadsOk
<1> QED BY <1>2, <1>3, <1>4 DEF IndicesMatchTree, IndexOk

\* and the deduplicator agrees with the sorting of the batch.
LEMMA DedupCounts ==
    ASSUME StorageInv
    PROVE  DedupAgrees
<1> SUFFICES ASSUME open
             PROVE  /\ \A k \in Accessed(accesses) : SlotHistory(accesses, k).sound
                    /\ excluded = 0 =>
                         /\ dedup.modified = NetWrites(accesses)
                         /\ dedup.metrics.repeated = Cardinality(dedup.modified \intersect Known)
                         /\ dedup.metrics.initial = Cardinality(dedup.modified \ Known)
                         /\ clean => dedup.modified \intersect Known = FilterWrittenSlots(dedup.modified)
  BY DEF DedupAgrees
<1>1. PICK base, known, ops : /\ base = ValuesTo(storageLogs, miniblocks, sealed) /\ known = Known
                              /\ ops = pending.ops
  OBVIOUS
<1>2. base \in [Keys -> Values] /\ ops \in Seq(Ops) /\ storage = RunValues(base, ops) /\ sealed \in Nat
  BY <1>1, LastValues
<1>3. RanOk(known, base, vm, accesses, mini) /\ Rocks.next = sealed + 1
  BY <1>1 DEF StorageInv, ExecInv
<1>4. PICK ran \in Seq(Ops) : vm = RunValues(base, ran) /\ accesses = RunLogs(base, known, ran)
  BY <1>3 DEF RanOk
<1>5. /\ NetWrites(RunLogs(base, known, ran)) = Changed(base, ran)
      /\ \A k \in Accessed(RunLogs(base, known, ran)) : SlotHistory(RunLogs(base, known, ran), k).sound
  BY <1>2, NetWritesAreChanges
<1>6. ASSUME excluded = 0
      PROVE  /\ dedup.modified = NetWrites(accesses)
             /\ dedup.metrics.repeated = Cardinality(dedup.modified \intersect Known)
             /\ dedup.metrics.initial = Cardinality(dedup.modified \ Known)
             /\ clean => dedup.modified \intersect Known = FilterWrittenSlots(dedup.modified)
  <2>1. ExecOk(known, base, ops, storage, vm, accesses, dedup, mini)
    BY <1>1, <1>6 DEF StorageInv, ExecInv
  <2>2. dedup.modified = {k \in Keys : vm[k] # base[k]} /\ dedup.metrics = Tally(dedup.modified, known)
    BY <2>1 DEF ExecOk, Settled, DedupOk
  <2>3. dedup.modified = NetWrites(accesses)
    BY <1>4, <1>5, <2>2 DEF Changed
  <2>4. PICK M : M = dedup.modified
    OBVIOUS
  <2>5. dedup.metrics.repeated = Cardinality(M \cap known) /\ dedup.metrics.initial = Cardinality(M \ known)
    BY <2>2, <2>4 DEF Tally
  <2>6. ASSUME clean PROVE M \cap known = FilterWrittenSlots(M)
    <3>1. known = KnownBy(initialWrites, sealed)
      BY <1>1, <1>3, <2>6, CurrentKnown
    <3>2. \A w \in initialWrites : w.batch <= sealed
      BY <1>2 DEF StorageInv, TablesInv
    <3>3. M \subseteq Keys
      BY <2>2, <2>4
    <3> QED BY <3>1, <3>2, <3>3 DEF FilterWrittenSlots, KnownBy
  <2> QED BY <1>1, <2>3, <2>4, <2>5, <2>6
<1> QED BY <1>4, <1>5, <1>6

\* Table storage is always what the rows of storage_logs add up to; and for
\* every set of transactions, until one is excluded, the VM of the open batch
\* works on the latest state, after any number of restarts.
THEOREM VmAlwaysSeesState == Spec => []VmSeesState
<1>1. StorageInv => VmSeesState
  BY VmSees
<1> QED BY <1>1, StorageInvariant, PTL

\* Every state RocksDB has been in, and may fall back to when its last writes
\* are lost, has the values and bytecodes after a sealed batch, whatever was
\* excluded; while no batch was sealed after an excluded transaction it has an
\* entry exactly for the slots that have an enumeration index.
THEOREM RocksdbAlwaysSealed == Spec => []RocksdbIsSealedState
<1>1. StorageInv => RocksdbIsSealedState
  BY RocksSealed
<1> QED BY <1>1, StorageInvariant, PTL

\* Enumeration indices never have gaps and follow batches and keys; while no
\* batch was sealed after an excluded transaction, the writes found in
\* storage_logs, which the Merkle tree is told of, and those found by
\* deduplicating the accesses of the VM are the same.
THEOREM IndicesAlwaysMatch == Spec => []IndicesMatchTree
<1>1. StorageInv => IndicesMatchTree
  BY IndicesMatch
<1> QED BY <1>1, StorageInvariant, PTL

\* No assertion of sort_storage_access_queries ever fails; and in a batch with
\* no excluded transaction, what the deduplicator counts in flight is what the
\* sorting finds in the whole batch.
THEOREM DedupAlwaysAgrees == Spec => []DedupAgrees
<1>1. StorageInv => DedupAgrees
  BY DedupCounts
<1> QED BY <1>1, StorageInvariant, PTL
=============================================================================
