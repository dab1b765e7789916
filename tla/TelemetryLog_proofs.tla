------------------------- MODULE TelemetryLog_proofs -------------------------
(***************************************************************************)
(* Proofs about TelemetryLog for every number of processes, every size of  *)
(* the file and any number of appends: what is kept is the newest of what  *)
(* was written, and recording something again costs nothing.               *)
(***************************************************************************)
EXTENDS TelemetryLog, FiniteSetTheorems, SequenceTheorems, WellFoundedInduction, TLAPS

-----------------------------------------------------------------------------
(* The inductive invariant *)

\* The shapes of what is offered and of what is written.
Statuses == {"none", "passed", "failed", "confirmed-issue", "direct"}
Formed(x) ==
  /\ x.event = "run-started" => x.id \in Checks /\ x.status = "none" /\ x.usage = 0
  /\ x.event = "run-terminal" => x.id \in Checks /\ x.status \in {"passed", "failed"}
  /\ x.event \in Upserted => x.id \in Decisions
Offered == {x \in [event : Events, id : Checks \cup Decisions, status : Statuses, usage : Nat] : Formed(x)}
Records == {x \in [event : Events, id : Checks \cup Decisions, status : Statuses, usage : Nat, at : Nat] : Formed(x)}

LogTypes ==
  /\ log \in Seq(Records) /\ reading \in Seq(Records) /\ said \in Seq(Records)
  /\ writer \in Writers \cup {NoWriter}
  /\ wants \in [Writers -> {Nothing} \cup Offered]
  /\ runs \in [Checks -> {"none", "started", "ended"}]
  /\ offers \in Nat /\ first \in [Observations -> Nat]

\* The holder of the lock has something to append and has read the file, or
\* could not: nobody else changes the file meanwhile.
OneHolder == writer # NoWriter => wants[writer] \in Offered /\ reading \in {log, <<>>}

\* The last of s are t.
EndsWith(s, t) ==
  Len(t) <= Len(s) /\ \A i \in 1 .. Len(t) : t[i] = s[Len(s) - Len(t) + i]

Bounds == Len(log) <= MaxRecords /\ Total(log) <= MaxBytes

\* One record of an observation, with the time of the first.
OnceEach ==
  /\ \A i, j \in DOMAIN log : log[i].event \in Upserted /\ SameObservation(log[i], log[j]) => i = j
  /\ \A i \in DOMAIN log : log[i].event \in Upserted => log[i].at = first[Identity(log[i])]

StartOf(x, r) == x.event = "run-started" /\ x.id = r
EndOf(x, r) == x.event = "run-terminal" /\ x.id = r

\* A run's end is offered once, when its start is no longer on the way.
RunsInOrder ==
  \A r \in Checks :
    /\ \A p \in Writers : StartOf(wants[p], r) => runs[r] = "started"
    /\ runs[r] # "ended" =>
         /\ \A p \in Writers : ~EndOf(wants[p], r)
         /\ \A i \in DOMAIN said : ~EndOf(said[i], r)
    /\ \A p, q \in Writers : EndOf(wants[p], r) /\ EndOf(wants[q], r) => p = q
    /\ \A p \in Writers, i \in DOMAIN said : EndOf(wants[p], r) => ~EndOf(said[i], r)
    /\ \A i, j \in DOMAIN said : EndOf(said[i], r) /\ EndOf(said[j], r) => i = j
    /\ \A i, j \in DOMAIN said : StartOf(said[i], r) /\ EndOf(said[j], r) => i < j

LogInv == LogTypes /\ OneHolder /\ Bounds /\ OnceEach /\ EndsWith(said, log) /\ RunsInOrder
-----------------------------------------------------------------------------
(* Induction and recursion.  Both are had from least counterexamples.      *)

\* Numbers have a least one.
LEMMA Smallest ==
  ASSUME NEW S \in SUBSET Nat, S # {}
  PROVE  \E x \in S : \A y \in S : x <= y
<1>. DEFINE Less == {ss \in Nat \X Nat : ss[1] < ss[2]}
<1>1. IsWellFoundedOn(OpToRel(<, Nat), Nat)
  BY NatLessThanWellFounded, Zenon
<1>2. IsWellFoundedOn(Less, Nat)
  BY <1>1, Zenon DEF OpToRel
<1>. HIDE DEF Less
<1>3. PICK x \in S : \A y \in S : <<y, x>> \notin Less
  BY <1>2, WFMin
<1>4. ASSUME NEW y \in S PROVE x <= y
  <2>1. x \in Nat /\ y \in Nat
    OBVIOUS
  <2>2. <<y, x>> \in Nat \X Nat /\ <<y, x>>[1] = y /\ <<y, x>>[2] = x
    BY <2>1
  <2>3. ~(y < x)
    BY <1>3, <2>2 DEF Less
  <2>. QED
    BY <2>1, <2>3
<1>. QED
  BY <1>4

\* A set of numbers with 0 and with every successor, up to N, has them all.
LEMMA UpToN ==
  ASSUME NEW N \in Nat, NEW Good, 0 \in Good, \A n \in 0 .. N : n # 0 /\ n - 1 \in Good => n \in Good
  PROVE  0 .. N \subseteq Good
<1>. DEFINE Bad == (0 .. N) \ Good
<1>1. SUFFICES ASSUME Bad # {} PROVE FALSE
  OBVIOUS
<1>2. PICK m \in Bad : \A k \in Bad : m <= k
  <2>1. Bad \in SUBSET Nat
    OBVIOUS
  <2>. HIDE DEF Bad
  <2>. QED
    BY <1>1, <2>1, Smallest
<1>3. m \in 0 .. N /\ m \notin Good /\ m # 0
  BY <1>2
<1>4. m - 1 \in 0 .. N /\ ~(m <= m - 1)
  BY <1>3
<1>5. m - 1 \in Good
  BY <1>2, <1>4
<1>. QED
  BY <1>3, <1>5

\* A function defined by recursion on numbers exists.
Recurses(N, U, base, step, f) ==
  /\ f \in [0 .. N -> U] /\ f[0] = base
  /\ \A n \in 1 .. N : f[n] = step[n][f[n - 1]]

LEMMA Recursion ==
  ASSUME NEW N \in Nat, NEW U, NEW base \in U, NEW step \in [1 .. N -> [U -> U]]
  PROVE  \E f : Recurses(N, U, base, step, f)
<1>. DEFINE UpTo(k, f) == f[0] = base /\ \A n \in 1 .. k : f[n] = step[n][f[n - 1]]
            Good == {k \in 0 .. N : \E f \in [0 .. k -> U] : UpTo(k, f)}
<1>1. 0 \in Good
  <2>1. [n \in 0 .. 0 |-> base] \in [0 .. 0 -> U]
    OBVIOUS
  <2>2. UpTo(0, [n \in 0 .. 0 |-> base])
    OBVIOUS
  <2>. HIDE DEF UpTo
  <2>3. \E f \in [0 .. 0 -> U] : UpTo(0, f)
    BY <2>1, <2>2
  <2>4. 0 \in 0 .. N
    OBVIOUS
  <2>. QED
    BY <2>3, <2>4
<1>2. ASSUME NEW m \in 0 .. N, m # 0, m - 1 \in Good PROVE m \in Good
  <2>1. PICK f \in [0 .. m - 1 -> U] : UpTo(m - 1, f)
    BY <1>2
  <2>. DEFINE g == [n \in 0 .. m |-> IF n = m THEN step[m][f[m - 1]] ELSE f[n]]
  <2>2. m \in 1 .. N /\ m - 1 \in 0 .. m - 1
    BY <1>2
  <2>3. f[m - 1] \in U
    BY <2>1, <2>2
  <2>4. step[m][f[m - 1]] \in U
    BY <2>2, <2>3
  <2>5. \A n \in 0 .. m : n = m \/ n \in 0 .. m - 1
    OBVIOUS
  <2>6. g \in [0 .. m -> U]
    BY <2>1, <2>4, <2>5
  <2>7. \A n \in 0 .. m - 1 : g[n] = f[n]
    BY <2>2
  <2>8. g[m] = step[m][f[m - 1]]
    BY <2>2
  <2>. HIDE DEF g
  <2>9. g[0] = base
    <3>1. 0 \in 0 .. m - 1
      BY <2>2
    <3>. QED
      BY <2>1, <2>7, <3>1
  <2>10. ASSUME NEW n \in 1 .. m PROVE g[n] = step[n][g[n - 1]]
    <3>1. n - 1 \in 0 .. m - 1
      OBVIOUS
    <3>2. CASE n = m
      BY <2>7, <2>8, <3>1, <3>2
    <3>3. CASE n # m
      <4>1. n \in 1 .. m - 1 /\ n \in 0 .. m - 1
        BY <3>3
      <4>2. f[n] = step[n][f[n - 1]]
        BY <2>1, <4>1
      <4>. QED
        BY <2>7, <3>1, <4>1, <4>2
    <3>. QED
      BY <3>2, <3>3
  <2>11. UpTo(m, g)
    BY <2>9, <2>10
  <2>. HIDE DEF UpTo
  <2>. QED
    BY <1>2, <2>6, <2>11
<1>. HIDE DEF Good
<1>3. 0 .. N \subseteq Good
  BY <1>1, <1>2, UpToN
<1>4. N \in Good
  BY <1>3
<1>. QED
  BY <1>4 DEF Good, Recurses

-----------------------------------------------------------------------------
(* The records of some identities *)

\* What Keeping computes, record by record.
Keeps(s, K, f) ==
  /\ f[0] = <<>>
  /\ \A n \in 1 .. Len(s) : f[n] = IF Identity(s[n]) \in K THEN Append(f[n - 1], s[n]) ELSE f[n - 1]

LEMMA KeepingIs ==
  ASSUME NEW V, NEW s \in Seq(V), NEW K
  PROVE  \E f \in [0 .. Len(s) -> Seq(V)] : Keeps(s, K, f) /\ Keeping(s, K) = f[Len(s)]
<1>. DEFINE N == Len(s)
            step == [n \in 1 .. N |-> [prev \in Seq(V) |-> IF Identity(s[n]) \in K THEN Append(prev, s[n]) ELSE prev]]
            next(f, n) == IF n = 0 THEN <<>> ELSE IF Identity(s[n]) \in K THEN Append(f[n - 1], s[n]) ELSE f[n - 1]
            is(f) == f = [n \in 0 .. N |-> next(f, n)]
<1>0. N \in Nat /\ \A n \in 1 .. N : s[n] \in V
  OBVIOUS
<1>1. step \in [1 .. N -> [Seq(V) -> Seq(V)]]
  <2>. SUFFICES ASSUME NEW n \in 1 .. N, NEW prev \in Seq(V)
                PROVE  (IF Identity(s[n]) \in K THEN Append(prev, s[n]) ELSE prev) \in Seq(V)
    OBVIOUS
  <2>. QED
    BY <1>0
<1>2. <<>> \in Seq(V)
  OBVIOUS
<1>3. ASSUME NEW n \in 1 .. N, NEW prev \in Seq(V)
      PROVE  step[n][prev] = IF Identity(s[n]) \in K THEN Append(prev, s[n]) ELSE prev
  OBVIOUS
<1>. HIDE DEF step
<1>4. PICK f \in [0 .. N -> Seq(V)] : f[0] = <<>> /\ \A n \in 1 .. N : f[n] = step[n][f[n - 1]]
  <2>1. \E f : Recurses(N, Seq(V), <<>>, step, f)
    <3>. HIDE DEF N
    <3>. QED
      BY <1>0, <1>1, <1>2, Recursion
  <2>. QED
    BY <2>1 DEF Recurses
<1>5. ASSUME NEW n \in 1 .. N
      PROVE  f[n] = IF Identity(s[n]) \in K THEN Append(f[n - 1], s[n]) ELSE f[n - 1]
  <2>1. n - 1 \in 0 .. N
    BY <1>0
  <2>2. f[n - 1] \in Seq(V)
    BY <1>4, <2>1
  <2>. QED
    BY <1>3, <1>4, <2>2
<1>6. \A n \in 0 .. N : n = 0 \/ n \in 1 .. N
  BY <1>0
<1>7. is(f)
  <2>1. ASSUME NEW n \in 0 .. N PROVE f[n] = next(f, n)
    <3>1. CASE n = 0
      BY <1>4, <3>1
    <3>2. CASE n # 0
      <4>1. n \in 1 .. N
        BY <1>6, <3>2
      <4>. QED
        BY <1>5, <3>2, <4>1
    <3>. QED
      BY <3>1, <3>2
  <2>2. f = [n \in 0 .. N |-> f[n]]
    BY <1>4
  <2>3. [n \in 0 .. N |-> f[n]] = [n \in 0 .. N |-> next(f, n)]
    BY <2>1
  <2>. QED
    BY <2>2, <2>3
<1>. DEFINE g == CHOOSE h : is(h)
<1>8. is(g)
  BY <1>7
<1>9. Keeping(s, K) = g[N]
  BY DEF Keeping
<1>. HIDE DEF g
<1>10. g[0] = <<>> /\ \A n \in 1 .. N : g[n] = IF Identity(s[n]) \in K THEN Append(g[n - 1], s[n]) ELSE g[n - 1]
  <2>1. ASSUME NEW n \in 0 .. N PROVE g[n] = next(g, n)
    BY <1>8
  <2>2. 0 \in 0 .. N /\ \A n \in 1 .. N : n \in 0 .. N /\ n # 0
    BY <1>0
  <2>. QED
    BY <2>1, <2>2
<1>. DEFINE Good == {n \in 0 .. N : f[n] = g[n]}
<1>11. 0 .. N \subseteq Good
  <2>1. 0 \in Good
    BY <1>0, <1>4, <1>10
  <2>2. ASSUME NEW n \in 0 .. N, n # 0, n - 1 \in Good PROVE n \in Good
    <3>1. n \in 1 .. N /\ f[n - 1] = g[n - 1]
      BY <1>6, <2>2
    <3>2. f[n] = g[n]
      BY <1>5, <1>10, <3>1
    <3>. QED
      BY <3>2
  <2>. HIDE DEF Good, N
  <2>. QED
    BY <1>0, <2>1, <2>2, UpToN
<1>12. f[N] = g[N]
  BY <1>0, <1>11
<1>. QED
  BY <1>4, <1>5, <1>9, <1>12 DEF Keeps

LEMMA KeepingType ==
  ASSUME NEW V, NEW s \in Seq(V), NEW K
  PROVE  Keeping(s, K) \in Seq(V)
<1>1. PICK f \in [0 .. Len(s) -> Seq(V)] : Keeping(s, K) = f[Len(s)]
  BY KeepingIs
<1>2. Len(s) \in 0 .. Len(s)
  OBVIOUS
<1>. QED
  BY <1>1, <1>2

LEMMA KeepingNone ==
  ASSUME NEW K
  PROVE  Keeping(<<>>, K) = <<>>
<1>1. <<>> \in Seq({})
  OBVIOUS
<1>2. PICK f : Keeps(<<>>, K, f) /\ Keeping(<<>>, K) = f[Len(<<>>)]
  BY <1>1, KeepingIs
<1>3. Len(<<>>) = 0
  OBVIOUS
<1>. QED
  BY <1>2, <1>3 DEF Keeps

LEMMA KeepingAppend ==
  ASSUME NEW V, NEW s \in Seq(V), NEW x \in V, NEW K
  PROVE  Keeping(Append(s, x), K) = IF Identity(x) \in K THEN Append(Keeping(s, K), x) ELSE Keeping(s, K)
<1>. DEFINE N == Len(s)
            t == Append(s, x)
<1>1. N \in Nat /\ t \in Seq(V) /\ Len(t) = N + 1 /\ t[N + 1] = x /\ \A n \in 1 .. N : t[n] = s[n]
  OBVIOUS
<1>2. PICK f : Keeps(s, K, f) /\ Keeping(s, K) = f[N]
  BY KeepingIs
<1>. HIDE DEF t
<1>3. PICK g : Keeps(t, K, g) /\ Keeping(t, K) = g[Len(t)]
  BY <1>1, KeepingIs
<1>. HIDE DEF N
<1>4. /\ f[0] = <<>>
      /\ \A n \in 1 .. N : f[n] = IF Identity(s[n]) \in K THEN Append(f[n - 1], s[n]) ELSE f[n - 1]
  BY <1>2 DEF Keeps, N
<1>5. /\ g[0] = <<>>
      /\ \A n \in 1 .. N + 1 : g[n] = IF Identity(t[n]) \in K THEN Append(g[n - 1], t[n]) ELSE g[n - 1]
  BY <1>1, <1>3 DEF Keeps
<1>. DEFINE Good == {n \in 0 .. N : f[n] = g[n]}
<1>6. 0 .. N \subseteq Good
  <2>1. 0 \in Good
    BY <1>1, <1>4, <1>5
  <2>2. ASSUME NEW n \in 0 .. N, n # 0, n - 1 \in Good PROVE n \in Good
    <3>1. n \in 1 .. N /\ n \in 1 .. N + 1 /\ f[n - 1] = g[n - 1]
      BY <1>1, <2>2
    <3>2. t[n] = s[n]
      BY <1>1, <3>1
    <3>3. f[n] = g[n]
      BY <1>4, <1>5, <3>1, <3>2
    <3>. QED
      BY <3>3
  <2>. HIDE DEF Good
  <2>. QED
    BY <1>1, <2>1, <2>2, UpToN
<1>7. f[N] = g[N]
  BY <1>1, <1>6
<1>8. g[N + 1] = IF Identity(x) \in K THEN Append(g[N], x) ELSE g[N]
  <2>1. N + 1 \in 1 .. N + 1 /\ (N + 1) - 1 = N
    BY <1>1
  <2>. QED
    BY <1>1, <1>5, <2>1
<1>. QED
  BY <1>1, <1>2, <1>3, <1>7, <1>8 DEF t

-----------------------------------------------------------------------------
(* The bytes of the records *)

\* What Total computes, record by record.
Sums(s, f) == f[0] = 0 /\ \A n \in 1 .. Len(s) : f[n] = f[n - 1] + Bytes(s[n])

LEMMA TotalIs ==
  ASSUME NEW V, NEW s \in Seq(V), \A x \in V : Bytes(x) \in Nat
  PROVE  \E f \in [0 .. Len(s) -> Nat] : Sums(s, f) /\ Total(s) = f[Len(s)]
<1>. DEFINE N == Len(s)
            step == [n \in 1 .. N |-> [prev \in Nat |-> prev + Bytes(s[n])]]
            next(f, n) == IF n = 0 THEN 0 ELSE f[n - 1] + Bytes(s[n])
            is(f) == f = [n \in 0 .. N |-> next(f, n)]
<1>0. N \in Nat /\ \A n \in 1 .. N : Bytes(s[n]) \in Nat
  OBVIOUS
<1>1. step \in [1 .. N -> [Nat -> Nat]]
  <2>. SUFFICES ASSUME NEW n \in 1 .. N, NEW prev \in Nat PROVE prev + Bytes(s[n]) \in Nat
    OBVIOUS
  <2>. QED
    BY <1>0
<1>2. 0 \in Nat
  OBVIOUS
<1>3. ASSUME NEW n \in 1 .. N, NEW prev \in Nat PROVE step[n][prev] = prev + Bytes(s[n])
  OBVIOUS
<1>. HIDE DEF step
<1>4. PICK f \in [0 .. N -> Nat] : f[0] = 0 /\ \A n \in 1 .. N : f[n] = step[n][f[n - 1]]
  <2>1. \E f : Recurses(N, Nat, 0, step, f)
    <3>. HIDE DEF N
    <3>. QED
      BY <1>0, <1>1, <1>2, Recursion
  <2>. QED
    BY <2>1 DEF Recurses
<1>5. ASSUME NEW n \in 1 .. N PROVE f[n] = f[n - 1] + Bytes(s[n])
  <2>1. n - 1 \in 0 .. N
    BY <1>0
  <2>2. f[n - 1] \in Nat
    BY <1>4, <2>1
  <2>. QED
    BY <1>3, <1>4, <2>2
<1>6. \A n \in 0 .. N : n = 0 \/ n \in 1 .. N
  BY <1>0
<1>7. is(f)
  <2>1. ASSUME NEW n \in 0 .. N PROVE f[n] = next(f, n)
    <3>1. CASE n = 0
      BY <1>4, <3>1
    <3>2. CASE n # 0
      <4>1. n \in 1 .. N
        BY <1>6, <3>2
      <4>. QED
        BY <1>5, <3>2, <4>1
    <3>. QED
      BY <3>1, <3>2
  <2>2. f = [n \in 0 .. N |-> f[n]]
    BY <1>4
  <2>3. [n \in 0 .. N |-> f[n]] = [n \in 0 .. N |-> next(f, n)]
    BY <2>1
  <2>. QED
    BY <2>2, <2>3
<1>. DEFINE g == CHOOSE h : is(h)
<1>8. is(g)
  BY <1>7
<1>9. Total(s) = g[N]
  BY DEF Total
<1>. HIDE DEF g
<1>10. g[0] = 0 /\ \A n \in 1 .. N : g[n] = g[n - 1] + Bytes(s[n])
  <2>1. ASSUME NEW n \in 0 .. N PROVE g[n] = next(g, n)
    BY <1>8
  <2>2. 0 \in 0 .. N /\ \A n \in 1 .. N : n \in 0 .. N /\ n # 0
    BY <1>0
  <2>. QED
    BY <2>1, <2>2
<1>. DEFINE Good == {n \in 0 .. N : f[n] = g[n]}
<1>11. 0 .. N \subseteq Good
  <2>1. 0 \in Good
    BY <1>0, <1>4, <1>10
  <2>2. ASSUME NEW n \in 0 .. N, n # 0, n - 1 \in Good PROVE n \in Good
    <3>1. n \in 1 .. N /\ f[n - 1] = g[n - 1]
      BY <1>6, <2>2
    <3>2. f[n] = g[n]
      BY <1>5, <1>10, <3>1
    <3>. QED
      BY <3>2
  <2>. HIDE DEF Good, N
  <2>. QED
    BY <1>0, <2>1, <2>2, UpToN
<1>12. f[N] = g[N]
  BY <1>0, <1>11
<1>. QED
  BY <1>4, <1>5, <1>9, <1>12 DEF Sums

LEMMA TotalType ==
  ASSUME NEW V, NEW s \in Seq(V), \A x \in V : Bytes(x) \in Nat
  PROVE  Total(s) \in Nat
<1>1. PICK f \in [0 .. Len(s) -> Nat] : Total(s) = f[Len(s)]
  BY TotalIs
<1>2. Len(s) \in 0 .. Len(s)
  OBVIOUS
<1>. QED
  BY <1>1, <1>2

LEMMA TotalNone == Total(<<>>) = 0
<1>. DEFINE V == {}
<1>1. <<>> \in Seq(V) /\ \A x \in V : Bytes(x) \in Nat
  OBVIOUS
<1>. HIDE DEF V
<1>2. PICK f \in [0 .. Len(<<>>) -> Nat] : Sums(<<>>, f) /\ Total(<<>>) = f[Len(<<>>)]
  BY <1>1, TotalIs
<1>3. Len(<<>>) = 0
  OBVIOUS
<1>. QED
  BY <1>2, <1>3 DEF Sums

LEMMA TotalAppend ==
  ASSUME NEW V, NEW s \in Seq(V), NEW x \in V, \A y \in V : Bytes(y) \in Nat
  PROVE  Total(Append(s, x)) = Total(s) + Bytes(x)
<1>. DEFINE N == Len(s)
            t == Append(s, x)
<1>1. N \in Nat /\ t \in Seq(V) /\ Len(t) = N + 1 /\ t[N + 1] = x /\ \A n \in 1 .. N : t[n] = s[n]
  OBVIOUS
<1>2. PICK f : Sums(s, f) /\ Total(s) = f[N]
  BY TotalIs
<1>. HIDE DEF t
<1>3. PICK g : Sums(t, g) /\ Total(t) = g[Len(t)]
  BY <1>1, TotalIs
<1>. HIDE DEF N
<1>4. f[0] = 0 /\ \A n \in 1 .. N : f[n] = f[n - 1] + Bytes(s[n])
  BY <1>2 DEF Sums, N
<1>5. g[0] = 0 /\ \A n \in 1 .. N + 1 : g[n] = g[n - 1] + Bytes(t[n])
  BY <1>1, <1>3 DEF Sums
<1>. DEFINE Good == {n \in 0 .. N : f[n] = g[n]}
<1>6. 0 .. N \subseteq Good
  <2>1. 0 \in Good
    BY <1>1, <1>4, <1>5
  <2>2. ASSUME NEW n \in 0 .. N, n # 0, n - 1 \in Good PROVE n \in Good
    <3>1. n \in 1 .. N /\ n \in 1 .. N + 1 /\ f[n - 1] = g[n - 1]
      BY <1>1, <2>2
    <3>2. t[n] = s[n]
      BY <1>1, <3>1
    <3>3. f[n] = g[n]
      BY <1>4, <1>5, <3>1, <3>2
    <3>. QED
      BY <3>3
  <2>. HIDE DEF Good
  <2>. QED
    BY <1>1, <2>1, <2>2, UpToN
<1>7. f[N] = g[N]
  BY <1>1, <1>6
<1>8. g[N + 1] = g[N] + Bytes(x)
  <2>1. N + 1 \in 1 .. N + 1 /\ (N + 1) - 1 = N
    BY <1>1
  <2>. QED
    BY <1>1, <1>5, <2>1
<1>. QED
  BY <1>1, <1>2, <1>3, <1>7, <1>8 DEF t

-----------------------------------------------------------------------------
(* Ends of sequences *)

LEMMA LastApart ==
  ASSUME NEW V, NEW s \in Seq(V), Len(s) # 0
  PROVE  \E t \in Seq(V), x \in V : s = Append(t, x) /\ Len(t) = Len(s) - 1
<1>. DEFINE t == SubSeq(s, 1, Len(s) - 1)
            x == s[Len(s)]
<1>1. Len(s) \in Nat \ {0} /\ x \in V
  OBVIOUS
<1>2. t \in Seq(V) /\ Len(t) = Len(s) - 1 /\ \A i \in 1 .. Len(s) - 1 : t[i] = s[i]
  <2>. DEFINE n == Len(s) - 1
  <2>1. n \in Nat /\ 1 \in Int /\ n \in Int /\ \A i \in 1 .. n : s[i] \in V
    BY <1>1
  <2>. HIDE DEF n
  <2>2. n - 1 + 1 = n /\ (1 <= n \/ n = 0) /\ \A i \in 1 .. n : 1 + i - 1 = i
    BY <2>1
  <2>3. /\ SubSeq(s, 1, n) \in Seq(V) /\ Len(SubSeq(s, 1, n)) = n
        /\ \A i \in 1 .. n : SubSeq(s, 1, n)[i] = s[1 + i - 1]
    BY <2>1, <2>2, SubSeqProperties
  <2>. QED
    BY <2>2, <2>3 DEF n
<1>. HIDE DEF t
<1>3. /\ Append(t, x) \in Seq(V) /\ Len(Append(t, x)) = Len(s)
      /\ \A i \in 1 .. Len(t) : Append(t, x)[i] = t[i]
      /\ Append(t, x)[Len(s)] = s[Len(s)]
  BY <1>1, <1>2
<1>4. ASSUME NEW i \in 1 .. Len(s) PROVE Append(t, x)[i] = s[i]
  <2>1. i = Len(s) \/ i \in 1 .. Len(s) - 1
    BY <1>1
  <2>. QED
    BY <1>2, <1>3, <2>1
<1>. HIDE DEF x
<1>5. s = Append(t, x)
  BY <1>3, <1>4, SeqEqual
<1>. QED
  BY <1>1, <1>2, <1>5

LEMMA EndsAppend ==
  ASSUME NEW V, NEW s \in Seq(V), NEW t \in Seq(V), NEW x \in V, EndsWith(s, t)
  PROVE  EndsWith(Append(s, x), Append(t, x))
<1>1. /\ Len(s) \in Nat /\ Len(t) \in Nat /\ Len(t) <= Len(s)
      /\ Len(Append(s, x)) = Len(s) + 1 /\ Len(Append(t, x)) = Len(t) + 1
  BY DEF EndsWith
<1>2. ASSUME NEW i \in 1 .. Len(t) + 1
      PROVE  Append(t, x)[i] = Append(s, x)[(Len(s) + 1) - (Len(t) + 1) + i]
  <2>1. CASE i = Len(t) + 1
    <3>1. (Len(s) + 1) - (Len(t) + 1) + i = Len(s) + 1
      BY <1>1, <2>1
    <3>. QED
      BY <2>1, <3>1
  <2>2. CASE i # Len(t) + 1
    <3>. DEFINE j == Len(s) - Len(t) + i
    <3>1. i \in 1 .. Len(t) /\ (Len(s) + 1) - (Len(t) + 1) + i = j /\ j \in 1 .. Len(s)
      BY <1>1, <2>2
    <3>2. t[i] = s[j]
      BY <3>1 DEF EndsWith
    <3>. HIDE DEF j
    <3>3. Append(t, x)[i] = t[i] /\ Append(s, x)[j] = s[j]
      BY <3>1
    <3>. QED
      BY <3>1, <3>2, <3>3
  <2>. QED
    BY <2>1, <2>2
<1>3. Len(Append(t, x)) <= Len(Append(s, x))
  BY <1>1
<1>4. \A i \in 1 .. Len(Append(t, x)) : Append(t, x)[i] = Append(s, x)[Len(Append(s, x)) - Len(Append(t, x)) + i]
  <2>. DEFINE S == Append(s, x)
              T == Append(t, x)
  <2>. HIDE DEF S, T
  <2>1. Len(S) = Len(s) + 1 /\ Len(T) = Len(t) + 1 /\ \A i \in 1 .. Len(t) + 1 : T[i] = S[(Len(s) + 1) - (Len(t) + 1) + i]
    BY <1>1, <1>2 DEF S, T
  <2>2. \A i \in 1 .. Len(T) : T[i] = S[Len(S) - Len(T) + i]
    BY <2>1
  <2>. QED
    BY <2>2 DEF S, T
<1>. QED
  BY <1>3, <1>4 DEF EndsWith

LEMMA EndsDrop ==
  ASSUME NEW V, NEW s \in Seq(V), NEW t \in Seq(V), NEW x \in V, NEW y \in V,
         EndsWith(Append(s, x), Append(t, y))
  PROVE  x = y /\ EndsWith(s, t)
<1>1. /\ Len(s) \in Nat /\ Len(t) \in Nat
      /\ Len(Append(s, x)) = Len(s) + 1 /\ Len(Append(t, y)) = Len(t) + 1
  OBVIOUS
<1>2. /\ Len(t) <= Len(s)
      /\ \A i \in 1 .. Len(t) + 1 : Append(t, y)[i] = Append(s, x)[(Len(s) + 1) - (Len(t) + 1) + i]
  <2>. DEFINE S == Append(s, x)
              T == Append(t, y)
  <2>1. Len(S) = Len(s) + 1 /\ Len(T) = Len(t) + 1 /\ EndsWith(S, T)
    BY <1>1
  <2>. HIDE DEF S, T
  <2>2. Len(T) <= Len(S) /\ \A i \in 1 .. Len(T) : T[i] = S[Len(S) - Len(T) + i]
    BY <2>1 DEF EndsWith
  <2>3. Len(t) <= Len(s) /\ \A i \in 1 .. Len(t) + 1 : T[i] = S[(Len(s) + 1) - (Len(t) + 1) + i]
    BY <1>1, <2>1, <2>2
  <2>. QED
    BY <2>3 DEF S, T
<1>3. x = y
  <2>1. Len(t) + 1 \in 1 .. Len(t) + 1 /\ (Len(s) + 1) - (Len(t) + 1) + (Len(t) + 1) = Len(s) + 1
    BY <1>1
  <2>2. Append(t, y)[Len(t) + 1] = Append(s, x)[Len(s) + 1]
    BY <1>2, <2>1
  <2>. QED
    BY <2>2
<1>4. ASSUME NEW i \in 1 .. Len(t) PROVE t[i] = s[Len(s) - Len(t) + i]
  <2>. DEFINE j == Len(s) - Len(t) + i
  <2>1. /\ i \in 1 .. Len(t) + 1 /\ (Len(s) + 1) - (Len(t) + 1) + i = j
        /\ j \in 1 .. Len(s)
    BY <1>1, <1>2
  <2>2. Append(t, y)[i] = Append(s, x)[j]
    BY <1>2, <2>1
  <2>. HIDE DEF j
  <2>3. Append(t, y)[i] = t[i] /\ Append(s, x)[j] = s[j]
    BY <2>1
  <2>. QED
    BY <2>2, <2>3 DEF j
<1>. QED
  BY <1>2, <1>3, <1>4 DEF EndsWith

LEMMA EndsSame ==
  ASSUME NEW V, NEW s \in Seq(V)
  PROVE  EndsWith(s, s) /\ EndsWith(s, <<>>)
<1>1. Len(s) \in Nat /\ Len(<<>>) = 0 /\ \A i \in 1 .. Len(s) : Len(s) - Len(s) + i = i
  OBVIOUS
<1>. QED
  BY <1>1 DEF EndsWith

LEMMA EndsOn ==
  ASSUME NEW V, NEW r \in Seq(V), NEW s \in Seq(V), NEW t \in Seq(V), EndsWith(r, s), EndsWith(s, t)
  PROVE  EndsWith(r, t)
<1>1. Len(r) \in Nat /\ Len(s) \in Nat /\ Len(t) \in Nat /\ Len(s) <= Len(r) /\ Len(t) <= Len(s)
  BY DEF EndsWith
<1>2. ASSUME NEW i \in 1 .. Len(t) PROVE t[i] = r[Len(r) - Len(t) + i]
  <2>. DEFINE j == Len(s) - Len(t) + i
  <2>1. j \in 1 .. Len(s) /\ Len(r) - Len(s) + j = Len(r) - Len(t) + i
    BY <1>1
  <2>2. t[i] = s[j] /\ s[j] = r[Len(r) - Len(s) + j]
    BY <2>1 DEF EndsWith
  <2>. QED
    BY <2>1, <2>2
<1>. QED
  BY <1>1, <1>2 DEF EndsWith

\* The newest n records are the last n, and any last ones are the newest.
LEMMA NewestIs ==
  ASSUME NEW V, NEW s \in Seq(V), NEW n \in 0 .. Len(s)
  PROVE  Newest(s, n) \in Seq(V) /\ Len(Newest(s, n)) = n /\ EndsWith(s, Newest(s, n))
<1>1. Len(s) \in Nat /\ n \in Nat /\ n <= Len(s)
  OBVIOUS
<1>. DEFINE m == Len(s) - n + 1
<1>2. m \in 1 .. Len(s) + 1
  BY <1>1
<1>3. SubSeq(s, m, Len(s)) \in Seq(V) /\ Len(SubSeq(s, m, Len(s))) = n
  BY <1>1, <1>2
<1>4. ASSUME NEW i \in 1 .. n PROVE SubSeq(s, m, Len(s))[i] = s[Len(s) - n + i]
  <2>1. m + i - 1 = Len(s) - n + i
    BY <1>1
  <2>2. SubSeq(s, m, Len(s))[i] = s[m + i - 1]
    BY <1>1, <1>2
  <2>. QED
    BY <2>1, <2>2
<1>. QED
  BY <1>1, <1>3, <1>4 DEF Newest, EndsWith

LEMMA LastAreNewest ==
  ASSUME NEW V, NEW s \in Seq(V), NEW t \in Seq(V), EndsWith(s, t)
  PROVE  t = Newest(s, Len(t))
<1>1. Len(t) \in 0 .. Len(s)
  BY DEF EndsWith
<1>2. /\ Newest(s, Len(t)) \in Seq(V) /\ Len(Newest(s, Len(t))) = Len(t)
      /\ \A i \in 1 .. Len(t) : Newest(s, Len(t))[i] = s[Len(s) - Len(t) + i]
  <2>1. Newest(s, Len(t)) \in Seq(V) /\ Len(Newest(s, Len(t))) = Len(t) /\ EndsWith(s, Newest(s, Len(t)))
    BY <1>1, NewestIs
  <2>. QED
    BY <2>1 DEF EndsWith
<1>3. \A i \in 1 .. Len(t) : Newest(s, Len(t))[i] = t[i]
  BY <1>2 DEF EndsWith
<1>. QED
  BY <1>2, <1>3, SeqEqual

-----------------------------------------------------------------------------
(* What is kept of a sequence *)

\* Where the records kept were: m[k] is the place of the k-th.
PlacesOf(s, K, m) ==
  /\ m \in [1 .. Len(Keeping(s, K)) -> 1 .. Len(s)]
  /\ \A k \in 1 .. Len(Keeping(s, K)) : Keeping(s, K)[k] = s[m[k]] /\ Identity(s[m[k]]) \in K
  /\ \A k, l \in 1 .. Len(Keeping(s, K)) : k < l => m[k] < m[l]
  /\ \A i \in 1 .. Len(s) : Identity(s[i]) \in K => \E k \in 1 .. Len(Keeping(s, K)) : m[k] = i

LEMMA PlacesAppend ==
  ASSUME NEW V, NEW s \in Seq(V), NEW x \in V, NEW K, \E m : PlacesOf(s, K, m)
  PROVE  \E m : PlacesOf(Append(s, x), K, m)
<1>. DEFINE t == Append(s, x)
            old == Keeping(s, K)
            new == Keeping(t, K)
            N == Len(s)
            L == Len(old)
<1>1. /\ N \in Nat /\ t \in Seq(V) /\ Len(t) = N + 1 /\ t[N + 1] = x /\ \A i \in 1 .. N : t[i] = s[i]
      /\ old \in Seq(V) /\ L \in Nat /\ new \in Seq(V)
  <2>1. N \in Nat /\ t \in Seq(V) /\ Len(t) = N + 1 /\ t[N + 1] = x /\ \A i \in 1 .. N : t[i] = s[i]
    OBVIOUS
  <2>. HIDE DEF t, N
  <2>2. old \in Seq(V) /\ new \in Seq(V)
    BY <2>1, KeepingType
  <2>3. L \in Nat
    <3>. HIDE DEF old
    <3>. QED
      BY <2>2
  <2>. QED
    BY <2>1, <2>2, <2>3
<1>2. new = IF Identity(x) \in K THEN Append(old, x) ELSE old
  BY KeepingAppend
<1>3. PICK m \in [1 .. L -> 1 .. N] :
        /\ \A k \in 1 .. L : old[k] = s[m[k]] /\ Identity(s[m[k]]) \in K
        /\ \A k, l \in 1 .. L : k < l => m[k] < m[l]
        /\ \A i \in 1 .. N : Identity(s[i]) \in K => \E k \in 1 .. L : m[k] = i
  BY DEF PlacesOf
<1>. HIDE DEF t, old, new, N, L
<1>4. \A k \in 1 .. L : m[k] \in 1 .. N /\ m[k] \in 1 .. N + 1 /\ t[m[k]] = s[m[k]]
  BY <1>1, <1>3
<1>5. \A i \in 1 .. N + 1 : i = N + 1 \/ (i \in 1 .. N /\ t[i] = s[i])
  BY <1>1
<1>6. CASE Identity(x) \notin K
  <2>1. new = old /\ Len(new) = L
    BY <1>2, <1>6 DEF L
  <2>2. m \in [1 .. L -> 1 .. N + 1]
    BY <1>1, <1>3, <1>4
  <2>3. \A k \in 1 .. L : new[k] = t[m[k]] /\ Identity(t[m[k]]) \in K
    BY <1>3, <1>4, <2>1
  <2>4. \A i \in 1 .. N + 1 : Identity(t[i]) \in K => \E k \in 1 .. L : m[k] = i
    BY <1>1, <1>3, <1>5, <1>6
  <2>5. PlacesOf(t, K, m)
    BY <1>1, <1>3, <2>1, <2>2, <2>3, <2>4 DEF PlacesOf, new
  <2>. QED
    BY <2>5 DEF t
<1>7. CASE Identity(x) \in K
  <2>1. new = Append(old, x) /\ Len(new) = L + 1 /\ new[L + 1] = x /\ \A k \in 1 .. L : new[k] = old[k]
    BY <1>1, <1>2, <1>7 DEF L
  <2>. DEFINE p == [k \in 1 .. L + 1 |-> IF k = L + 1 THEN N + 1 ELSE m[k]]
  <2>2. \A k \in 1 .. L + 1 : k = L + 1 \/ (k \in 1 .. L /\ k # L + 1)
    BY <1>1
  <2>3. L + 1 \in 1 .. L + 1 /\ N + 1 \in 1 .. N + 1 /\ \A k \in 1 .. L : k \in 1 .. L + 1 /\ k # L + 1
    BY <1>1
  <2>4. p[L + 1] = N + 1 /\ \A k \in 1 .. L : p[k] = m[k]
    BY <2>3
  <2>5. p \in [1 .. L + 1 -> 1 .. N + 1]
    BY <1>4, <2>2, <2>3
  <2>. HIDE DEF p
  <2>6. \A k \in 1 .. L + 1 : new[k] = t[p[k]] /\ Identity(t[p[k]]) \in K
    <3>. SUFFICES ASSUME NEW k \in 1 .. L + 1 PROVE new[k] = t[p[k]] /\ Identity(t[p[k]]) \in K
      OBVIOUS
    <3>1. CASE k = L + 1
      BY <1>1, <1>7, <2>1, <2>4, <3>1
    <3>2. CASE k \in 1 .. L
      <4>1. new[k] = old[k] /\ p[k] = m[k] /\ t[m[k]] = s[m[k]]
        BY <1>4, <2>1, <2>4, <3>2
      <4>2. old[k] = s[m[k]] /\ Identity(s[m[k]]) \in K
        BY <1>3, <3>2
      <4>. QED
        BY <4>1, <4>2
    <3>. QED
      BY <2>2, <3>1, <3>2
  <2>7. ASSUME NEW k \in 1 .. L + 1, NEW l \in 1 .. L + 1, k < l PROVE p[k] < p[l]
    <3>1. k \in 1 .. L /\ p[k] = m[k] /\ m[k] \in 1 .. N
      BY <1>1, <1>4, <2>4, <2>7
    <3>2. CASE l = L + 1
      BY <1>1, <2>4, <3>1, <3>2
    <3>3. CASE l \in 1 .. L
      BY <1>3, <2>4, <2>7, <3>1, <3>3
    <3>. QED
      BY <2>2, <3>2, <3>3
  <2>8. ASSUME NEW i \in 1 .. N + 1, Identity(t[i]) \in K PROVE \E k \in 1 .. L + 1 : p[k] = i
    <3>1. CASE i = N + 1
      BY <2>3, <2>4, <3>1
    <3>2. CASE i \in 1 .. N /\ t[i] = s[i]
      <4>1. PICK k \in 1 .. L : m[k] = i
        BY <1>3, <2>8, <3>2
      <4>. QED
        BY <2>3, <2>4, <4>1
    <3>. QED
      BY <1>5, <3>1, <3>2
  <2>9. PlacesOf(t, K, p)
    BY <1>1, <2>1, <2>5, <2>6, <2>7, <2>8 DEF PlacesOf, new
  <2>. QED
    BY <2>9 DEF t
<1>. QED
  BY <1>6, <1>7

LEMMA PlacesNone ==
  ASSUME NEW K
  PROVE  \E m : PlacesOf(<<>>, K, m)
<1>1. Keeping(<<>>, K) = <<>> /\ Len(<<>>) = 0 /\ \A i : i \notin 1 .. 0
  BY KeepingNone
<1>. DEFINE m == [k \in 1 .. 0 |-> k]
<1>2. m \in [1 .. 0 -> 1 .. 0]
  BY <1>1
<1>. HIDE DEF m
<1>3. PlacesOf(<<>>, K, m)
  BY <1>1, <1>2 DEF PlacesOf
<1>. QED
  BY <1>3

LEMMA KeepingPlaces ==
  ASSUME NEW V, NEW s \in Seq(V), NEW K
  PROVE  \E m : PlacesOf(s, K, m)
<1>. DEFINE Good == {n \in 0 .. Len(s) : \A t \in Seq(V) : Len(t) = n => \E m : PlacesOf(t, K, m)}
<1>1. 0 \in Good
  <2>1. ASSUME NEW t \in Seq(V), Len(t) = 0 PROVE \E m : PlacesOf(t, K, m)
    <3>1. t = <<>>
      BY <2>1
    <3>. QED
      BY <3>1, PlacesNone
  <2>2. 0 \in 0 .. Len(s)
    OBVIOUS
  <2>. QED
    BY <2>1, <2>2
<1>2. ASSUME NEW n \in 0 .. Len(s), n # 0, n - 1 \in Good PROVE n \in Good
  <2>1. ASSUME NEW t \in Seq(V), Len(t) = n PROVE \E m : PlacesOf(t, K, m)
    <3>1. PICK u \in Seq(V), x \in V : t = Append(u, x) /\ Len(u) = n - 1
      <4>1. \E u \in Seq(V), x \in V : t = Append(u, x) /\ Len(u) = Len(t) - 1
        BY <1>2, <2>1, LastApart
      <4>. QED
        BY <2>1, <4>1
    <3>2. \E m : PlacesOf(u, K, m)
      BY <1>2, <3>1
    <3>. QED
      BY <3>1, <3>2, PlacesAppend
  <2>. QED
    BY <2>1
<1>. HIDE DEF Good
<1>3. Len(s) \in Nat /\ Len(s) \in 0 .. Len(s)
  OBVIOUS
<1>4. Len(s) \in Good
  BY <1>1, <1>2, <1>3, UpToN
<1>. QED
  BY <1>4 DEF Good

\* What is kept of the last records is the last of what is kept.
LEMMA KeepingEnds ==
  ASSUME NEW V, NEW r \in Seq(V), NEW q \in Seq(V), NEW K, EndsWith(r, q)
  PROVE  EndsWith(Keeping(r, K), Keeping(q, K))
<1>. DEFINE Holds(s, t) == EndsWith(s, t) => EndsWith(Keeping(s, K), Keeping(t, K))
            Good == {n \in 0 .. Len(q) : \A s, t \in Seq(V) : Len(t) = n => Holds(s, t)}
<1>1. 0 \in Good
  <2>1. ASSUME NEW s \in Seq(V), NEW t \in Seq(V), Len(t) = 0 PROVE EndsWith(Keeping(s, K), Keeping(t, K))
    <3>1. t = <<>>
      BY <2>1
    <3>2. Keeping(s, K) \in Seq(V) /\ Keeping(t, K) = <<>>
      BY <3>1, KeepingType, KeepingNone
    <3>. QED
      BY <3>2, EndsSame
  <2>2. 0 \in 0 .. Len(q)
    OBVIOUS
  <2>. QED
    BY <2>1, <2>2
<1>2. ASSUME NEW n \in 0 .. Len(q), n # 0, n - 1 \in Good PROVE n \in Good
  <2>1. ASSUME NEW s \in Seq(V), NEW t \in Seq(V), Len(t) = n, EndsWith(s, t)
        PROVE  EndsWith(Keeping(s, K), Keeping(t, K))
    <3>1. PICK u \in Seq(V), y \in V : t = Append(u, y) /\ Len(u) = n - 1
      <4>1. \E u \in Seq(V), y \in V : t = Append(u, y) /\ Len(u) = Len(t) - 1
        BY <1>2, <2>1, LastApart
      <4>. QED
        BY <2>1, <4>1
    <3>2. Len(s) # 0
      BY <1>2, <2>1 DEF EndsWith
    <3>3. PICK v \in Seq(V), x \in V : s = Append(v, x)
      BY <3>2, LastApart
    <3>4. x = y /\ EndsWith(v, u)
      BY <2>1, <3>1, <3>3, EndsDrop
    <3>5. EndsWith(Keeping(v, K), Keeping(u, K))
      BY <1>2, <3>1, <3>4
    <3>6. Keeping(v, K) \in Seq(V) /\ Keeping(u, K) \in Seq(V)
      BY KeepingType
    <3>7. /\ Keeping(s, K) = IF Identity(x) \in K THEN Append(Keeping(v, K), x) ELSE Keeping(v, K)
          /\ Keeping(t, K) = IF Identity(x) \in K THEN Append(Keeping(u, K), x) ELSE Keeping(u, K)
      BY <3>1, <3>3, <3>4, KeepingAppend
    <3>8. CASE Identity(x) \in K
      <4>1. EndsWith(Append(Keeping(v, K), x), Append(Keeping(u, K), x))
        BY <3>5, <3>6, EndsAppend
      <4>. QED
        BY <3>7, <3>8, <4>1
    <3>9. CASE Identity(x) \notin K
      BY <3>5, <3>7, <3>9
    <3>. QED
      BY <3>8, <3>9
  <2>. QED
    BY <2>1
<1>. HIDE DEF Good
<1>3. Len(q) \in Nat /\ Len(q) \in 0 .. Len(q)
  OBVIOUS
<1>4. Len(q) \in Good
  BY <1>1, <1>2, <1>3, UpToN
<1>. QED
  BY <1>4 DEF Good

\* Nothing is left out where every record is of an identity that is kept.
LEMMA KeepingAll ==
  ASSUME NEW V, NEW s \in Seq(V), NEW K, \A i \in 1 .. Len(s) : Identity(s[i]) \in K
  PROVE  Keeping(s, K) = s
<1>. DEFINE All(t) == \A i \in 1 .. Len(t) : Identity(t[i]) \in K
            Good == {n \in 0 .. Len(s) : \A t \in Seq(V) : Len(t) = n /\ All(t) => Keeping(t, K) = t}
<1>1. 0 \in Good
  <2>1. ASSUME NEW t \in Seq(V), Len(t) = 0 PROVE Keeping(t, K) = t
    <3>1. t = <<>>
      BY <2>1
    <3>. QED
      BY <3>1, KeepingNone
  <2>2. 0 \in 0 .. Len(s)
    OBVIOUS
  <2>. QED
    BY <2>1, <2>2
<1>2. ASSUME NEW n \in 0 .. Len(s), n # 0, n - 1 \in Good PROVE n \in Good
  <2>1. ASSUME NEW t \in Seq(V), Len(t) = n, All(t) PROVE Keeping(t, K) = t
    <3>1. PICK u \in Seq(V), x \in V : t = Append(u, x) /\ Len(u) = n - 1
      <4>1. \E u \in Seq(V), x \in V : t = Append(u, x) /\ Len(u) = Len(t) - 1
        BY <1>2, <2>1, LastApart
      <4>. QED
        BY <2>1, <4>1
    <3>2. t[n] = x /\ \A i \in 1 .. n - 1 : t[i] = u[i] /\ i \in 1 .. n
      BY <1>2, <3>1
    <3>3. Identity(x) \in K /\ All(u)
      BY <1>2, <2>1, <3>1, <3>2
    <3>4. Keeping(u, K) = u
      BY <1>2, <3>1, <3>3
    <3>. QED
      BY <3>1, <3>3, <3>4, KeepingAppend
  <2>. QED
    BY <2>1
<1>. HIDE DEF Good
<1>3. Len(s) \in Nat /\ Len(s) \in 0 .. Len(s)
  OBVIOUS
<1>4. Len(s) \in Good
  BY <1>1, <1>2, <1>3, UpToN
<1>. QED
  BY <1>4 DEF Good

\* Where one record is left out, its bytes and its place are saved.
LEMMA KeepingAllButOne ==
  ASSUME NEW V, NEW s \in Seq(V), NEW K, \A y \in V : Bytes(y) \in Nat,
         NEW o \in 1 .. Len(s), \A i \in 1 .. Len(s) : Identity(s[i]) \in K <=> i # o
  PROVE  /\ Total(Keeping(s, K)) + Bytes(s[o]) = Total(s)
         /\ Len(Keeping(s, K)) + 1 = Len(s)
<1>. DEFINE But(t, j) == \A i \in 1 .. Len(t) : Identity(t[i]) \in K <=> i # j
            Saves(t, j) == /\ Total(Keeping(t, K)) + Bytes(t[j]) = Total(t)
                           /\ Len(Keeping(t, K)) + 1 = Len(t)
            Good == {n \in 0 .. Len(s) : \A t \in Seq(V) : Len(t) = n => \A j \in 1 .. n : But(t, j) => Saves(t, j)}
<1>1. 0 \in Good
  OBVIOUS
<1>2. ASSUME NEW n \in 0 .. Len(s), n # 0, n - 1 \in Good PROVE n \in Good
  <2>1. ASSUME NEW t \in Seq(V), Len(t) = n, NEW j \in 1 .. n, But(t, j) PROVE Saves(t, j)
    <3>1. PICK u \in Seq(V), x \in V : t = Append(u, x) /\ Len(u) = n - 1
      <4>1. \E u \in Seq(V), x \in V : t = Append(u, x) /\ Len(u) = Len(t) - 1
        BY <1>2, <2>1, LastApart
      <4>. QED
        BY <2>1, <4>1
    <3>2. t[n] = x /\ n \in 1 .. n /\ \A i \in 1 .. n - 1 : t[i] = u[i] /\ i \in 1 .. n /\ i # n
      BY <1>2, <3>1
    <3>3. Total(t) = Total(u) + Bytes(x) /\ Total(u) \in Nat /\ Bytes(x) \in Nat
      BY <3>1, TotalAppend, TotalType
    <3>4. Keeping(t, K) = IF Identity(x) \in K THEN Append(Keeping(u, K), x) ELSE Keeping(u, K)
      BY <3>1, KeepingAppend
    <3>5. Keeping(u, K) \in Seq(V)
      BY KeepingType
    <3>6. CASE j = n
      <4>1. Identity(x) \notin K /\ \A i \in 1 .. Len(u) : Identity(u[i]) \in K
        BY <2>1, <3>1, <3>2, <3>6
      <4>2. Keeping(u, K) = u
        BY <4>1, KeepingAll
      <4>3. Keeping(t, K) = u /\ t[j] = x
        BY <3>2, <3>4, <3>6, <4>1, <4>2
      <4>. QED
        BY <1>2, <2>1, <3>1, <3>3, <4>3
    <3>7. CASE j # n
      <4>1. j \in 1 .. n - 1
        BY <1>2, <3>7
      <4>2. Identity(x) \in K /\ But(u, j)
        BY <2>1, <3>1, <3>2, <3>7
      <4>3. Saves(u, j)
        BY <1>2, <3>1, <4>1, <4>2
      <4>4. Keeping(t, K) = Append(Keeping(u, K), x)
        BY <3>4, <4>2
      <4>5. /\ Total(Keeping(t, K)) = Total(Keeping(u, K)) + Bytes(x) /\ Total(Keeping(u, K)) \in Nat
            /\ Len(Keeping(t, K)) = Len(Keeping(u, K)) + 1 /\ Len(Keeping(u, K)) \in Nat
        BY <3>5, <4>4, TotalAppend, TotalType
      <4>6. t[j] = u[j] /\ u[j] \in V
        BY <3>1, <3>2, <4>1
      <4>7. Bytes(u[j]) \in Nat
        BY <4>6
      <4>. QED
        BY <1>2, <2>1, <3>1, <3>3, <4>3, <4>5, <4>6, <4>7
    <3>. QED
      BY <3>6, <3>7
  <2>. HIDE DEF But, Saves
  <2>. QED
    BY <2>1
<1>. HIDE DEF Good
<1>3. Len(s) \in Nat /\ Len(s) \in 0 .. Len(s)
  OBVIOUS
<1>4. Len(s) \in Good
  BY <1>1, <1>2, <1>3, UpToN
<1>. QED
  BY <1>4 DEF Good

-----------------------------------------------------------------------------
(* The bounds of the file *)

LEMMA MaxIs ==
  ASSUME NEW N \in Nat, NEW S \in SUBSET (0 .. N), S # {}
  PROVE  Max(S) \in S /\ \A y \in S : y <= Max(S)
<1>. DEFINE Away == {d \in 0 .. N : N - d \in S}
<1>1. \A y \in S : y \in 0 .. N /\ N - y \in 0 .. N /\ N - (N - y) = y
  OBVIOUS
<1>2. \A y \in S : N - y \in Away
  BY <1>1
<1>3. PICK d \in Away : \A e \in Away : d <= e
  <2>1. PICK y : y \in S
    OBVIOUS
  <2>2. N - y \in Away
    BY <1>2, <2>1
  <2>3. Away \subseteq Nat
    OBVIOUS
  <2>. HIDE DEF Away
  <2>. QED
    BY <2>2, <2>3, Smallest
<1>4. N - d \in S /\ d \in 0 .. N
  BY <1>3
<1>5. ASSUME NEW y \in S PROVE N - d >= y
  <2>1. d <= N - y
    BY <1>2, <1>3
  <2>. QED
    BY <1>1, <1>4, <2>1
<1>6. Max(S) \in S /\ \A y \in S : Max(S) >= y
  BY <1>4, <1>5 DEF Max
<1>. QED
  BY <1>1, <1>6

LEMMA MinOfTwo ==
  ASSUME NEW a \in Nat, NEW b \in Nat
  PROVE  /\ Min({a, b}) \in Nat /\ Min({a, b}) <= a /\ Min({a, b}) <= b
         /\ \A c \in Nat : c <= a /\ c <= b => c <= Min({a, b})
<1>1. \E x \in {a, b} : \A y \in {a, b} : x =< y
  <2>1. a <= b \/ b <= a
    OBVIOUS
  <2>. QED
    BY <2>1
<1>2. Min({a, b}) \in {a, b} /\ \A y \in {a, b} : Min({a, b}) =< y
  BY <1>1 DEF Min
<1>. QED
  BY <1>2

LEMMA MinOfOne ==
  ASSUME NEW i \in Nat
  PROVE  Min({i}) = i
  BY DEF Min

\* The file is cut to its newest records within both bounds, and no further.
LEMMA BoundedIs ==
  ASSUME NEW s \in Seq(Records)
  PROVE  \E n \in 0 .. Len(s) :
           /\ Bounded(s) = Newest(s, n) /\ n <= MaxRecords /\ Total(Newest(s, n)) <= MaxBytes
           /\ \A k \in 0 .. Len(s) : k <= MaxRecords /\ Total(Newest(s, k)) <= MaxBytes => k <= n
<1>. DEFINE M == Min({Len(s), MaxRecords})
            fit == {n \in 0 .. M : Total(Newest(s, n)) <= MaxBytes}
<1>1. Len(s) \in Nat /\ MaxRecords \in Nat /\ MaxBytes \in Nat
  BY TelemetryAssumption
<1>2. M \in Nat /\ M <= Len(s) /\ M <= MaxRecords /\ \A c \in Nat : c <= Len(s) /\ c <= MaxRecords => c <= M
  BY <1>1, MinOfTwo
<1>3. 0 \in fit
  <2>1. 0 \in 0 .. Len(s)
    BY <1>1
  <2>2. Newest(s, 0) \in Seq(Records) /\ Len(Newest(s, 0)) = 0
    BY <2>1, NewestIs
  <2>3. Newest(s, 0) = <<>>
    BY <2>2
  <2>. QED
    BY <1>1, <1>2, <2>3, TotalNone
<1>4. Bounded(s) = Newest(s, Max(fit))
  BY DEF Bounded
<1>. HIDE DEF M
<1>5. Max(fit) \in fit /\ \A y \in fit : y <= Max(fit)
  <2>1. fit \in SUBSET (0 .. M) /\ fit # {}
    BY <1>3
  <2>. HIDE DEF fit
  <2>. QED
    BY <1>2, <2>1, MaxIs
<1>6. /\ Max(fit) \in 0 .. M /\ Total(Newest(s, Max(fit))) <= MaxBytes
  BY <1>5
<1>7. ASSUME NEW k \in 0 .. Len(s), k <= MaxRecords, Total(Newest(s, k)) <= MaxBytes PROVE k <= Max(fit)
  <2>1. k \in 0 .. M
    BY <1>1, <1>2, <1>7
  <2>. QED
    BY <1>5, <1>7, <2>1
<1>8. Max(fit) \in 0 .. Len(s) /\ Max(fit) <= MaxRecords
  <2>. HIDE DEF fit
  <2>. QED
    BY <1>1, <1>2, <1>6
<1>. HIDE DEF fit
<1>. QED
  BY <1>4, <1>6, <1>7, <1>8

-----------------------------------------------------------------------------
(* Records *)

LEMMA RecordsAre ==
  ASSUME NEW x \in Records
  PROVE  /\ Bytes(x) \in Nat /\ Identity(x) \in Identities /\ Formed(x)
         /\ x.event \in Events /\ x.id \in Checks \cup Decisions /\ x.at \in Nat /\ x.usage \in Nat
  BY DEF Records, Bytes, Identity, Identities

LEMMA SameIdentity ==
  ASSUME NEW x, NEW y
  PROVE  SameObservation(x, y) <=> x.event = y.event /\ x.id = y.id
  BY DEF SameObservation, Identity

\* What is written is the record with its time, and for an observation made
\* before with whatever of its earlier record it does not say itself.
LEMMA LineIs ==
  ASSUME NEW record \in Offered, NEW records \in Seq(Records), offers \in Nat,
         \A i, j \in Priors(records, record) : i = j
  PROVE  LET line == Stamped(Rendered(records, record), Time(records, record))
         IN /\ line \in Records /\ Identity(line) = Identity(record) /\ line.event = record.event
            /\ line.id = record.id /\ line.status = record.status
            /\ Priors(records, record) = {} => line.at = offers /\ line.usage = record.usage
            /\ \A i \in Priors(records, record) :
                 /\ line.at = records[i].at
                 /\ line.usage = IF record.usage = 0 THEN records[i].usage ELSE record.usage
<1>. DEFINE line == Stamped(Rendered(records, record), Time(records, record))
<1>1. record.event \in Events /\ record.id \in Checks \cup Decisions /\ record.status \in Statuses
      /\ record.usage \in Nat /\ Formed(record)
      /\ record = [event |-> record.event, id |-> record.id, status |-> record.status, usage |-> record.usage]
  BY DEF Offered
<1>2. CASE Priors(records, record) = {}
  <2>1. line = [event |-> record.event, id |-> record.id, status |-> record.status,
                usage |-> record.usage, at |-> offers]
    BY <1>2 DEF Stamped, Rendered, Time
  <2>2. line \in Records
    BY <1>1, <2>1 DEF Records, Formed
  <2>. HIDE DEF line
  <2>3. Identity(line) = Identity(record)
    BY <2>1 DEF Identity
  <2>4. /\ line.event = record.event /\ line.id = record.id /\ line.status = record.status
        /\ line.at = offers /\ line.usage = record.usage
    BY <2>1
  <2>. QED
    BY <1>2, <2>2, <2>3, <2>4 DEF line
<1>3. CASE Priors(records, record) # {}
  <2>1. PICK i : i \in Priors(records, record)
    BY <1>3
  <2>2. i \in 1 .. Len(records) /\ i \in Nat /\ record.event \in Upserted
    BY <2>1 DEF Priors
  <2>3. Min(Priors(records, record)) = i
    <3>1. Priors(records, record) = {i}
      BY <2>1
    <3>. QED
      BY <2>2, <3>1, MinOfOne
  <2>4. records[i] \in Records
    BY <2>2
  <2>5. records[i].usage \in Nat /\ records[i].at \in Nat
    BY <2>4, RecordsAre
  <2>. DEFINE used == IF record.usage = 0 THEN records[i].usage ELSE record.usage
  <2>6. Rendered(records, record) = [record EXCEPT !.usage = used]
    BY <1>3, <2>3 DEF Rendered
  <2>7. Time(records, record) = records[i].at
    BY <1>3, <2>3 DEF Time
  <2>8. line = [event |-> record.event, id |-> record.id, status |-> record.status,
                usage |-> used, at |-> records[i].at]
    BY <1>1, <2>6, <2>7 DEF Stamped
  <2>9. used \in Nat
    BY <1>1, <2>5
  <2>. HIDE DEF used
  <2>10. line \in Records
    <3>1. Formed(line)
      <4>1. record.event # "run-started"
        BY <2>2 DEF Upserted
      <4>. QED
        BY <1>1, <2>8, <4>1 DEF Formed
    <3>. QED
      BY <1>1, <2>5, <2>8, <2>9, <3>1 DEF Records
  <2>. HIDE DEF line
  <2>11. Identity(line) = Identity(record)
    BY <2>8 DEF Identity
  <2>12. /\ line.event = record.event /\ line.id = record.id /\ line.status = record.status
         /\ line.at = records[i].at /\ line.usage = used
    BY <2>8
  <2>13. \A j \in Priors(records, record) : j = i
    BY <2>1
  <2>. QED
    BY <1>3, <2>10, <2>11, <2>12, <2>13 DEF line, used
<1>. QED
  BY <1>2, <1>3

-----------------------------------------------------------------------------
(* Adding a record *)

\* new is records of old, of these identities and in their order, and then x.
Adds(new, old, x, K) ==
  /\ Len(new) # 0 /\ new[Len(new)] = x
  /\ \E m \in [1 .. Len(new) - 1 -> 1 .. Len(old)] :
       /\ \A k \in 1 .. Len(new) - 1 : new[k] = old[m[k]] /\ Identity(new[k]) \in K
       /\ \A k, l \in 1 .. Len(new) - 1 : k < l => m[k] < m[l]

LEMMA AddsToNone ==
  ASSUME NEW V, NEW old, NEW x \in V, NEW K
  PROVE  Adds(Append(<<>>, x), old, x, K)
<1>. DEFINE new == Append(<<>>, x)
<1>1. Len(new) # 0 /\ new[Len(new)] = x /\ Len(new) - 1 = 0
  OBVIOUS
<1>. HIDE DEF new
<1>. DEFINE m == [k \in 1 .. 0 |-> 1]
<1>2. m \in [1 .. 0 -> 1 .. Len(old)] /\ \A k : k \notin 1 .. 0
  OBVIOUS
<1>. HIDE DEF m
<1>3. Adds(new, old, x, K)
  BY <1>1, <1>2 DEF Adds
<1>. QED
  BY <1>3 DEF new

LEMMA AddsToKept ==
  ASSUME NEW V, NEW s \in Seq(V), NEW x \in V, NEW K
  PROVE  Adds(Append(Keeping(s, K), x), s, x, K)
<1>. DEFINE old == Keeping(s, K)
            new == Append(old, x)
            L == Len(old)
<1>1. old \in Seq(V)
  BY KeepingType
<1>. HIDE DEF old
<1>2. /\ L \in Nat /\ Len(new) = L + 1 /\ Len(new) # 0 /\ Len(new) - 1 = L
      /\ new[L + 1] = x /\ \A k \in 1 .. L : new[k] = old[k]
  BY <1>1
<1>3. PICK m : PlacesOf(s, K, m)
  BY KeepingPlaces
<1>. HIDE DEF new
<1>4. /\ m \in [1 .. L -> 1 .. Len(s)]
      /\ \A k \in 1 .. L : old[k] = s[m[k]] /\ Identity(s[m[k]]) \in K
      /\ \A k, l \in 1 .. L : k < l => m[k] < m[l]
  BY <1>3 DEF PlacesOf, old
<1>5. \A k \in 1 .. L : new[k] = s[m[k]] /\ Identity(new[k]) \in K
  BY <1>2, <1>4
<1>. HIDE DEF L
<1>6. Adds(new, s, x, K)
  BY <1>2, <1>4, <1>5 DEF Adds
<1>. QED
  BY <1>6 DEF new, old

LEMMA AddsToNewest ==
  ASSUME NEW V, NEW s \in Seq(V), NEW old, Len(old) \in Nat, NEW x, NEW K, Adds(s, old, x, K), NEW n \in 1 .. Len(s)
  PROVE  Adds(Newest(s, n), old, x, K)
<1>. DEFINE new == Newest(s, n)
            d == Len(s) - n
<1>1. Len(s) \in Nat /\ n \in 0 .. Len(s) /\ d \in Nat /\ d + n = Len(s)
  OBVIOUS
<1>2. new \in Seq(V) /\ Len(new) = n /\ EndsWith(s, new)
  BY <1>1, NewestIs
<1>3. \A k \in 1 .. n : new[k] = s[d + k]
  BY <1>2 DEF EndsWith
<1>4. PICK m \in [1 .. Len(s) - 1 -> 1 .. Len(old)] :
        /\ \A k \in 1 .. Len(s) - 1 : s[k] = old[m[k]] /\ Identity(s[k]) \in K
        /\ \A k, l \in 1 .. Len(s) - 1 : k < l => m[k] < m[l]
  BY DEF Adds
<1>5. s[Len(s)] = x
  BY DEF Adds
<1>. HIDE DEF new, d
<1>6. new[n] = x
  BY <1>1, <1>3, <1>5
<1>7. \A k \in 1 .. n - 1 : d + k \in 1 .. Len(s) - 1 /\ k \in 1 .. n
  BY <1>1
<1>. DEFINE p == [k \in 1 .. n - 1 |-> m[d + k]]
<1>8. p \in [1 .. n - 1 -> 1 .. Len(old)] /\ \A k \in 1 .. n - 1 : p[k] = m[d + k]
  BY <1>4, <1>7
<1>. HIDE DEF p
<1>9. \A k \in 1 .. n - 1 : new[k] = old[p[k]] /\ Identity(new[k]) \in K
  BY <1>3, <1>4, <1>7, <1>8
<1>10. ASSUME NEW k \in 1 .. n - 1, NEW l \in 1 .. n - 1, k < l PROVE p[k] < p[l]
  <2>1. d + k < d + l
    BY <1>1, <1>10
  <2>. QED
    BY <1>4, <1>7, <1>8, <2>1
<1>11. n # 0
  OBVIOUS
<1>12. Adds(new, old, x, K)
  BY <1>2, <1>6, <1>8, <1>9, <1>10, <1>11 DEF Adds
<1>. QED
  BY <1>12 DEF new

-----------------------------------------------------------------------------
(* Steps *)

LEMMA LogInvInit == LogInit => LogInv
<1>. SUFFICES ASSUME LogInit PROVE LogInv
  OBVIOUS
<1>1. /\ log = <<>> /\ reading = <<>> /\ said = <<>> /\ writer = NoWriter /\ offers = 0
      /\ wants = [p \in Writers |-> Nothing] /\ runs = [r \in Checks |-> "none"]
      /\ first = [o \in Observations |-> 0]
  BY DEF LogInit
<1>2. LogTypes
  BY <1>1 DEF LogTypes
<1>3. OneHolder
  BY <1>1 DEF OneHolder
<1>4. Len(log) = 0 /\ DOMAIN log = 1 .. 0 /\ DOMAIN said = 1 .. 0 /\ \A i : i \notin 1 .. 0
  BY <1>1
<1>5. Bounds
  BY <1>1, <1>4, TotalNone, TelemetryAssumption DEF Bounds
<1>6. OnceEach
  BY <1>4 DEF OnceEach
<1>7. EndsWith(said, log)
  BY <1>1 DEF EndsWith
<1>8. RunsInOrder
  <2>1. \A p \in Writers : wants[p].event = "nothing"
    BY <1>1 DEF Nothing
  <2>. QED
    BY <1>4, <2>1 DEF RunsInOrder, StartOf, EndOf
<1>. QED
  BY <1>2, <1>3, <1>5, <1>6, <1>7, <1>8 DEF LogInv

\* What is offered is a record of a check or of a batch.
LEMMA OffersAre ==
  /\ \A r \in Checks : RunStarted(r) \in Offered /\ Reviewed(r, "confirmed-issue") \in Offered
  /\ \A r \in Checks : \A status \in {"passed", "failed"} : RunEnded(r, status) \in Offered
  /\ \A d \in Decisions : Decided(d) \in Offered /\ \A usage \in {0, 1} : Batch(d, "failed", usage) \in Offered
  BY DEF RunStarted, Reviewed, RunEnded, Decided, Batch, Offered, Formed, Events, Upserted, Statuses

LEMMA NothingIs == Nothing.event = "nothing" /\ Nothing \notin Offered /\ \A x \in Offered : x.event # "nothing"
  BY DEF Nothing, Offered, Events, Upserted

\* Who wants no other start or end than before does not disturb their order.
LEMMA QuietOrder ==
  ASSUME RunsInOrder, UNCHANGED <<runs, said>>,
         \A q \in Writers, r \in Checks : /\ StartOf(wants'[q], r) => StartOf(wants[q], r)
                                          /\ EndOf(wants'[q], r) => EndOf(wants[q], r)
  PROVE  RunsInOrder'
  BY DEF RunsInOrder, StartOf, EndOf

LEMMA OfferKeeps ==
  ASSUME LogInv, NEW p \in Writers, Offer(p)
  PROVE  LogInv'
<1>1. /\ LogTypes /\ OneHolder /\ Bounds /\ OnceEach /\ EndsWith(said, log) /\ RunsInOrder
      /\ UNCHANGED <<log, writer, reading, refusals, said, first>> /\ offers' = offers + 1 /\ wants[p] = Nothing
  BY DEF LogInv, Offer
<1>2. \/ \E r \in Checks :
           \/ /\ runs[r] = "none" /\ runs' = [runs EXCEPT ![r] = "started"]
              /\ wants' = [wants EXCEPT ![p] = RunStarted(r)]
           \/ /\ runs[r] = "started" /\ \A q \in Writers : wants[q] # RunStarted(r)
              /\ runs' = [runs EXCEPT ![r] = "ended"]
              /\ \E status \in {"passed", "failed"} : wants' = [wants EXCEPT ![p] = RunEnded(r, status)]
           \/ UNCHANGED runs /\ wants' = [wants EXCEPT ![p] = Reviewed(r, "confirmed-issue")]
      \/ /\ UNCHANGED runs
         /\ \E d \in Decisions :
              \/ wants' = [wants EXCEPT ![p] = Decided(d)]
              \/ \E usage \in {0, 1} : wants' = [wants EXCEPT ![p] = Batch(d, "failed", usage)]
  BY DEF Offer
<1>3. \E record \in Offered : wants' = [wants EXCEPT ![p] = record]
  BY <1>2, OffersAre
<1>4. /\ wants \in [Writers -> {Nothing} \cup Offered] /\ runs \in [Checks -> {"none", "started", "ended"}]
      /\ offers \in Nat
  BY <1>1 DEF LogTypes
<1>5. runs' \in [Checks -> {"none", "started", "ended"}]
  BY <1>2, <1>4
<1>6. LogTypes'
  <2>1. wants' \in [Writers -> {Nothing} \cup Offered] /\ offers' \in Nat
    BY <1>1, <1>3, <1>4
  <2>. QED
    BY <1>1, <1>5, <2>1 DEF LogTypes
<1>7. OneHolder'
  <2>1. writer # NoWriter => writer \in Writers /\ writer # p /\ wants'[writer] = wants[writer]
    BY <1>1, <1>3, <1>4, NothingIs DEF OneHolder, LogTypes
  <2>. QED
    BY <1>1, <2>1 DEF OneHolder
<1>8. Bounds' /\ OnceEach' /\ EndsWith(said', log')
  BY <1>1 DEF Bounds, OnceEach, EndsWith
<1>9. RunsInOrder'
  <2>1. \A q \in Writers : q # p => wants'[q] = wants[q]
    BY <1>3, <1>4
  <2>2. ASSUME NEW record \in Offered, wants' = [wants EXCEPT ![p] = record], UNCHANGED runs,
               record.event \notin {"run-started", "run-terminal"}
        PROVE  RunsInOrder'
    <3>1. wants'[p] = record
      BY <1>4, <2>2
    <3>2. \A q \in Writers, r \in Checks : /\ StartOf(wants'[q], r) => StartOf(wants[q], r)
                                           /\ EndOf(wants'[q], r) => EndOf(wants[q], r)
      BY <2>1, <2>2, <3>1 DEF StartOf, EndOf
    <3>. QED
      BY <1>1, <2>2, <3>2, QuietOrder
  <2>3. ASSUME NEW s \in Checks, runs[s] = "none", runs' = [runs EXCEPT ![s] = "started"],
               wants' = [wants EXCEPT ![p] = RunStarted(s)]
        PROVE  RunsInOrder'
    <3>1. wants'[p] = RunStarted(s) /\ runs'[s] = "started" /\ \A r \in Checks : r # s => runs'[r] = runs[r]
      BY <1>4, <2>3
    <3>2. \A r : /\ StartOf(wants'[p], r) <=> r = s
                 /\ ~EndOf(wants'[p], r)
      BY <3>1 DEF StartOf, EndOf, RunStarted
    <3>3. ASSUME NEW r \in Checks
          PROVE  /\ \A q \in Writers : StartOf(wants'[q], r) => runs'[r] = "started"
                 /\ runs'[r] # "ended" =>
                      /\ \A q \in Writers : ~EndOf(wants'[q], r)
                      /\ \A i \in DOMAIN said' : ~EndOf(said'[i], r)
                 /\ \A q, w \in Writers : EndOf(wants'[q], r) /\ EndOf(wants'[w], r) => q = w
                 /\ \A q \in Writers, i \in DOMAIN said' : EndOf(wants'[q], r) => ~EndOf(said'[i], r)
                 /\ \A i, j \in DOMAIN said' : EndOf(said'[i], r) /\ EndOf(said'[j], r) => i = j
                 /\ \A i, j \in DOMAIN said' : StartOf(said'[i], r) /\ EndOf(said'[j], r) => i < j
      <4>1. /\ \A q \in Writers : StartOf(wants[q], r) => runs[r] = "started"
            /\ runs[r] # "ended" =>
                 /\ \A q \in Writers : ~EndOf(wants[q], r)
                 /\ \A i \in DOMAIN said : ~EndOf(said[i], r)
            /\ \A q, w \in Writers : EndOf(wants[q], r) /\ EndOf(wants[w], r) => q = w
            /\ \A q \in Writers, i \in DOMAIN said : EndOf(wants[q], r) => ~EndOf(said[i], r)
            /\ \A i, j \in DOMAIN said : EndOf(said[i], r) /\ EndOf(said[j], r) => i = j
            /\ \A i, j \in DOMAIN said : StartOf(said[i], r) /\ EndOf(said[j], r) => i < j
        BY <1>1 DEF RunsInOrder
      <4>2. said' = said
        BY <1>1
      <4>3. \A q \in Writers : StartOf(wants'[q], r) => runs'[r] = "started"
        BY <2>1, <2>3, <3>1, <3>2, <4>1
      <4>4. runs'[r] # "ended" => runs[r] # "ended"
        BY <2>3, <3>1
      <4>. QED
        BY <2>1, <3>2, <4>1, <4>2, <4>3, <4>4
    <3>. QED
      BY <3>3 DEF RunsInOrder, StartOf, EndOf
  <2>4. ASSUME NEW s \in Checks, NEW status \in {"passed", "failed"}, runs[s] = "started",
               \A q \in Writers : wants[q] # RunStarted(s), runs' = [runs EXCEPT ![s] = "ended"],
               wants' = [wants EXCEPT ![p] = RunEnded(s, status)]
        PROVE  RunsInOrder'
    <3>1. wants'[p] = RunEnded(s, status) /\ runs'[s] = "ended" /\ \A r \in Checks : r # s => runs'[r] = runs[r]
      BY <1>4, <2>4
    <3>2. \A r : /\ EndOf(wants'[p], r) <=> r = s
                 /\ ~StartOf(wants'[p], r)
      BY <3>1 DEF StartOf, EndOf, RunEnded
    <3>3. \A q \in Writers : ~StartOf(wants[q], s)
      <4>. SUFFICES ASSUME NEW q \in Writers, StartOf(wants[q], s) PROVE FALSE
        OBVIOUS
      <4>1. wants[q] \in Offered
        BY <1>4, NothingIs DEF StartOf
      <4>2. wants[q] = RunStarted(s)
        BY <4>1 DEF Offered, Formed, StartOf, RunStarted
      <4>. QED
        BY <2>4, <4>2
    <3>4. ASSUME NEW r \in Checks
          PROVE  /\ \A q \in Writers : StartOf(wants'[q], r) => runs'[r] = "started"
                 /\ runs'[r] # "ended" =>
                      /\ \A q \in Writers : ~EndOf(wants'[q], r)
                      /\ \A i \in DOMAIN said' : ~EndOf(said'[i], r)
                 /\ \A q, w \in Writers : EndOf(wants'[q], r) /\ EndOf(wants'[w], r) => q = w
                 /\ \A q \in Writers, i \in DOMAIN said' : EndOf(wants'[q], r) => ~EndOf(said'[i], r)
                 /\ \A i, j \in DOMAIN said' : EndOf(said'[i], r) /\ EndOf(said'[j], r) => i = j
                 /\ \A i, j \in DOMAIN said' : StartOf(said'[i], r) /\ EndOf(said'[j], r) => i < j
      <4>1. /\ \A q \in Writers : StartOf(wants[q], r) => runs[r] = "started"
            /\ runs[r] # "ended" =>
                 /\ \A q \in Writers : ~EndOf(wants[q], r)
                 /\ \A i \in DOMAIN said : ~EndOf(said[i], r)
            /\ \A q, w \in Writers : EndOf(wants[q], r) /\ EndOf(wants[w], r) => q = w
            /\ \A q \in Writers, i \in DOMAIN said : EndOf(wants[q], r) => ~EndOf(said[i], r)
            /\ \A i, j \in DOMAIN said : EndOf(said[i], r) /\ EndOf(said[j], r) => i = j
            /\ \A i, j \in DOMAIN said : StartOf(said[i], r) /\ EndOf(said[j], r) => i < j
        BY <1>1 DEF RunsInOrder
      <4>2. said' = said
        BY <1>1
      <4>3. CASE r = s
        BY <2>1, <2>4, <3>1, <3>2, <3>3, <4>1, <4>2, <4>3
      <4>4. CASE r # s
        BY <2>1, <3>1, <3>2, <4>1, <4>2, <4>4
      <4>. QED
        BY <4>3, <4>4
    <3>. QED
      BY <3>4 DEF RunsInOrder, StartOf, EndOf
  <2>5. CASE \E r \in Checks : UNCHANGED runs /\ wants' = [wants EXCEPT ![p] = Reviewed(r, "confirmed-issue")]
    <3>1. \A r : Reviewed(r, "confirmed-issue").event \notin {"run-started", "run-terminal"}
      BY DEF Reviewed
    <3>. QED
      BY <2>2, <2>5, <3>1, OffersAre
  <2>6. CASE UNCHANGED runs /\ \E d \in Decisions :
                \/ wants' = [wants EXCEPT ![p] = Decided(d)]
                \/ \E usage \in {0, 1} : wants' = [wants EXCEPT ![p] = Batch(d, "failed", usage)]
    <3>1. \A d, usage : /\ Decided(d).event \notin {"run-started", "run-terminal"}
                        /\ Batch(d, "failed", usage).event \notin {"run-started", "run-terminal"}
      BY DEF Decided, Batch
    <3>. QED
      BY <2>2, <2>6, <3>1, OffersAre
  <2>. QED
    BY <1>2, <2>3, <2>4, <2>5, <2>6
<1>. QED
  BY <1>6, <1>7, <1>8, <1>9 DEF LogInv

LEMMA AcquireKeeps ==
  ASSUME LogInv, NEW p \in Writers, Acquire(p)
  PROVE  LogInv'
<1>1. /\ LogTypes /\ Bounds /\ OnceEach /\ EndsWith(said, log) /\ RunsInOrder
      /\ writer' = p /\ wants[p] # Nothing /\ reading' \in {log, <<>>}
      /\ UNCHANGED <<log, wants, runs, offers, said, first>>
  BY DEF LogInv, Acquire
<1>2. LogTypes'
  <2>1. <<>> \in Seq(Records)
    OBVIOUS
  <2>2. reading' \in Seq(Records)
    BY <1>1, <2>1 DEF LogTypes
  <2>. QED
    BY <1>1, <2>2 DEF LogTypes
<1>3. OneHolder'
  BY <1>1 DEF OneHolder, LogTypes
<1>. QED
  BY <1>1, <1>2, <1>3 DEF LogInv, Bounds, OnceEach, EndsWith, RunsInOrder

LEMMA LeavingKeeps ==
  ASSUME LogInv, NEW p \in Writers, GiveUp(p) \/ Die(p)
  PROVE  LogInv'
<1>1. /\ LogTypes /\ OneHolder /\ Bounds /\ OnceEach /\ EndsWith(said, log) /\ RunsInOrder
      /\ wants' = [wants EXCEPT ![p] = Nothing]
      /\ UNCHANGED <<log, reading, runs, offers, said, first>>
      /\ writer' \in {NoWriter, writer} /\ (writer = p => writer' = NoWriter)
  BY DEF LogInv, GiveUp, Die
<1>2. wants \in [Writers -> {Nothing} \cup Offered]
  BY <1>1 DEF LogTypes
<1>3. wants'[p] = Nothing /\ \A q \in Writers : q # p => wants'[q] = wants[q]
  BY <1>1, <1>2
<1>4. LogTypes'
  BY <1>1, <1>2 DEF LogTypes
<1>5. OneHolder'
  <2>. SUFFICES ASSUME writer' # NoWriter PROVE wants'[writer'] \in Offered /\ reading' \in {log', <<>>}
    BY DEF OneHolder
  <2>1. writer' = writer /\ writer # p /\ writer \in Writers
    BY <1>1 DEF LogTypes
  <2>. QED
    BY <1>1, <1>3, <2>1 DEF OneHolder
<1>6. RunsInOrder'
  <2>1. \A r : ~StartOf(Nothing, r) /\ ~EndOf(Nothing, r)
    BY DEF Nothing, StartOf, EndOf
  <2>2. \A q \in Writers, r \in Checks : /\ StartOf(wants'[q], r) => StartOf(wants[q], r)
                                         /\ EndOf(wants'[q], r) => EndOf(wants[q], r)
    BY <1>3, <2>1
  <2>. QED
    BY <1>1, <2>2, QuietOrder
<1>. QED
  BY <1>1, <1>4, <1>5, <1>6 DEF LogInv, Bounds, OnceEach, EndsWith

\* What stays beside a record that is written.
Beside(record) == IF record.event \in Upserted THEN Identities \ {Identity(record)} ELSE Identities

\* What a write leaves: the same file, or records of the one before and the new line.
Wrote(record, line) ==
  /\ line \in Records /\ Identity(line) = Identity(record)
  /\ log' \in Seq(Records) /\ said' \in Seq(Records) /\ first' \in [Observations -> Nat]
  /\ Adds(log', log, line, Beside(record)) /\ Adds(said', said, line, Beside(record))
  /\ Len(log') <= MaxRecords /\ Total(log') <= MaxBytes
  /\ EndsWith(said', log')
  /\ record.event \in Upserted => first'[Identity(record)] = line.at
  /\ \A o \in Observations : o # Identity(record) => first'[o] = first[o]
  /\ record.event \notin Upserted => first' = first

\* An observation has at most one earlier record.
LEMMA OnePrior ==
  ASSUME LogTypes, OnceEach, reading \in {log, <<>>}, NEW record
  PROVE  \A i, j \in Priors(reading, record) : i = j
<1>. SUFFICES ASSUME NEW i \in Priors(reading, record), NEW j \in Priors(reading, record) PROVE i = j
  OBVIOUS
<1>1. /\ i \in DOMAIN reading /\ j \in DOMAIN reading /\ record.event \in Upserted
      /\ SameObservation(reading[i], record) /\ SameObservation(reading[j], record)
  BY DEF Priors
<1>2. reading = log
  BY <1>1
<1>3. log[i].event \in Upserted /\ SameObservation(log[i], log[j])
  BY <1>1, <1>2, SameIdentity
<1>. QED
  BY <1>1, <1>2, <1>3 DEF OnceEach

LEMMA WriteIs ==
  ASSUME LogInv, NEW p \in Writers, Write(p)
  PROVE  /\ wants[p] \in Offered /\ wants' = [wants EXCEPT ![p] = Nothing] /\ writer' = NoWriter
         /\ UNCHANGED <<reading, runs, offers>>
         /\ UNCHANGED <<log, said, first>> \/ \E line : Wrote(wants[p], line)
<1>. DEFINE record == wants[p]
            line == Stamped(Rendered(reading, record), Time(reading, record))
            rest == Others(reading, record)
            X == Append(rest, line)
            K == Beside(record)
<1>1. /\ LogTypes /\ OneHolder /\ Bounds /\ OnceEach /\ EndsWith(said, log) /\ RunsInOrder
      /\ writer = p /\ writer # NoWriter
      /\ wants' = [wants EXCEPT ![p] = Nothing] /\ writer' = NoWriter /\ UNCHANGED <<reading, runs, offers>>
  BY TelemetryAssumption DEF LogInv, Write
<1>2. record \in Offered /\ reading \in {log, <<>>}
  BY <1>1 DEF OneHolder
<1>3. \/ /\ Bounded(X) # <<>> /\ log' = Bounded(X)
         /\ said' = IF reading = log THEN Append(Others(said, record), line) ELSE <<line>>
         /\ first' = IF record.event \in Upserted /\ Priors(reading, record) = {}
                     THEN [first EXCEPT ![<<record.event, record.id>>] = offers] ELSE first
      \/ UNCHANGED <<log, said, first>>
  BY DEF Write
<1>4. \A i, j \in Priors(reading, record) : i = j
  BY <1>1, <1>2, OnePrior
<1>5. /\ log \in Seq(Records) /\ reading \in Seq(Records) /\ said \in Seq(Records)
      /\ offers \in Nat /\ first \in [Observations -> Nat]
  BY <1>1 DEF LogTypes
<1>6. /\ line \in Records /\ Identity(line) = Identity(record)
      /\ Priors(reading, record) = {} => line.at = offers
      /\ \A i \in Priors(reading, record) : line.at = reading[i].at
  BY <1>2, <1>4, <1>5, LineIs
<1>7. \A s : Others(s, record) = Keeping(s, K)
  BY DEF Others, Beside
<1>8. rest \in Seq(Records) /\ X \in Seq(Records)
  BY <1>5, <1>6, <1>7, KeepingType
<1>9. Identity(record) = <<record.event, record.id>> /\ (record.event \in Upserted => Identity(record) \in Observations)
  BY <1>2 DEF Identity, Offered, Formed, Observations
<1>. HIDE DEF line, rest, K, record
<1>10. ASSUME Bounded(X) # <<>>, log' = Bounded(X),
              said' = IF reading = log THEN Append(Others(said, record), line) ELSE <<line>>,
              first' = IF record.event \in Upserted /\ Priors(reading, record) = {}
                       THEN [first EXCEPT ![<<record.event, record.id>>] = offers] ELSE first
       PROVE  Wrote(record, line)
  <2>1. PICK n \in 0 .. Len(X) : Bounded(X) = Newest(X, n) /\ n <= MaxRecords /\ Total(Newest(X, n)) <= MaxBytes
    BY <1>8, BoundedIs
  <2>. HIDE DEF X
  <2>2. /\ log' = Newest(X, n) /\ log' \in Seq(Records) /\ Len(log') = n /\ EndsWith(X, log')
        /\ Total(log') <= MaxBytes
    BY <1>8, <1>10, <2>1, NewestIs
  <2>3. n \in 1 .. Len(X)
    BY <1>10, <2>1, <2>2
  <2>4. \E r \in Seq(Records) : said' = Append(r, line) /\ EndsWith(said', X) /\ Adds(said', said, line, K)
    <3>1. CASE reading = log
      <4>1. said' = Append(Keeping(said, K), line) /\ rest = Keeping(log, K) /\ Keeping(said, K) \in Seq(Records)
        BY <1>5, <1>7, <1>10, <3>1, KeepingType DEF rest
      <4>2. EndsWith(Keeping(said, K), rest)
        BY <1>1, <1>5, <4>1, KeepingEnds
      <4>3. EndsWith(said', X)
        BY <1>6, <1>8, <4>1, <4>2, EndsAppend DEF X
      <4>4. Adds(said', said, line, K)
        BY <1>5, <1>6, <4>1, AddsToKept
      <4>. QED
        BY <4>1, <4>3, <4>4
    <3>2. CASE reading # log
      <4>1. reading = <<>> /\ <<>> \in Seq(Records) /\ <<line>> = Append(<<>>, line)
        BY <1>2, <3>2
      <4>2. said' = Append(<<>>, line) /\ rest = <<>>
        BY <1>7, <1>10, <3>2, <4>1, KeepingNone DEF rest
      <4>3. EndsWith(said', X)
        BY <1>8, <4>2, EndsSame DEF X
      <4>4. Adds(said', said, line, K)
        BY <1>6, <4>2, AddsToNone
      <4>. QED
        BY <4>1, <4>2, <4>3, <4>4
    <3>. QED
      BY <3>1, <3>2
  <2>5. said' \in Seq(Records) /\ EndsWith(said', X)
    BY <1>6, <2>4
  <2>6. EndsWith(said', log')
    BY <1>8, <2>2, <2>5, EndsOn
  <2>7. Adds(X, log, line, K)
    <3>1. CASE reading = log
      BY <1>5, <1>6, <1>7, <3>1, AddsToKept DEF X, rest
    <3>2. CASE reading # log
      <4>1. rest = <<>>
        BY <1>2, <1>7, <3>2, KeepingNone DEF rest
      <4>. QED
        BY <1>6, <4>1, AddsToNone DEF X
    <3>. QED
      BY <3>1, <3>2
  <2>8. Adds(log', log, line, K)
    <3>1. Len(log) \in Nat
      BY <1>5
    <3>. QED
      BY <1>8, <2>2, <2>3, <2>7, <3>1, AddsToNewest
  <2>9. first' \in [Observations -> Nat] /\ (record.event \notin Upserted => first' = first)
    BY <1>5, <1>9, <1>10
  <2>10. \A o \in Observations : o # Identity(record) => first'[o] = first[o]
    BY <1>5, <1>9, <1>10
  <2>11. ASSUME record.event \in Upserted PROVE first'[Identity(record)] = line.at
    <3>1. CASE Priors(reading, record) = {}
      BY <1>5, <1>6, <1>9, <1>10, <2>11, <3>1
    <3>2. CASE Priors(reading, record) # {}
      <4>1. PICK i \in Priors(reading, record) : TRUE
        BY <3>2
      <4>2. i \in DOMAIN reading /\ Identity(reading[i]) = Identity(record)
        BY <4>1 DEF Priors, SameObservation
      <4>3. reading = log
        BY <1>2, <4>2
      <4>4. log[i].event \in Upserted
        BY <2>11, <4>2, <4>3, SameIdentity DEF SameObservation
      <4>5. log[i].at = first[Identity(record)]
        BY <1>1, <4>2, <4>3, <4>4 DEF OnceEach
      <4>. QED
        BY <1>6, <1>10, <3>2, <4>1, <4>3, <4>5
    <3>. QED
      BY <3>1, <3>2
  <2>. QED
    BY <1>6, <2>1, <2>2, <2>4, <2>5, <2>6, <2>8, <2>9, <2>10, <2>11 DEF Wrote, K
<1>11. UNCHANGED <<log, said, first>> \/ \E l : Wrote(record, l)
  BY <1>3, <1>10
<1>. QED
  BY <1>1, <1>2, <1>11 DEF record

\* The new line is the only record of its observation.
LEMMA WriteOnce ==
  ASSUME LogInv, NEW record \in Offered, NEW line, Wrote(record, line)
  PROVE  OnceEach'
<1>. DEFINE K == Beside(record)
            N == Len(log')
<1>1. log \in Seq(Records) /\ OnceEach
  BY DEF LogInv, LogTypes
<1>2. log' \in Seq(Records) /\ N \in Nat /\ DOMAIN log' = 1 .. N /\ DOMAIN log = 1 .. Len(log)
  BY <1>1 DEF Wrote
<1>3. N # 0 /\ log'[N] = line
  BY DEF Wrote, Adds
<1>4. PICK m \in [1 .. N - 1 -> 1 .. Len(log)] :
        /\ \A k \in 1 .. N - 1 : log'[k] = log[m[k]] /\ Identity(log'[k]) \in K
        /\ \A k, l \in 1 .. N - 1 : k < l => m[k] < m[l]
  BY DEF Wrote, Adds
<1>5. /\ line \in Records /\ Identity(line) = Identity(record)
      /\ record.event \in Upserted => first'[Identity(record)] = line.at
      /\ \A o \in Observations : o # Identity(record) => first'[o] = first[o]
      /\ record.event \notin Upserted => first' = first
  BY DEF Wrote
<1>6. line.event = record.event
  BY <1>5 DEF Identity
<1>. HIDE DEF N
<1>7. ASSUME NEW k \in 1 .. N - 1, log'[k].event \in Upserted
      PROVE  /\ Identity(log'[k]) # Identity(record)
             /\ log'[k].at = first'[Identity(log'[k])]
  <2>1. k \in 1 .. N /\ log'[k] \in Records
    BY <1>2
  <2>2. Identity(log'[k]) # Identity(record)
    <3>1. CASE record.event \in Upserted
      BY <1>4, <3>1 DEF K, Beside
    <3>2. CASE record.event \notin Upserted
      BY <1>7, <3>2 DEF Identity
    <3>. QED
      BY <3>1, <3>2
  <2>3. Identity(log'[k]) \in Observations
    BY <1>7, <2>1 DEF Records, Formed, Identity, Observations
  <2>4. log[m[k]].at = first[Identity(log[m[k]])]
    BY <1>1, <1>2, <1>4, <1>7 DEF OnceEach
  <2>5. log'[k] = log[m[k]] /\ first'[Identity(log'[k])] = first[Identity(log'[k])]
    BY <1>4, <1>5, <2>2, <2>3
  <2>. QED
    BY <2>2, <2>4, <2>5
<1>8. \A i \in 1 .. N : i = N \/ i \in 1 .. N - 1
  BY <1>2
<1>9. ASSUME NEW i \in 1 .. N, NEW j \in 1 .. N, log'[i].event \in Upserted, Identity(log'[i]) = Identity(log'[j])
      PROVE  i = j
  <2>1. log'[j].event = log'[i].event
    BY <1>9 DEF Identity
  <2>2. CASE i \in 1 .. N - 1 /\ j \in 1 .. N - 1
    <3>1. log[m[i]].event \in Upserted /\ SameObservation(log[m[i]], log[m[j]]) /\ m[i] \in DOMAIN log /\ m[j] \in DOMAIN log
      BY <1>2, <1>4, <1>9, <2>2 DEF SameObservation
    <3>2. m[i] = m[j]
      BY <1>1, <3>1 DEF OnceEach
    <3>3. m[i] \in Nat /\ m[j] \in Nat /\ i \in Nat /\ j \in Nat /\ ~(m[i] < m[j]) /\ ~(m[j] < m[i])
      BY <1>2, <1>4, <2>2, <3>2
    <3>4. ~(i < j) /\ ~(j < i)
      BY <1>4, <2>2, <3>3
    <3>. QED
      BY <3>3, <3>4
  <2>3. CASE i = N \/ j = N
    BY <1>3, <1>5, <1>7, <1>8, <1>9, <2>1, <2>3
  <2>. QED
    BY <1>8, <2>2, <2>3
<1>10. ASSUME NEW i \in 1 .. N, log'[i].event \in Upserted
       PROVE  log'[i].at = first'[Identity(log'[i])]
  BY <1>3, <1>5, <1>6, <1>7, <1>8, <1>10
<1>. QED
  BY <1>2, <1>9, <1>10 DEF OnceEach, SameObservation, N

\* The new line comes last, so a run's end follows its start.
LEMMA WriteInOrder ==
  ASSUME LogInv, NEW p \in Writers, wants[p] \in Offered, NEW line, Wrote(wants[p], line),
         wants' = [wants EXCEPT ![p] = Nothing], runs' = runs
  PROVE  RunsInOrder'
<1>. DEFINE record == wants[p]
            N == Len(said')
<1>1. /\ said \in Seq(Records) /\ RunsInOrder /\ wants \in [Writers -> {Nothing} \cup Offered]
  BY DEF LogInv, LogTypes
<1>2. said' \in Seq(Records) /\ N \in Nat /\ DOMAIN said' = 1 .. N /\ DOMAIN said = 1 .. Len(said)
  BY <1>1 DEF Wrote
<1>3. N # 0 /\ said'[N] = line
  BY DEF Wrote, Adds
<1>4. PICK m \in [1 .. N - 1 -> 1 .. Len(said)] :
        /\ \A k \in 1 .. N - 1 : said'[k] = said[m[k]]
        /\ \A k, l \in 1 .. N - 1 : k < l => m[k] < m[l]
  BY DEF Wrote, Adds
<1>5. line.event = record.event /\ line.id = record.id
  BY DEF Wrote, Identity
<1>6. wants'[p] = Nothing /\ \A q \in Writers : q # p => wants'[q] = wants[q]
  BY <1>1
<1>7. \A r : ~StartOf(Nothing, r) /\ ~EndOf(Nothing, r)
  BY DEF Nothing, StartOf, EndOf
<1>. HIDE DEF N
<1>8. \A i \in 1 .. N : i = N \/ i \in 1 .. N - 1
  BY <1>2
<1>9. ASSUME NEW k \in 1 .. N - 1, NEW l \in 1 .. N - 1
      PROVE  /\ m[k] \in DOMAIN said /\ m[l] \in DOMAIN said /\ k \in Nat /\ l \in Nat /\ k < N
             /\ m[k] = m[l] => k = l
             /\ m[k] < m[l] => k < l
  <2>1. m[k] \in Nat /\ m[l] \in Nat /\ m[k] \in DOMAIN said /\ m[l] \in DOMAIN said /\ k \in Nat /\ l \in Nat /\ k < N
    BY <1>2, <1>4
  <2>2. (k < l => m[k] < m[l]) /\ (l < k => m[l] < m[k])
    BY <1>4
  <2>. QED
    BY <2>1, <2>2
<1>10. ASSUME NEW r \in Checks
       PROVE  /\ \A q \in Writers : StartOf(wants'[q], r) => runs'[r] = "started"
              /\ runs'[r] # "ended" =>
                   /\ \A q \in Writers : ~EndOf(wants'[q], r)
                   /\ \A i \in DOMAIN said' : ~EndOf(said'[i], r)
              /\ \A q, w \in Writers : EndOf(wants'[q], r) /\ EndOf(wants'[w], r) => q = w
              /\ \A q \in Writers, i \in DOMAIN said' : EndOf(wants'[q], r) => ~EndOf(said'[i], r)
              /\ \A i, j \in DOMAIN said' : EndOf(said'[i], r) /\ EndOf(said'[j], r) => i = j
              /\ \A i, j \in DOMAIN said' : StartOf(said'[i], r) /\ EndOf(said'[j], r) => i < j
  <2>1. /\ \A q \in Writers : StartOf(wants[q], r) => runs[r] = "started"
        /\ runs[r] # "ended" =>
             /\ \A q \in Writers : ~EndOf(wants[q], r)
             /\ \A i \in DOMAIN said : ~EndOf(said[i], r)
        /\ \A q, w \in Writers : EndOf(wants[q], r) /\ EndOf(wants[w], r) => q = w
        /\ \A q \in Writers, i \in DOMAIN said : EndOf(wants[q], r) => ~EndOf(said[i], r)
        /\ \A i, j \in DOMAIN said : EndOf(said[i], r) /\ EndOf(said[j], r) => i = j
        /\ \A i, j \in DOMAIN said : StartOf(said[i], r) /\ EndOf(said[j], r) => i < j
    BY <1>1 DEF RunsInOrder
  <2>2. \A q \in Writers : /\ StartOf(wants'[q], r) => StartOf(wants[q], r)
                           /\ EndOf(wants'[q], r) => EndOf(wants[q], r) /\ q # p
    BY <1>6, <1>7
  <2>3. /\ EndOf(said'[N], r) <=> EndOf(wants[p], r)
        /\ StartOf(said'[N], r) <=> StartOf(wants[p], r)
    BY <1>3, <1>5 DEF StartOf, EndOf
  <2>4. \A k \in 1 .. N - 1 : /\ m[k] \in DOMAIN said
                              /\ EndOf(said'[k], r) <=> EndOf(said[m[k]], r)
                              /\ StartOf(said'[k], r) <=> StartOf(said[m[k]], r)
    BY <1>4, <1>9 DEF StartOf, EndOf
  <2>5. \A i \in 1 .. N : EndOf(said'[i], r) => runs[r] = "ended"
    BY <1>8, <2>1, <2>3, <2>4
  <2>6. \A q \in Writers, i \in 1 .. N : EndOf(wants'[q], r) => ~EndOf(said'[i], r)
    BY <1>8, <2>1, <2>2, <2>3, <2>4
  <2>7. ASSUME NEW i \in 1 .. N, NEW j \in 1 .. N, EndOf(said'[i], r), EndOf(said'[j], r) PROVE i = j
    BY <1>8, <1>9, <2>1, <2>3, <2>4, <2>7
  <2>8. ASSUME NEW i \in 1 .. N, NEW j \in 1 .. N, StartOf(said'[i], r), EndOf(said'[j], r) PROVE i < j
    <3>1. CASE i \in 1 .. N - 1 /\ j \in 1 .. N - 1
      BY <1>9, <2>1, <2>4, <2>8, <3>1
    <3>2. CASE i \in 1 .. N - 1 /\ j = N
      BY <1>9, <3>2
    <3>3. CASE i = N
      <4>1. runs[r] = "started" /\ ~EndOf(wants[p], r)
        BY <2>1, <2>3, <2>8, <3>3
      <4>. QED
        BY <2>5, <2>8, <4>1
    <3>. QED
      BY <1>8, <3>1, <3>2, <3>3
  <2>. QED
    BY <1>2, <2>1, <2>2, <2>5, <2>6, <2>7, <2>8
<1>. QED
  BY <1>10 DEF RunsInOrder, StartOf, EndOf

LEMMA WriteKeeps ==
  ASSUME LogInv, NEW p \in Writers, Write(p)
  PROVE  LogInv'
<1>1. /\ LogTypes /\ OneHolder /\ Bounds /\ OnceEach /\ EndsWith(said, log) /\ RunsInOrder
  BY DEF LogInv
<1>2. /\ wants[p] \in Offered /\ wants' = [wants EXCEPT ![p] = Nothing] /\ writer' = NoWriter
      /\ UNCHANGED <<reading, runs, offers>>
      /\ UNCHANGED <<log, said, first>> \/ \E line : Wrote(wants[p], line)
  BY WriteIs
<1>3. wants' \in [Writers -> {Nothing} \cup Offered]
  BY <1>1, <1>2 DEF LogTypes
<1>4. OneHolder'
  BY <1>2 DEF OneHolder
<1>5. CASE UNCHANGED <<log, said, first>>
  <2>1. LogTypes'
    BY <1>1, <1>2, <1>3, <1>5 DEF LogTypes
  <2>2. RunsInOrder'
    <3>1. wants'[p] = Nothing /\ \A q \in Writers : q # p => wants'[q] = wants[q]
      BY <1>1, <1>2 DEF LogTypes
    <3>2. \A r : ~StartOf(Nothing, r) /\ ~EndOf(Nothing, r)
      BY DEF Nothing, StartOf, EndOf
    <3>3. \A q \in Writers, r \in Checks : /\ StartOf(wants'[q], r) => StartOf(wants[q], r)
                                           /\ EndOf(wants'[q], r) => EndOf(wants[q], r)
      BY <3>1, <3>2
    <3>. QED
      BY <1>1, <1>2, <1>5, <3>3, QuietOrder
  <2>. QED
    BY <1>1, <1>4, <1>5, <2>1, <2>2 DEF LogInv, Bounds, OnceEach, EndsWith
<1>6. CASE \E line : Wrote(wants[p], line)
  <2>1. PICK line : Wrote(wants[p], line)
    BY <1>6
  <2>2. LogTypes'
    BY <1>1, <1>2, <1>3, <2>1 DEF LogTypes, Wrote
  <2>3. Bounds' /\ EndsWith(said, log)'
    BY <2>1 DEF Wrote, Bounds, EndsWith
  <2>4. OnceEach'
    BY <1>2, <2>1, WriteOnce
  <2>5. RunsInOrder'
    BY <1>2, <2>1, WriteInOrder
  <2>. QED
    BY <1>4, <2>2, <2>3, <2>4, <2>5 DEF LogInv
<1>. QED
  BY <1>2, <1>5, <1>6

-----------------------------------------------------------------------------
(* The summary *)

\* The records of one kind in a summary about the runs of S: all there are in
\* the file, in their order; h[k] is the place of the k-th.
Shown(event, S, shown, h) ==
  /\ shown \in Seq(Records) /\ h \in [1 .. Len(shown) -> 1 .. Len(log)]
  /\ \A k \in 1 .. Len(shown) : shown[k] = log[h[k]] /\ shown[k].event = event /\ shown[k].id \in S
  /\ \A k, l \in 1 .. Len(shown) : k < l => h[k] < h[l]
  /\ \A i \in 1 .. Len(log) : log[i].event = event /\ log[i].id \in S => \E k \in 1 .. Len(shown) : h[k] = i

LEMMA ShownIs ==
  ASSUME LogTypes, NEW S \in SUBSET Checks, NEW event \in Events
  PROVE  \E h : Shown(event, S, Of(Keeping(log, Events \X S), event), h)
<1>. DEFINE J == Events \X S
            K == {event} \X (Checks \cup Decisions)
            all == Keeping(log, J)
            shown == Keeping(all, K)
            N == Len(shown)
<1>1. log \in Seq(Records) /\ all \in Seq(Records) /\ shown \in Seq(Records)
  BY KeepingType DEF LogTypes
<1>2. PICK g : PlacesOf(log, J, g)
  BY <1>1, KeepingPlaces
<1>3. PICK f : PlacesOf(all, K, f)
  BY <1>1, KeepingPlaces
<1>4. /\ g \in [1 .. Len(all) -> 1 .. Len(log)]
      /\ \A k \in 1 .. Len(all) : all[k] = log[g[k]] /\ Identity(log[g[k]]) \in J
      /\ \A k, l \in 1 .. Len(all) : k < l => g[k] < g[l]
      /\ \A i \in 1 .. Len(log) : Identity(log[i]) \in J => \E k \in 1 .. Len(all) : g[k] = i
  BY <1>2 DEF PlacesOf
<1>5. /\ f \in [1 .. N -> 1 .. Len(all)]
      /\ \A k \in 1 .. N : shown[k] = all[f[k]] /\ Identity(all[f[k]]) \in K
      /\ \A k, l \in 1 .. N : k < l => f[k] < f[l]
      /\ \A i \in 1 .. Len(all) : Identity(all[i]) \in K => \E k \in 1 .. N : f[k] = i
  BY <1>3 DEF PlacesOf
<1>6. \A x : /\ Identity(x) \in J <=> x.event \in Events /\ x.id \in S
             /\ Identity(x) \in K <=> x.event = event /\ x.id \in Checks \cup Decisions
  BY DEF Identity
<1>. HIDE DEF J, K, all, shown, N
<1>. DEFINE h == [k \in 1 .. N |-> g[f[k]]]
<1>7. h \in [1 .. N -> 1 .. Len(log)] /\ \A k \in 1 .. N : h[k] = g[f[k]]
  BY <1>4, <1>5
<1>. HIDE DEF h
<1>8. \A k \in 1 .. N : shown[k] = log[h[k]] /\ shown[k].event = event /\ shown[k].id \in S
  BY <1>4, <1>5, <1>6, <1>7
<1>9. \A k, l \in 1 .. N : k < l => h[k] < h[l]
  <2>. SUFFICES ASSUME NEW k \in 1 .. N, NEW l \in 1 .. N, k < l PROVE h[k] < h[l]
    OBVIOUS
  <2>1. f[k] \in 1 .. Len(all) /\ f[l] \in 1 .. Len(all) /\ f[k] < f[l]
    BY <1>5
  <2>2. g[f[k]] < g[f[l]]
    BY <1>4, <2>1
  <2>. QED
    BY <1>7, <2>2
<1>10. ASSUME NEW i \in 1 .. Len(log), log[i].event = event, log[i].id \in S PROVE \E k \in 1 .. N : h[k] = i
  <2>1. PICK j \in 1 .. Len(all) : g[j] = i
    BY <1>4, <1>6, <1>10
  <2>2. PICK k \in 1 .. N : f[k] = j
    BY <1>4, <1>5, <1>6, <1>10, <2>1
  <2>. QED
    BY <1>7, <2>1, <2>2
<1>11. Shown(event, S, shown, h)
  BY <1>1, <1>7, <1>8, <1>9, <1>10 DEF Shown, N
<1>. QED
  BY <1>11 DEF shown, all, J, K, Of

\* Where a record of the file is in what was written.
LEMMA LogInSaid ==
  ASSUME LogInv
  PROVE  /\ Len(said) - Len(log) \in Nat /\ Len(log) \in Nat /\ DOMAIN log = 1 .. Len(log) /\ DOMAIN said = 1 .. Len(said)
         /\ \A i \in 1 .. Len(log) : /\ Len(said) - Len(log) + i \in 1 .. Len(said)
                                     /\ log[i] = said[Len(said) - Len(log) + i]
<1>1. log \in Seq(Records) /\ said \in Seq(Records) /\ EndsWith(said, log)
  BY DEF LogInv, LogTypes
<1>2. Len(log) \in Nat /\ Len(said) \in Nat /\ Len(log) <= Len(said)
  BY <1>1 DEF EndsWith
<1>. QED
  BY <1>1, <1>2 DEF EndsWith

\* A run whose end was written is not among those that started and never ended.
LEMMA EndsAreShown ==
  ASSUME LogInv, NEW S \in SUBSET Checks, NEW starts, NEW terminals, NEW g, NEW h,
         Shown("run-started", S, starts, g), Shown("run-terminal", S, terminals, h),
         NEW r \in IdsOf(starts) \ IdsOf(terminals), NEW i \in DOMAIN said, said[i].event = "run-terminal"
  PROVE  said[i].id # r
<1>. DEFINE d == Len(said) - Len(log)
<1>1. PICK k \in 1 .. Len(starts) : starts[k].id = r
  BY DEF IdsOf, Shown
<1>2. g[k] \in 1 .. Len(log) /\ StartOf(log[g[k]], r) /\ r \in S /\ r \in Checks
  BY <1>1 DEF Shown, StartOf
<1>3. /\ d \in Nat /\ Len(log) \in Nat /\ d + Len(log) = Len(said) /\ DOMAIN said = 1 .. Len(said)
      /\ \A j \in 1 .. Len(log) : d + j \in DOMAIN said /\ log[j] = said[d + j]
  BY LogInSaid
<1>. HIDE DEF d
<1>. SUFFICES ASSUME EndOf(said[i], r) PROVE FALSE
  BY DEF EndOf
<1>4. StartOf(said[d + g[k]], r)
  BY <1>2, <1>3 DEF StartOf
<1>5. d + g[k] < i
  BY <1>2, <1>3, <1>4 DEF LogInv, RunsInOrder
<1>6. i \in Nat /\ i <= Len(said) /\ g[k] \in Nat /\ 1 <= g[k]
  BY <1>2, <1>3
<1>7. i - d \in 1 .. Len(log) /\ d + (i - d) = i
  BY <1>3, <1>5, <1>6
<1>8. log[i - d] = said[i]
  BY <1>3, <1>7
<1>9. PICK l \in 1 .. Len(terminals) : h[l] = i - d
  <2>1. log[i - d].event = "run-terminal" /\ log[i - d].id \in S
    BY <1>2, <1>8 DEF EndOf
  <2>2. \A j \in 1 .. Len(log) : log[j].event = "run-terminal" /\ log[j].id \in S =>
          \E l \in 1 .. Len(terminals) : h[l] = j
    BY DEF Shown
  <2>. QED
    BY <1>7, <2>1, <2>2
<1>10. terminals[l] = log[h[l]] /\ DOMAIN terminals = 1 .. Len(terminals)
  BY DEF Shown
<1>11. terminals[l].id = r /\ l \in DOMAIN terminals
  BY <1>8, <1>9, <1>10 DEF EndOf
<1>12. r \in IdsOf(terminals)
  BY <1>11 DEF IdsOf
<1>. QED
  BY <1>12

\* Reviewed runs are runs, and each run passed or failed.
LEMMA CountsAgree ==
  ASSUME LogInv, NEW S \in SUBSET Checks, NEW terminals, NEW h, Shown("run-terminal", S, terminals, h),
         NEW some \in SUBSET DOMAIN terminals
  PROVE  /\ Cardinality(some) <= Len(terminals)
         /\ Cardinality({i \in DOMAIN terminals : terminals[i].status = "passed"})
              + Cardinality({i \in DOMAIN terminals : terminals[i].status = "failed"}) = Len(terminals)
<1>. DEFINE N == Len(terminals)
            D == 1 .. N
            passed == {i \in DOMAIN terminals : terminals[i].status = "passed"}
            failed == {i \in DOMAIN terminals : terminals[i].status = "failed"}
<1>1. N \in Nat /\ DOMAIN terminals = D /\ terminals \in Seq(Records)
  BY DEF Shown
<1>2. IsFiniteSet(D) /\ Cardinality(D) = N
  <2>1. 1 \in Int /\ N \in Int
    BY <1>1
  <2>2. IsFiniteSet(1 .. N) /\ Cardinality(1 .. N) = IF 1 > N THEN 0 ELSE N - 1 + 1
    BY <2>1, FS_Interval
  <2>. QED
    BY <1>1, <2>2
<1>3. some \in SUBSET D /\ passed \in SUBSET D /\ failed \in SUBSET D
  BY <1>1
<1>4. passed \cup failed = D
  <2>1. \A i \in D : terminals[i].status \in {"passed", "failed"}
    BY <1>1 DEF Shown, Records, Formed
  <2>. QED
    BY <1>1, <2>1
<1>5. passed \cap failed = {}
  OBVIOUS
<1>. HIDE DEF D, N, passed, failed
<1>6. Cardinality(some) <= N
  BY <1>2, <1>3, FS_Subset
<1>7. IsFiniteSet(passed) /\ IsFiniteSet(failed)
  BY <1>2, <1>3, FS_Subset
<1>8. Cardinality(passed) + Cardinality(failed) = N
  <2>1. Cardinality(passed \cup failed) = Cardinality(passed) + Cardinality(failed) - Cardinality(passed \cap failed)
    BY <1>7, FS_Union
  <2>2. Cardinality(passed) \in Nat /\ Cardinality(failed) \in Nat
    BY <1>7, FS_CardinalityType
  <2>3. Cardinality(passed \cap failed) = 0
    BY <1>5, FS_EmptySet
  <2>4. Cardinality(D) = Cardinality(passed) + Cardinality(failed) - 0
    BY <1>4, <2>1, <2>3
  <2>. QED
    BY <1>2, <2>2, <2>4
<1>. QED
  BY <1>6, <1>8 DEF N, passed, failed

\* A repetition shown is of two runs, in the order in which they ended.
LEMMA ExamplesAre ==
  ASSUME LogInv, NEW S \in SUBSET Checks, NEW terminals, NEW h, Shown("run-terminal", S, terminals, h),
         NEW e \in Examples(terminals)
  PROVE  LET endsAt(r) == CHOOSE i \in DOMAIN said : said[i].event = "run-terminal" /\ said[i].id = r
             a == terminals[e[1]].id
             b == terminals[e[2]].id
         IN a # b /\ About[a] = About[b] /\ endsAt(a) < endsAt(b)
<1>. DEFINE N == Len(terminals)
            twins(i, j) == About[terminals[i].id] = About[terminals[j].id]
            before(j) == {k \in DOMAIN terminals : k < j /\ twins(k, j)}
            B == before(e[2])
            d == Len(said) - Len(log)
            endsAt(r) == CHOOSE i \in DOMAIN said : said[i].event = "run-terminal" /\ said[i].id = r
<1>1. N \in Nat /\ DOMAIN terminals = 1 .. N
  BY DEF Shown
<1>2. /\ e[1] \in DOMAIN terminals /\ e[2] \in DOMAIN terminals
      /\ e[1] = Max(B \cup {0}) /\ terminals[e[1]].id # terminals[e[2]].id
  BY DEF Examples
<1>3. B \cup {0} \in SUBSET (0 .. N)
  BY <1>1
<1>4. Max(B \cup {0}) \in B \cup {0}
  <2>. HIDE DEF B
  <2>. QED
    BY <1>1, <1>3, MaxIs
<1>5. e[1] \in B
  <2>1. e[1] # 0
    <3>1. e[1] \in 1 .. N
      BY <1>1, <1>2
    <3>. HIDE DEF N
    <3>. QED
      BY <3>1
  <2>. HIDE DEF B
  <2>. QED
    BY <1>2, <1>4, <2>1
<1>6. e[1] < e[2] /\ About[terminals[e[1]].id] = About[terminals[e[2]].id]
  BY <1>5
<1>7. /\ d \in Nat /\ Len(log) \in Nat /\ DOMAIN said = 1 .. Len(said)
      /\ \A j \in 1 .. Len(log) : d + j \in DOMAIN said /\ log[j] = said[d + j]
  BY LogInSaid
<1>. HIDE DEF d, N, B
<1>8. ASSUME NEW k \in DOMAIN terminals
      PROVE  h[k] \in 1 .. Len(log) /\ endsAt(terminals[k].id) = d + h[k]
  <2>. DEFINE r == terminals[k].id
  <2>1. h[k] \in 1 .. Len(log) /\ terminals[k] = log[h[k]] /\ terminals[k].event = "run-terminal" /\ r \in Checks
    BY <1>1, <1>8 DEF Shown, N
  <2>2. d + h[k] \in DOMAIN said /\ EndOf(said[d + h[k]], r)
    BY <1>7, <2>1 DEF EndOf
  <2>. HIDE DEF r
  <2>3. \A i, j \in DOMAIN said : EndOf(said[i], r) /\ EndOf(said[j], r) => i = j
    BY <2>1 DEF LogInv, RunsInOrder
  <2>4. \A i \in DOMAIN said : said[i].event = "run-terminal" /\ said[i].id = r <=> i = d + h[k]
    BY <2>2, <2>3 DEF EndOf
  <2>5. endsAt(r) = d + h[k]
    BY <2>2, <2>4
  <2>. QED
    BY <2>1, <2>5 DEF r
<1>9. h[e[1]] < h[e[2]]
  BY <1>1, <1>2, <1>6 DEF Shown, N
<1>10. endsAt(terminals[e[1]].id) < endsAt(terminals[e[2]].id)
  <2>1. h[e[1]] \in Nat /\ h[e[2]] \in Nat
    BY <1>2, <1>7, <1>8
  <2>2. endsAt(terminals[e[1]].id) = d + h[e[1]] /\ endsAt(terminals[e[2]].id) = d + h[e[2]]
    BY <1>2, <1>8
  <2>. HIDE DEF endsAt
  <2>. QED
    BY <1>7, <1>9, <2>1, <2>2
<1>. QED
  BY <1>2, <1>6, <1>10

LEMMA InvIsFaithful == LogInv => LogFaithful
<1>. SUFFICES ASSUME LogInv PROVE LogFaithful
  OBVIOUS
<1>. DEFINE stages == {About[r].stage : r \in Checks}
            S == {r \in Checks : About[r].stage \in stages
                    /\ \E i \in DOMAIN log : log[i].event \in {"run-started", "run-terminal"} /\ log[i].id = r}
            all == Selected(log, stages)
            summary == Summary(all)
            starts == Of(all, "run-started")
            terminals == Of(all, "run-terminal")
            endsAt(r) == CHOOSE i \in DOMAIN said : said[i].event = "run-terminal" /\ said[i].id = r
<1>1. all = Keeping(log, Events \X S) /\ S \in SUBSET Checks
  BY DEF Selected
<1>2. /\ LogTypes /\ Bounds /\ OnceEach /\ log \in Seq(Records) /\ said \in Seq(Records) /\ EndsWith(said, log)
  BY DEF LogInv, LogTypes
<1>. HIDE DEF S, stages
<1>3. "run-started" \in Events /\ "run-terminal" \in Events
  BY DEF Events
<1>4. PICK g : Shown("run-started", S, starts, g)
  BY <1>1, <1>2, <1>3, ShownIs
<1>5. PICK h : Shown("run-terminal", S, terminals, h)
  BY <1>1, <1>2, <1>3, ShownIs
<1>6. /\ summary.runs = Len(terminals)
      /\ summary.outcomes = [s \in {"passed", "failed"} |-> Cardinality({i \in DOMAIN terminals : terminals[i].status = s})]
      /\ summary.reviewed = Cardinality({i \in DOMAIN terminals : Disposition(all, terminals[i].id) # "unreviewed"})
      /\ summary.nonterminal = IdsOf(starts) \ IdsOf(terminals)
      /\ summary.examples = {<<terminals[e[1]].id, terminals[e[2]].id>> : e \in Examples(terminals)}
  BY DEF Summary
<1>. HIDE DEF all, summary, starts, terminals
<1>7. Len(log) <= MaxRecords /\ Total(log) <= MaxBytes
  BY <1>2 DEF Bounds
<1>8. log = Newest(said, Len(log))
  BY <1>2, LastAreNewest
<1>9. /\ \A i, j \in DOMAIN log : log[i].event \in Upserted /\ SameObservation(log[i], log[j]) => i = j
      /\ \A i \in DOMAIN log : log[i].event \in Upserted => log[i].at = first[<<log[i].event, log[i].id>>]
  BY <1>2 DEF OnceEach, Identity
<1>10. \A r \in summary.nonterminal : \A i \in DOMAIN said : said[i].event = "run-terminal" => said[i].id # r
  BY <1>1, <1>4, <1>5, <1>6, EndsAreShown
<1>11. summary.reviewed <= summary.runs
  <2>. DEFINE reviewed == {i \in DOMAIN terminals : Disposition(all, terminals[i].id) # "unreviewed"}
  <2>1. reviewed \in SUBSET DOMAIN terminals
    OBVIOUS
  <2>. HIDE DEF reviewed
  <2>2. Cardinality(reviewed) <= Len(terminals)
    BY <1>1, <1>5, <2>1, CountsAgree
  <2>. QED
    BY <1>6, <2>2 DEF reviewed
<1>12. summary.outcomes["passed"] + summary.outcomes["failed"] = summary.runs
  <2>1. Cardinality({i \in DOMAIN terminals : terminals[i].status = "passed"})
          + Cardinality({i \in DOMAIN terminals : terminals[i].status = "failed"}) = Len(terminals)
    BY <1>1, <1>5, CountsAgree
  <2>2. \A s \in {"passed", "failed"} : summary.outcomes[s] = Cardinality({i \in DOMAIN terminals : terminals[i].status = s})
    BY <1>6
  <2>. QED
    BY <1>6, <2>1, <2>2
<1>13. \A e \in summary.examples : e[1] # e[2] /\ About[e[1]] = About[e[2]] /\ endsAt(e[1]) < endsAt(e[2])
  <2>1. \A x \in Examples(terminals) :
          /\ terminals[x[1]].id # terminals[x[2]].id
          /\ About[terminals[x[1]].id] = About[terminals[x[2]].id]
          /\ endsAt(terminals[x[1]].id) < endsAt(terminals[x[2]].id)
    BY <1>1, <1>5, ExamplesAre
  <2>. HIDE DEF endsAt
  <2>. QED
    BY <1>6, <2>1
<1>. QED
  BY <1>7, <1>8, <1>9, <1>10, <1>11, <1>12, <1>13 DEF LogFaithful, summary, all, stages

-----------------------------------------------------------------------------
(* Theorems *)

\* The inductive invariant holds in every state, whatever is offered, killed or
\* left unread, in whatever order.
THEOREM LogInvariant == LogSpec => []LogInv
<1>1. LogInv /\ [LogNext]_logVars => LogInv'
  <2>. SUFFICES ASSUME LogInv, [LogNext]_logVars PROVE LogInv'
    OBVIOUS
  <2>1. CASE LogNext
    BY <2>1, OfferKeeps, AcquireKeeps, LeavingKeeps, WriteKeeps DEF LogNext
  <2>2. CASE UNCHANGED logVars
    BY <2>2 DEF logVars, LogInv, LogTypes, OneHolder, Bounds, OnceEach, EndsWith, RunsInOrder
  <2>. QED
    BY <2>1, <2>2
<1>. QED
  BY LogInvInit, <1>1, PTL DEF LogSpec

\* However many processes append, and whoever of them dies or cannot read, the
\* file is the newest of what was written, within its bounds, with one record of an
\* observation, and the summary tells what was written (append, _bounded_records,
\* status).
THEOREM LogIsFaithful == LogSpec => []LogFaithful
  BY LogInvariant, InvIsFaithful, PTL

\* A record not of the observation that is made again, and not grown, is still there.
LEMMA FreeStep ==
  ASSUME LogInv, LogNext
  PROVE  \A p \in Writers :
           (/\ writer = p /\ reading = log /\ log' # log
            /\ \E i \in Priors(log, wants[p]) : log[i].usage >= wants[p].usage)
         => \A i \in DOMAIN log : ~SameObservation(log[i], wants[p]) => \E j \in DOMAIN log' : log'[j] = log[i]
<1>. SUFFICES ASSUME NEW p \in Writers, writer = p, reading = log, log' # log,
                     NEW o \in Priors(log, wants[p]), log[o].usage >= wants[p].usage,
                     NEW i \in DOMAIN log, ~SameObservation(log[i], wants[p])
              PROVE  \E j \in DOMAIN log' : log'[j] = log[i]
  OBVIOUS
<1>. DEFINE record == wants[p]
            line == Stamped(Rendered(log, record), Time(log, record))
            K == Beside(record)
            rest == Keeping(log, K)
            X == Append(rest, line)
<1>1. PICK q \in Writers : Write(q)
  BY DEF LogNext, Offer, Acquire, GiveUp, Die
<1>2. q = p
  BY <1>1 DEF Write
<1>3. log' = Bounded(Append(Others(log, record), line))
  BY <1>1, <1>2 DEF Write
<1>4. /\ LogTypes /\ OnceEach /\ Bounds /\ log \in Seq(Records) /\ reading \in {log, <<>>} /\ record \in Offered
      /\ offers \in Nat
  BY <1>1, <1>2, WriteIs DEF LogInv, LogTypes
<1>5. log' = Bounded(X)
  BY <1>3 DEF Others, Beside
<1>6. \A a, b \in Priors(log, record) : a = b
  BY <1>4, OnePrior
<1>7. line \in Records /\ line.usage = IF record.usage = 0 THEN log[o].usage ELSE record.usage
  BY <1>4, <1>6, LineIs
<1>8. o \in 1 .. Len(log) /\ record.event \in Upserted /\ Identity(log[o]) = Identity(record)
      /\ DOMAIN log = 1 .. Len(log) /\ Len(log) \in Nat
  BY <1>4 DEF Priors, SameObservation
<1>9. \A y \in Records : Bytes(y) \in Nat /\ y.usage \in Nat /\ Identity(y) \in Identities
  BY RecordsAre
<1>10. \A k \in 1 .. Len(log) : log[k] \in Records
  BY <1>4
<1>11. \A k \in 1 .. Len(log) : Identity(log[k]) \in K <=> k # o
  <2>1. K = Identities \ {Identity(record)}
    BY <1>8 DEF Beside
  <2>2. \A k \in 1 .. Len(log) : Identity(log[k]) = Identity(record) => k \in Priors(log, record)
    BY <1>8 DEF Priors, SameObservation
  <2>. HIDE DEF K
  <2>. QED
    BY <1>6, <1>8, <1>9, <1>10, <2>1, <2>2
<1>. HIDE DEF line, K
<1>12. Total(rest) + Bytes(log[o]) = Total(log) /\ Len(rest) + 1 = Len(log)
  BY <1>4, <1>8, <1>9, <1>11, KeepingAllButOne
<1>13. rest \in Seq(Records) /\ Total(rest) \in Nat
  <2>1. rest \in Seq(Records)
    BY <1>4, KeepingType
  <2>. HIDE DEF rest
  <2>. QED
    BY <1>9, <2>1, TotalType
<1>14. X \in Seq(Records) /\ Len(X) = Len(log) /\ Total(X) = Total(rest) + Bytes(line)
  <2>. HIDE DEF rest
  <2>. QED
    BY <1>7, <1>9, <1>12, <1>13, TotalAppend
<1>15. Bytes(line) <= Bytes(log[o])
  <2>1. record.usage \in Nat /\ log[o].usage \in Nat
    BY <1>4, <1>8, <1>9, <1>10 DEF Offered
  <2>. QED
    BY <1>7, <1>8, <2>1 DEF Bytes
<1>16. Len(X) <= MaxRecords /\ Total(X) <= MaxBytes
  <2>1. Bytes(line) \in Nat /\ Bytes(log[o]) \in Nat
    BY <1>7, <1>8, <1>9, <1>10
  <2>. QED
    BY <1>4, <1>12, <1>13, <1>14, <1>15, <2>1, TelemetryAssumption DEF Bounds
<1>17. PICK m : PlacesOf(log, K, m)
  BY <1>4, KeepingPlaces
<1>18. \E k \in 1 .. Len(rest) : rest[k] = log[i]
  <2>1. Identity(log[i]) \in K
    BY <1>8, <1>11 DEF SameObservation
  <2>. QED
    BY <1>8, <1>17, <2>1 DEF PlacesOf
<1>. HIDE DEF rest
<1>19. PICK k \in 1 .. Len(rest) : rest[k] = log[i]
  BY <1>18
<1>20. k \in 1 .. Len(X) /\ X[k] = log[i]
  BY <1>7, <1>13, <1>19
<1>. HIDE DEF X
<1>21. log' = X
  <2>1. PICK n \in 0 .. Len(X) : /\ Bounded(X) = Newest(X, n)
                                 /\ \A l \in 0 .. Len(X) : l <= MaxRecords /\ Total(Newest(X, l)) <= MaxBytes => l <= n
    BY <1>14, BoundedIs
  <2>2. X = Newest(X, Len(X))
    BY <1>14, EndsSame, LastAreNewest
  <2>3. n = Len(X)
    BY <1>14, <1>16, <2>1, <2>2
  <2>. QED
    BY <1>5, <2>1, <2>2, <2>3
<1>. QED
  BY <1>14, <1>20, <1>21

\* Recovery may make an observation again and again, between whatever else is
\* appended: as long as it says no more it costs no other record its place (append).
THEOREM ReRecordingIsFree == LogSpec => ReRecordingFree
<1>1. LogInv /\ [LogNext]_logVars =>
        [\A p \in Writers :
           (/\ writer = p /\ reading = log /\ log' # log
            /\ \E i \in Priors(log, wants[p]) : log[i].usage >= wants[p].usage)
         => \A i \in DOMAIN log : ~SameObservation(log[i], wants[p]) => \E j \in DOMAIN log' : log'[j] = log[i]]_logVars
  BY FreeStep
<1>. QED
  BY LogInvariant, <1>1, PTL DEF LogSpec, ReRecordingFree
==============================================================================
