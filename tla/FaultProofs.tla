-------------------------------- MODULE FaultProofs --------------------------------
(***************************************************************************)
(* Theorems about the fault algebra, for any exceptions that occur and     *)
(* blocks of any length.  The folds are recursive functions: what they     *)
(* compute is shown by induction on the rails already folded, itself       *)
(* reduced to the least counterexample among the natural numbers.          *)
(***************************************************************************)
EXTENDS FaultBlocks, WellFoundedInduction, TLAPS

(* Induction over an interval, by the least counterexample. *)
LEMMA IntervalInduction ==
  ASSUME NEW N \in Nat, NEW P, 0 \in P, \A n \in 1 .. N : n - 1 \in P => n \in P
  PROVE  \A n \in 0 .. N : n \in P
<1> DEFINE T == {n \in 0 .. N : n \notin P}
<1> SUFFICES ASSUME T # {} PROVE FALSE
  OBVIOUS
<1>1. T \subseteq Nat
  OBVIOUS
<1>2. PICK x \in T : \A y \in T : <<y, x>> \notin OpToRel(<, Nat)
  <2> HIDE DEF T
  <2> QED
    BY <1>1, NatLessThanWellFounded, WFMin
<1>3. x \in 0 .. N /\ x \notin P /\ x # 0
  OBVIOUS
<1>4. x - 1 \notin P /\ x - 1 \in 0 .. N
  BY <1>3
<1>5. x - 1 \in T /\ <<x - 1, x>> \in Nat \X Nat /\ x - 1 < x
  BY <1>3, <1>4
<1>6. <<x - 1, x>> \in OpToRel(<, Nat)
  BY <1>5 DEF OpToRel
<1> QED
  BY <1>2, <1>5, <1>6

(* The functions that step values of S along 1 .. N, and the runs of one.      *)
StepsOn(S, N) == [(1 .. N) \X S -> S]

IsRun(f, s, G, S, N) ==
  /\ f \in [0 .. N -> S]
  /\ f[0] = s
  /\ \A n \in 1 .. N : f[n] = G[<<n, f[n - 1]>>]

(* Every step function has a run from every value. *)
LEMMA RunsExist ==
  ASSUME NEW S, NEW s \in S, NEW N \in Nat, NEW G \in StepsOn(S, N)
  PROVE  \E f : IsRun(f, s, G, S, N)
<1> USE DEF StepsOn
<1> DEFINE P == {m \in 0 .. N : \E f : IsRun(f, s, G, S, m)}
<1>1. 0 \in P
  <2>1. IsRun([n \in 0 .. 0 |-> s], s, G, S, 0)
    BY DEF IsRun
  <2>2. \E f : IsRun(f, s, G, S, 0)
    BY <2>1
  <2> QED
    BY <2>2
<1>2. ASSUME NEW m \in 1 .. N, m - 1 \in P PROVE m \in P
  <2>1. PICK g : IsRun(g, s, G, S, m - 1)
    BY <1>2
  <2> DEFINE h == [n \in 0 .. m |-> IF n = m THEN G[<<m, g[m - 1]>>] ELSE g[n]]
  <2>2. g[m - 1] \in S /\ <<m, g[m - 1]>> \in (1 .. N) \X S
    BY <2>1 DEF IsRun
  <2>3. G[<<m, g[m - 1]>>] \in S
    BY <2>2
  <2>4. h \in [0 .. m -> S]
    <3> SUFFICES ASSUME NEW n \in 0 .. m PROVE h[n] \in S
      OBVIOUS
    <3>1. CASE n = m
      BY <3>1, <2>3
    <3>2. CASE n # m
      BY <3>2, <2>1 DEF IsRun
    <3> QED
      BY <3>1, <3>2
  <2>5. h[0] = s
    BY <2>1 DEF IsRun
  <2>6. ASSUME NEW n \in 1 .. m PROVE h[n] = G[<<n, h[n - 1]>>]
    <3>1. h[n - 1] = g[n - 1]
      OBVIOUS
    <3>2. CASE n = m
      BY <3>1, <3>2
    <3>3. CASE n # m
      <4>1. n \in 1 .. (m - 1) /\ h[n] = g[n]
        BY <3>3
      <4> QED
        BY <2>1, <3>1, <4>1 DEF IsRun
    <3> QED
      BY <3>2, <3>3
  <2>7. IsRun(h, s, G, S, m)
    BY <2>4, <2>5, <2>6 DEF IsRun
  <2>8. \E f : IsRun(f, s, G, S, m)
    BY <2>7
  <2> QED
    BY <2>8
<1>3. N \in P
  <2> HIDE DEF P
  <2> QED
    BY <1>1, <1>2, IntervalInduction
<1>4. PICK f : IsRun(f, s, G, S, N)
  BY <1>3
<1> QED
  BY <1>4

(* What holds of a run's first value and is kept by its steps holds of all. *)
LEMMA RunsStay ==
  ASSUME NEW N \in Nat, NEW S, NEW f, f[0] \in S, \A n \in 1 .. N : f[n - 1] \in S => f[n] \in S
  PROVE  \A n \in 0 .. N : f[n] \in S
<1> DEFINE P == {n \in 0 .. N : f[n] \in S}
<1>1. 0 \in P /\ \A n \in 1 .. N : n - 1 \in P => n \in P
  OBVIOUS
<1>2. \A n \in 0 .. N : n \in P
  <2> HIDE DEF P
  <2> QED
    BY <1>1, IntervalInduction
<1> QED
  BY <1>2

-------------------------------------------------------------------------------
(* The rails that are folded, and the values of the folds. *)
Rails == DOMAIN Hierarchy \cup {"ok"}
Tags == {of(cause) : cause \in DOMAIN Hierarchy}
Leaves == {<<tag>> : tag \in Tags}
Oks == Seq({"ok"})
Folds == [tag : {"ok", "error"}, values : Oks, fault : Seq(Tags)]

(* A conversion makes one leaf, and a leaf is one tag. *)
LEMMA Converted ==
  ASSUME NEW rail \in Rails, IsFault(rail)
  PROVE  _convert(rail) \in Leaves /\ Len(_convert(rail)) = 1
BY DEF Rails, IsFault, _convert, Leaves, Tags

LEMMA LeavesAreTagged ==
  ASSUME NEW leaf \in Leaves
  PROVE  leaf \in Seq(Tags) /\ Len(leaf) = 1 /\ leaf[1] \in Tags /\ leaf = <<leaf[1]>>
<1>1. PICK tag \in Tags : leaf = <<tag>>
  BY DEF Leaves
<1> QED
  BY <1>1

(* The values of a block, one rail at a time. *)
LEMMA ValuesUnfold ==
  ASSUME NEW block \in Seq(Rails)
  PROVE  \E v : /\ v[0] = <<>>
                /\ \A n \in 1 .. Len(block) : v[n - 1] \in Oks /\ v[n] \in Oks
                     /\ v[n] = valued(v[n - 1], block[n])
                /\ v[0] \in Oks
                /\ Values(block) = v[Len(block)]
<1> DEFINE N == Len(block)
           Step(n, acc) == valued(acc, block[n])
           G == [p \in (1 .. N) \X Oks |-> Step(p[1], p[2])]
           v == CHOOSE g : g = [n \in 0 .. N |-> IF n = 0 THEN <<>> ELSE Step(n, g[n - 1])]
<1>1. N \in Nat /\ <<>> \in Oks
  BY DEF Oks
<1>2. ASSUME NEW n \in 1 .. N, NEW acc \in Oks PROVE Step(n, acc) \in Oks
  <2>1. block[n] \in Rails
    OBVIOUS
  <2> QED
    BY <1>2, <2>1 DEF valued, Oks, IsFault, Rails
<1>3. G \in StepsOn(Oks, N)
  <2> HIDE DEF Step, N
  <2> QED
    BY <1>2 DEF StepsOn
<1>4. PICK g : IsRun(g, <<>>, G, Oks, N)
  <2> HIDE DEF G, N
  <2> QED
    BY <1>1, <1>3, RunsExist
<1>5. g = [n \in 0 .. N |-> IF n = 0 THEN <<>> ELSE Step(n, g[n - 1])]
  <2> HIDE DEF Step, N
  <2>1. ASSUME NEW n \in 1 .. N PROVE g[n] = Step(n, g[n - 1])
    <3>1. n - 1 \in 0 .. N /\ <<n, g[n - 1]>> \in (1 .. N) \X Oks
      BY <1>1, <1>4 DEF IsRun
    <3> QED
      BY <1>4, <3>1 DEF IsRun
  <2> QED
    BY <1>1, <1>4, <2>1 DEF IsRun
<1>6. Values(block) = v[N]
  BY DEF Values, folded
<1>7. v = [n \in 0 .. N |-> IF n = 0 THEN <<>> ELSE Step(n, v[n - 1])]
  <2> HIDE DEF Step, N
  <2> QED
    BY <1>5
<1>8. v[0] = <<>> /\ \A n \in 1 .. N : v[n] = Step(n, v[n - 1])
  <2> HIDE DEF Step, N, v
  <2> QED
    BY <1>1, <1>7
<1>9. \A n \in 0 .. N : v[n] \in Oks
  <2> HIDE DEF Step, N, v
  <2>1. \A n \in 1 .. N : v[n - 1] \in Oks => v[n] \in Oks
    BY <1>2, <1>8
  <2> QED
    BY <1>1, <1>8, <2>1, RunsStay
<1> HIDE DEF v
<1> QED
  BY <1>1, <1>6, <1>8, <1>9
(* The faults of a block, one rail at a time. *)
LEMMA FaultsUnfold ==
  ASSUME NEW block \in Seq(Rails)
  PROVE  \E v : /\ v[0] = <<>>
                /\ \A n \in 1 .. Len(block) : v[n - 1] \in Seq(Leaves) /\ v[n] \in Seq(Leaves)
                     /\ v[n] = faulted(v[n - 1], block[n])
                /\ v[0] \in Seq(Leaves)
                /\ Faults(block) = v[Len(block)]
<1> DEFINE N == Len(block)
           Step(n, acc) == faulted(acc, block[n])
           G == [p \in (1 .. N) \X Seq(Leaves) |-> Step(p[1], p[2])]
           v == CHOOSE g : g = [n \in 0 .. N |-> IF n = 0 THEN <<>> ELSE Step(n, g[n - 1])]
<1>1. N \in Nat /\ <<>> \in Seq(Leaves)
  OBVIOUS
<1>2. ASSUME NEW n \in 1 .. N, NEW acc \in Seq(Leaves) PROVE Step(n, acc) \in Seq(Leaves)
  <2>1. block[n] \in Rails
    OBVIOUS
  <2> QED
    BY <1>2, <2>1, Converted DEF faulted
<1>3. G \in StepsOn(Seq(Leaves), N)
  <2> HIDE DEF Step, N
  <2> QED
    BY <1>2 DEF StepsOn
<1>4. PICK g : IsRun(g, <<>>, G, Seq(Leaves), N)
  <2> HIDE DEF G, N
  <2> QED
    BY <1>1, <1>3, RunsExist
<1>5. g = [n \in 0 .. N |-> IF n = 0 THEN <<>> ELSE Step(n, g[n - 1])]
  <2> HIDE DEF Step, N
  <2>1. ASSUME NEW n \in 1 .. N PROVE g[n] = Step(n, g[n - 1])
    <3>1. n - 1 \in 0 .. N /\ <<n, g[n - 1]>> \in (1 .. N) \X Seq(Leaves)
      BY <1>1, <1>4 DEF IsRun
    <3> QED
      BY <1>4, <3>1 DEF IsRun
  <2> QED
    BY <1>1, <1>4, <2>1 DEF IsRun
<1>6. Faults(block) = v[N]
  BY DEF Faults, folded
<1>7. v = [n \in 0 .. N |-> IF n = 0 THEN <<>> ELSE Step(n, v[n - 1])]
  <2> HIDE DEF Step, N
  <2> QED
    BY <1>5
<1>8. v[0] = <<>> /\ \A n \in 1 .. N : v[n] = Step(n, v[n - 1])
  <2> HIDE DEF Step, N, v
  <2> QED
    BY <1>1, <1>7
<1>9. \A n \in 0 .. N : v[n] \in Seq(Leaves)
  <2> HIDE DEF Step, N, v
  <2>1. \A n \in 1 .. N : v[n - 1] \in Seq(Leaves) => v[n] \in Seq(Leaves)
    BY <1>2, <1>8
  <2> QED
    BY <1>1, <1>8, <2>1, RunsStay
<1> HIDE DEF v
<1> QED
  BY <1>1, <1>6, <1>8, <1>9
(* The rail that aborts, one rail at a time. *)
LEMMA AbortingUnfolds ==
  ASSUME NEW block \in Seq(Rails)
  PROVE  \E v : /\ v[0] = Ok(<<>>)
                /\ \A n \in 1 .. Len(block) : v[n - 1] \in Folds /\ v[n] \in Folds
                     /\ v[n] = bound(v[n - 1], block[n])
                /\ v[0] \in Folds
                /\ Aborting(block) = v[Len(block)]
<1> DEFINE N == Len(block)
           Step(n, acc) == bound(acc, block[n])
           G == [p \in (1 .. N) \X Folds |-> Step(p[1], p[2])]
           v == CHOOSE g : g = [n \in 0 .. N |-> IF n = 0 THEN Ok(<<>>) ELSE Step(n, g[n - 1])]
<1>1. N \in Nat /\ Ok(<<>>) \in Folds
  BY DEF Folds, Ok, Oks
<1>2. ASSUME NEW n \in 1 .. N, NEW acc \in Folds PROVE Step(n, acc) \in Folds
  <2>1. block[n] \in Rails
    OBVIOUS
  <2>2. acc.tag \in {"ok", "error"} /\ acc.values \in Oks /\ acc \in Folds
    BY <1>2 DEF Folds
  <2>3. CASE acc.tag = "error"
    BY <2>2, <2>3 DEF bound
  <2>4. CASE acc.tag # "error" /\ IsFault(block[n])
    <3>1. _convert(block[n]) \in Seq(Tags)
      BY <2>1, <2>4, Converted, LeavesAreTagged
    <3> QED
      BY <2>4, <3>1 DEF bound, Folds, Oks, Error
  <2>5. CASE acc.tag # "error" /\ ~IsFault(block[n])
    <3>1. Append(acc.values, block[n]) \in Oks
      BY <2>1, <2>2, <2>5 DEF Oks, IsFault
    <3> QED
      BY <2>5, <3>1 DEF bound, Folds, Ok
  <2> QED
    BY <2>2, <2>3, <2>4, <2>5
<1>3. G \in StepsOn(Folds, N)
  <2> HIDE DEF Step, N
  <2> QED
    BY <1>2 DEF StepsOn
<1>4. PICK g : IsRun(g, Ok(<<>>), G, Folds, N)
  <2> HIDE DEF G, N
  <2> QED
    BY <1>1, <1>3, RunsExist
<1>5. g = [n \in 0 .. N |-> IF n = 0 THEN Ok(<<>>) ELSE Step(n, g[n - 1])]
  <2> HIDE DEF Step, N
  <2>1. ASSUME NEW n \in 1 .. N PROVE g[n] = Step(n, g[n - 1])
    <3>1. n - 1 \in 0 .. N /\ <<n, g[n - 1]>> \in (1 .. N) \X Folds
      BY <1>1, <1>4 DEF IsRun
    <3> QED
      BY <1>4, <3>1 DEF IsRun
  <2> QED
    BY <1>1, <1>4, <2>1 DEF IsRun
<1>6. Aborting(block) = v[N]
  BY DEF Aborting, folded
<1>7. v = [n \in 0 .. N |-> IF n = 0 THEN Ok(<<>>) ELSE Step(n, v[n - 1])]
  <2> HIDE DEF Step, N
  <2> QED
    BY <1>5
<1>8. v[0] = Ok(<<>>) /\ \A n \in 1 .. N : v[n] = Step(n, v[n - 1])
  <2> HIDE DEF Step, N, v
  <2> QED
    BY <1>1, <1>7
<1>9. \A n \in 0 .. N : v[n] \in Folds
  <2> HIDE DEF Step, N, v
  <2>1. \A n \in 1 .. N : v[n - 1] \in Folds => v[n] \in Folds
    BY <1>2, <1>8
  <2> QED
    BY <1>1, <1>8, <2>1, RunsStay
<1> HIDE DEF v
<1> QED
  BY <1>1, <1>6, <1>8, <1>9
(* The combined fault, one member at a time. *)
LEMMA CombinedUnfolds ==
  ASSUME NEW first \in Leaves, NEW rest \in Seq(Leaves)
  PROVE  \E v : /\ v[0] = first
                /\ \A n \in 1 .. Len(rest) : v[n - 1] \in Seq(Tags) /\ v[n] \in Seq(Tags)
                     /\ v[n] = combine(v[n - 1], rest[n])
                /\ v[0] \in Seq(Tags)
                /\ folded(combine, first, rest) = v[Len(rest)]
<1> DEFINE N == Len(rest)
           Step(n, acc) == combine(acc, rest[n])
           G == [p \in (1 .. N) \X Seq(Tags) |-> Step(p[1], p[2])]
           v == CHOOSE g : g = [n \in 0 .. N |-> IF n = 0 THEN first ELSE Step(n, g[n - 1])]
<1>1. N \in Nat /\ first \in Seq(Tags)
  BY LeavesAreTagged
<1>2. ASSUME NEW n \in 1 .. N, NEW acc \in Seq(Tags) PROVE Step(n, acc) \in Seq(Tags)
  <2>1. rest[n] \in Seq(Tags)
    BY LeavesAreTagged
  <2> QED
    BY <1>2, <2>1 DEF combine
<1>3. G \in StepsOn(Seq(Tags), N)
  <2> HIDE DEF Step, N
  <2> QED
    BY <1>2 DEF StepsOn
<1>4. PICK g : IsRun(g, first, G, Seq(Tags), N)
  <2> HIDE DEF G, N
  <2> QED
    BY <1>1, <1>3, RunsExist
<1>5. g = [n \in 0 .. N |-> IF n = 0 THEN first ELSE Step(n, g[n - 1])]
  <2> HIDE DEF Step, N
  <2>1. ASSUME NEW n \in 1 .. N PROVE g[n] = Step(n, g[n - 1])
    <3>1. n - 1 \in 0 .. N /\ <<n, g[n - 1]>> \in (1 .. N) \X Seq(Tags)
      BY <1>1, <1>4 DEF IsRun
    <3> QED
      BY <1>4, <3>1 DEF IsRun
  <2> QED
    BY <1>1, <1>4, <2>1 DEF IsRun
<1>6. folded(combine, first, rest) = v[N]
  BY DEF folded
<1>7. v = [n \in 0 .. N |-> IF n = 0 THEN first ELSE Step(n, v[n - 1])]
  <2> HIDE DEF Step, N
  <2> QED
    BY <1>5
<1>8. v[0] = first /\ \A n \in 1 .. N : v[n] = Step(n, v[n - 1])
  <2> HIDE DEF Step, N, v
  <2> QED
    BY <1>1, <1>7
<1>9. \A n \in 0 .. N : v[n] \in Seq(Tags)
  <2> HIDE DEF Step, N, v
  <2>1. \A n \in 1 .. N : v[n - 1] \in Seq(Tags) => v[n] \in Seq(Tags)
    BY <1>2, <1>8
  <2> QED
    BY <1>1, <1>8, <2>1, RunsStay
<1> HIDE DEF v
<1> QED
  BY <1>1, <1>6, <1>8, <1>9

-------------------------------------------------------------------------------
(* The three folds after the same rails. *)
Agreed(acc, values, faults) ==
  \/ faults = <<>> /\ acc = Ok(values)
  \/ faults # <<>> /\ acc = Error(Head(faults))

(* The fold that aborts ends where the values and the first fault say. *)
LEMMA FoldsAgree ==
  ASSUME NEW block \in Seq(Rails)
  PROVE  /\ Agreed(Aborting(block), Values(block), Faults(block))
         /\ Faults(block) \in Seq(Leaves)
<1> DEFINE N == Len(block)
<1>1. PICK v : /\ v[0] = <<>> /\ v[0] \in Oks
               /\ \A n \in 1 .. N : v[n - 1] \in Oks /\ v[n] \in Oks
                                    /\ v[n] = valued(v[n - 1], block[n])
               /\ Values(block) = v[N]
  BY ValuesUnfold
<1>2. PICK f : /\ f[0] = <<>> /\ f[0] \in Seq(Leaves)
               /\ \A n \in 1 .. N : f[n - 1] \in Seq(Leaves) /\ f[n] \in Seq(Leaves)
                                    /\ f[n] = faulted(f[n - 1], block[n])
               /\ Faults(block) = f[N]
  BY FaultsUnfold
<1>3. PICK a : /\ a[0] = Ok(<<>>)
               /\ \A n \in 1 .. N : a[n] = bound(a[n - 1], block[n])
               /\ Aborting(block) = a[N]
  BY AbortingUnfolds
<1> DEFINE P == {n \in 0 .. N : Agreed(a[n], v[n], f[n])}
<1>4. 0 \in P /\ N \in Nat
  BY <1>1, <1>2, <1>3 DEF Agreed
<1>5. ASSUME NEW n \in 1 .. N, n - 1 \in P PROVE n \in P
  <2>1. block[n] \in Rails /\ f[n - 1] \in Seq(Leaves)
    BY <1>2
  <2>2. Agreed(a[n - 1], v[n - 1], f[n - 1])
    BY <1>5
  <2>3. a[n] = bound(a[n - 1], block[n]) /\ v[n] = valued(v[n - 1], block[n])
        /\ f[n] = faulted(f[n - 1], block[n])
    BY <1>1, <1>2, <1>3
  <2>4. CASE IsFault(block[n]) /\ f[n - 1] = <<>>
    <3>1. f[n] = <<_convert(block[n])>> /\ f[n] # <<>> /\ Head(f[n]) = _convert(block[n])
      BY <2>3, <2>4 DEF faulted
    <3>2. a[n] = Error(_convert(block[n]))
      BY <2>2, <2>3, <2>4 DEF Agreed, bound, Ok
    <3> QED
      BY <3>1, <3>2 DEF Agreed
  <2>5. CASE IsFault(block[n]) /\ f[n - 1] # <<>>
    <3>1. _convert(block[n]) \in Leaves
      BY <2>1, <2>5, Converted
    <3>2. f[n] # <<>> /\ Head(f[n]) = Head(f[n - 1])
      BY <2>1, <2>3, <2>5, <3>1 DEF faulted
    <3>3. a[n] = a[n - 1]
      BY <2>2, <2>3, <2>5 DEF Agreed, bound, Error
    <3> QED
      BY <2>2, <2>5, <3>2, <3>3 DEF Agreed
  <2>6. CASE ~IsFault(block[n])
    <3>1. f[n] = f[n - 1] /\ v[n] = Append(v[n - 1], block[n])
      BY <2>3, <2>6 DEF faulted, valued
    <3>2. CASE f[n - 1] = <<>>
      <4>1. a[n - 1] = Ok(v[n - 1])
        BY <2>2, <3>2 DEF Agreed
      <4>2. a[n - 1].tag = "ok" /\ a[n - 1].values = v[n - 1]
        BY <4>1 DEF Ok
      <4>3. a[n] = Ok(v[n])
        BY <2>3, <2>6, <3>1, <4>2 DEF bound
      <4>4. f[n] = <<>>
        BY <3>1, <3>2
      <4>5. Agreed(a[n], v[n], f[n])
        BY <4>3, <4>4 DEF Agreed
      <4> QED
        BY <4>5
    <3>3. CASE f[n - 1] # <<>>
      <4>1. a[n] = a[n - 1]
        BY <2>2, <2>3, <3>3 DEF Agreed, bound, Error
      <4> QED
        BY <2>2, <3>1, <3>3, <4>1 DEF Agreed
    <3> QED
      BY <3>2, <3>3
  <2> QED
    BY <2>4, <2>5, <2>6
<1>6. \A n \in 0 .. N : n \in P
  <2> HIDE DEF P
  <2> QED
    BY <1>4, <1>5, IntervalInduction
<1>7. Faults(block) \in Seq(Leaves)
  BY <1>2, <1>4
<1> QED
  BY <1>1, <1>2, <1>3, <1>4, <1>6, <1>7

(* Combined faults are the tags of the members, in order. *)
LEMMA CombinedNamesAll ==
  ASSUME NEW faults \in Seq(Leaves), faults # <<>>
  PROVE  folded(combine, Head(faults), Tail(faults)) = [i \in DOMAIN faults |-> faults[i][1]]
<1> DEFINE rest == Tail(faults)
           M == Len(rest)
           Tagged(n) == [i \in 1 .. n + 1 |-> faults[i][1]]
<1>1. /\ rest \in Seq(Leaves) /\ M \in Nat /\ Len(faults) = M + 1
      /\ \A n \in 1 .. M : rest[n] = faults[n + 1]
      /\ \A n \in 1 .. M + 1 : faults[n] \in Leaves
      /\ Head(faults) = faults[1]
  OBVIOUS
<1>2. PICK c : /\ c[0] = Head(faults)
               /\ \A n \in 1 .. M : c[n - 1] \in Seq(Tags) /\ c[n] \in Seq(Tags)
                                    /\ c[n] = combine(c[n - 1], rest[n])
               /\ c[0] \in Seq(Tags)
               /\ folded(combine, Head(faults), rest) = c[M]
  <2>1. Head(faults) \in Leaves
    BY <1>1
  <2> HIDE DEF rest
  <2> QED
    BY <1>1, <2>1, CombinedUnfolds
<1> DEFINE P == {n \in 0 .. M : c[n] = Tagged(n)}
<1>3. 0 \in P
  <2>1. faults[1] = <<faults[1][1]>>
    BY <1>1, LeavesAreTagged
  <2>2. Tagged(0) = <<faults[1][1]>>
    OBVIOUS
  <2> QED
    BY <1>1, <1>2, <2>1, <2>2
<1>4. ASSUME NEW n \in 1 .. M, n - 1 \in P PROVE n \in P
  <2>1. c[n - 1] = [i \in 1 .. n |-> faults[i][1]] /\ c[n - 1] \in Seq(Tags)
    <3>1. c[n - 1] = Tagged(n - 1) /\ (n - 1) + 1 = n
      BY <1>4
    <3> QED
      BY <1>2, <3>1
  <2>2. rest[n] = <<faults[n + 1][1]>> /\ faults[n + 1][1] \in Tags
    BY <1>1, LeavesAreTagged
  <2>3. c[n] = c[n - 1] \o <<faults[n + 1][1]>>
    BY <1>2, <2>2 DEF combine
  <2>4. Len(c[n - 1]) = n
    BY <2>1
  <2>5. c[n] \in Seq(Tags) /\ Len(c[n]) = n + 1
        /\ \A i \in 1 .. n + 1 : c[n][i] = faults[i][1]
    BY <2>1, <2>2, <2>3, <2>4
  <2>6. c[n] = [i \in 1 .. n + 1 |-> c[n][i]]
    BY <2>5
  <2> QED
    BY <2>5, <2>6
<1>5. \A n \in 0 .. M : n \in P
  <2> HIDE DEF P, M
  <2> QED
    BY <1>1, <1>3, <1>4, IntervalInduction
<1>6. c[M] = Tagged(M)
  BY <1>1, <1>5
<1> QED
  BY <1>1, <1>2, <1>6

(* The dispositions agree on any block. *)
LEMMA BlocksAgree ==
  ASSUME rails \in Seq(Rails)
  PROVE  DispositionsAgree
<1> DEFINE faults == Faults(rails)
           aborted == Aborting(rails)
           accumulated == Accumulating(rails)
<1>1. Agreed(aborted, Values(rails), faults) /\ faults \in Seq(Leaves)
  BY FoldsAgree
<1>2. /\ aborted.tag = accumulated.tag
      /\ aborted.tag = "ok" <=> faults = <<>>
      /\ aborted.tag = "ok" => aborted = accumulated
      /\ aborted.tag = "error" => aborted.fault = Head(faults)
  <2>1. CASE faults = <<>>
    <3>1. aborted = Ok(Values(rails)) /\ accumulated = Ok(Values(rails))
      BY <1>1, <2>1 DEF Agreed, Accumulating
    <3> QED
      BY <2>1, <3>1 DEF Ok
  <2>2. CASE faults # <<>>
    <3>1. aborted = Error(Head(faults))
      BY <1>1, <2>2 DEF Agreed
    <3>2. accumulated = Error(folded(combine, Head(faults), Tail(faults)))
      BY <2>2 DEF Accumulating
    <3> QED
      BY <2>2, <3>1, <3>2 DEF Error
  <2> QED
    BY <2>1, <2>2
<1>3. accumulated.fault = [i \in DOMAIN faults |-> faults[i][1]]
  <2>1. CASE faults = <<>>
    <3>1. accumulated.fault = <<>>
      BY <2>1 DEF Accumulating, Ok
    <3>2. <<>> = [i \in DOMAIN faults |-> faults[i][1]]
      BY <2>1
    <3> QED
      BY <3>1, <3>2
  <2>2. CASE faults # <<>>
    <3>1. accumulated.fault = folded(combine, Head(faults), Tail(faults))
      BY <2>2 DEF Accumulating, Error
    <3> QED
      BY <1>1, <2>2, <3>1, CombinedNamesAll
  <2> QED
    BY <2>1, <2>2
<1>4. ASSUME NEW codes
      PROVE  recoverable(accumulated.fault, codes)
               <=> \E i \in DOMAIN faults : recoverable(faults[i], codes)
  <2>1. ASSUME NEW i \in DOMAIN faults
        PROVE  recoverable(faults[i], codes) <=> faults[i][1] \in codes
    <3>1. faults[i] \in Leaves
      BY <1>1
    <3>2. DOMAIN faults[i] = {1}
      BY <3>1, LeavesAreTagged
    <3> QED
      BY <3>2 DEF recoverable
  <2> HIDE DEF faults, accumulated
  <2> QED
    BY <1>3, <2>1 DEF recoverable
<1> HIDE DEF faults, aborted, accumulated
<1>5. \A cls \in RetryClass : recoverable(accumulated.fault, RAIL_RETRY_TAGS[cls])
         <=> \E i \in DOMAIN faults : recoverable(faults[i], RAIL_RETRY_TAGS[cls])
  BY <1>4
<1> QED
  BY <1>2, <1>3, <1>5 DEF DispositionsAgree, faults, aborted, accumulated

-------------------------------------------------------------------------------
(* The first row that matches decides the tag. *)
LEMMA FirstRowDecides ==
  ASSUME NEW cause, NEW i \in DOMAIN CLASSIFY, IsInstance(cause, CLASSIFY[i][1]),
         \A j \in DOMAIN CLASSIFY : j < i => ~IsInstance(cause, CLASSIFY[j][1])
  PROVE  of(cause) = CLASSIFY[i][2]
<1> DEFINE rows == {k \in DOMAIN CLASSIFY : IsInstance(cause, CLASSIFY[k][1])}
<1>0. DOMAIN CLASSIFY \subseteq Int
  BY DEF CLASSIFY
<1> HIDE DEF rows
<1>1. i \in rows /\ rows \subseteq Int /\ \A j \in rows : i <= j
  BY <1>0 DEF rows
<1>2. i = CHOOSE k \in rows : \A j \in rows : k <= j
  BY <1>1
<1> QED
  BY <1>2 DEF of, rows

(* The ssh exceptions: what they are instances of, and which row takes them. *)
LEMMA SshCauses ==
  ASSUME NEW cause \in DOMAIN Hierarchy
  PROVE  /\ IsInstance(cause, SSH_TERMINAL) => cause \in {"PermissionDenied", "ProtocolError"}
         /\ IsInstance(cause, SSH_TRANSIENT) =>
              cause \in {"PermissionDenied", "ProtocolError", "ConnectionLost",
                         "ChannelOpenError", "DisconnectError"}
BY DEF Hierarchy, IsInstance, SSH_TERMINAL, SSH_TRANSIENT, _SSH_DENIED, _SSH_PROTOCOL

(* The tags of the ssh exceptions. *)
LEMMA SshTags ==
  /\ of("PermissionDenied") = "api"
  /\ of("ProtocolError") = "boundary"
  /\ of("ConnectionLost") = "resource"
  /\ of("ChannelOpenError") = "resource"
  /\ of("DisconnectError") = "resource"
<1>1. DOMAIN CLASSIFY = 1 .. 12
  BY DEF CLASSIFY
<1>2. /\ CLASSIFY[1][1] = {"TimeoutError"}
      /\ CLASSIFY[2][1] = {"BrokenResourceError", "ConnectionFailed"}
      /\ CLASSIFY[3][1] = {"DecodeError"}
      /\ CLASSIFY[4][1] = {"HintViolation"}
      /\ CLASSIFY[5][1] = {"ImportError"}
      /\ CLASSIFY[6][1] = {"HTTPStatusError"}
      /\ CLASSIFY[7][1] = {"ProcessError", "SFTPError"}
      /\ CLASSIFY[8] = <<{"PermissionDenied"}, "api">>
      /\ CLASSIFY[9] = <<{"ProtocolError"}, "boundary">>
      /\ CLASSIFY[10] = <<{"ConnectionLost", "DisconnectError", "ChannelOpenError"}, "resource">>
  BY DEF CLASSIFY, _WORKER_EXC, _SSH_DENIED, _SSH_PROTOCOL, SSH_TRANSIENT
<1>3. /\ Hierarchy["PermissionDenied"] = {"PermissionDenied", "DisconnectError", "asyncssh.Error", "Exception"}
      /\ Hierarchy["ProtocolError"] = {"ProtocolError", "DisconnectError", "asyncssh.Error", "Exception"}
      /\ Hierarchy["ConnectionLost"] = {"ConnectionLost", "DisconnectError", "asyncssh.Error", "Exception"}
      /\ Hierarchy["ChannelOpenError"] = {"ChannelOpenError", "asyncssh.Error", "Exception"}
      /\ Hierarchy["DisconnectError"] = {"DisconnectError", "asyncssh.Error", "Exception"}
  BY DEF Hierarchy
<1>4. of("PermissionDenied") = "api"
  <2>1. \A j \in DOMAIN CLASSIFY : j < 8 => ~IsInstance("PermissionDenied", CLASSIFY[j][1])
    BY <1>1, <1>2, <1>3 DEF IsInstance
  <2>2. IsInstance("PermissionDenied", CLASSIFY[8][1]) /\ 8 \in DOMAIN CLASSIFY
    BY <1>1, <1>2, <1>3 DEF IsInstance
  <2>3. of("PermissionDenied") = CLASSIFY[8][2]
    BY <2>1, <2>2, FirstRowDecides
  <2> QED
    BY <1>2, <2>3
<1>5. of("ProtocolError") = "boundary"
  <2>1. \A j \in DOMAIN CLASSIFY : j < 9 => ~IsInstance("ProtocolError", CLASSIFY[j][1])
    BY <1>1, <1>2, <1>3 DEF IsInstance
  <2>2. IsInstance("ProtocolError", CLASSIFY[9][1]) /\ 9 \in DOMAIN CLASSIFY
    BY <1>1, <1>2, <1>3 DEF IsInstance
  <2>3. of("ProtocolError") = CLASSIFY[9][2]
    BY <2>1, <2>2, FirstRowDecides
  <2> QED
    BY <1>2, <2>3
<1>6. of("ConnectionLost") = "resource"
  <2>1. \A j \in DOMAIN CLASSIFY : j < 10 => ~IsInstance("ConnectionLost", CLASSIFY[j][1])
    BY <1>1, <1>2, <1>3 DEF IsInstance
  <2>2. IsInstance("ConnectionLost", CLASSIFY[10][1]) /\ 10 \in DOMAIN CLASSIFY
    BY <1>1, <1>2, <1>3 DEF IsInstance
  <2>3. of("ConnectionLost") = CLASSIFY[10][2]
    BY <2>1, <2>2, FirstRowDecides
  <2> QED
    BY <1>2, <2>3
<1>7. of("ChannelOpenError") = "resource"
  <2>1. \A j \in DOMAIN CLASSIFY : j < 10 => ~IsInstance("ChannelOpenError", CLASSIFY[j][1])
    BY <1>1, <1>2, <1>3 DEF IsInstance
  <2>2. IsInstance("ChannelOpenError", CLASSIFY[10][1]) /\ 10 \in DOMAIN CLASSIFY
    BY <1>1, <1>2, <1>3 DEF IsInstance
  <2>3. of("ChannelOpenError") = CLASSIFY[10][2]
    BY <2>1, <2>2, FirstRowDecides
  <2> QED
    BY <1>2, <2>3
<1>8. of("DisconnectError") = "resource"
  <2>1. \A j \in DOMAIN CLASSIFY : j < 10 => ~IsInstance("DisconnectError", CLASSIFY[j][1])
    BY <1>1, <1>2, <1>3 DEF IsInstance
  <2>2. IsInstance("DisconnectError", CLASSIFY[10][1]) /\ 10 \in DOMAIN CLASSIFY
    BY <1>1, <1>2, <1>3 DEF IsInstance
  <2>3. of("DisconnectError") = CLASSIFY[10][2]
    BY <2>1, <2>2, FirstRowDecides
  <2> QED
    BY <1>2, <2>3
<1> QED
  BY <1>4, <1>5, <1>6, <1>7, <1>8

(* One partition holds for what is connected again and what a lane repeats. *)
LEMMA SshIsPartitioned ==
  ASSUME rails \in Seq(Rails)
  PROVE  SshPartition
<1> SUFFICES ASSUME NEW i \in DOMAIN rails, rails[i] # "ok"
             PROVE  LET cause == rails[i]
                        Repeated == Target("http", cause)
                        Replayed == recoverable(_convert(cause), RAIL_RETRY_TAGS["http"])
                    IN /\ IsInstance(cause, SSH_TERMINAL) => ~Repeated /\ ~Replayed
                       /\ IsInstance(cause, SSH_TRANSIENT) /\ ~IsInstance(cause, SSH_TERMINAL)
                            => Repeated /\ Replayed
  BY DEF SshPartition
<1> DEFINE cause == rails[i]
           Repeated == Target("http", cause)
           Replayed == recoverable(_convert(cause), RAIL_RETRY_TAGS["http"])
<1>1. cause \in DOMAIN Hierarchy
  BY DEF Rails
<1>2. Replayed <=> of(cause) \in {"resource", "deadline", "wire"}
  BY DEF recoverable, _convert, RAIL_RETRY_TAGS
<1>3. Repeated <=> /\ ~IsInstance(cause, SSH_TERMINAL)
                   /\ IsInstance(cause, SSH_TRANSIENT \cup
                        {"ConnectError", "RemoteProtocolError", "OSError"})
  BY DEF Target
<1>4. IsInstance(cause, SSH_TRANSIENT) =>
        IsInstance(cause, SSH_TRANSIENT \cup {"ConnectError", "RemoteProtocolError", "OSError"})
  BY DEF IsInstance
<1>5. IsInstance(cause, SSH_TERMINAL) => ~Replayed
  BY <1>1, <1>2, SshCauses, SshTags
<1>6. IsInstance(cause, SSH_TRANSIENT) /\ ~IsInstance(cause, SSH_TERMINAL) => Replayed
  <2>1. IsInstance("PermissionDenied", SSH_TERMINAL) /\ IsInstance("ProtocolError", SSH_TERMINAL)
    BY DEF IsInstance, Hierarchy, SSH_TERMINAL, _SSH_DENIED, _SSH_PROTOCOL
  <2> QED
    BY <1>1, <1>2, <2>1, SshCauses, SshTags
<1> QED
  BY <1>3, <1>4, <1>5, <1>6

-------------------------------------------------------------------------------
(* Only exceptions that occur settle. *)
LEMMA RailsAreTyped == AlgebraSpec => [](rails \in Seq(Rails))
<1>1. AlgebraInit => rails \in Seq(Rails)
  BY DEF AlgebraInit
<1>2. rails \in Seq(Rails) /\ [AlgebraNext]_rails => (rails \in Seq(Rails))'
  BY BlocksAssumption DEF AlgebraNext, Settle, Rails
<1> QED
  BY <1>1, <1>2, PTL DEF AlgebraSpec

(* A transient ssh fault is repeated by the connect and by a lane, a terminal *)
(* one by neither, in every block (runtime.py 124-134, 203-216, 427-437).  *)
THEOREM SshFaultsArePartitioned == AlgebraSpec => []SshPartition
BY RailsAreTyped, SshIsPartitioned, PTL

(* Aborting and accumulating a block agree on success, on the values and on *)
(* the first fault, and an aggregate is as recoverable as its members       *)
(* (runtime.py 72-92, 182-197).                                             *)
THEOREM DispositionsAlwaysAgree == AlgebraSpec => []DispositionsAgree
BY RailsAreTyped, BlocksAgree, PTL
===============================================================================
