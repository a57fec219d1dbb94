------------------------ MODULE OptionsSessionProofs ------------------------
(***************************************************************************)
(* What a halt, a closing and the risk gate of the options process guarantee, *)
(* for every set of tickers and threads, every risk of a spread and every     *)
(* bound.                                                                     *)
(***************************************************************************)
EXTENDS OptionsSession, FiniteSetTheorems, FunctionTheorems, WellFoundedInduction, TLAPS

(* Sums over a finite set *)

\* What f gives to the elements of S, laid out as pairs.
Pairs(f, S) == {p \in S \X Nat : 1 <= p[2] /\ p[2] <= f[p[1]]}
Total(f, S) == Cardinality(Pairs(f, S))
Gives(f, S) == \A x \in S : f[x] \in Nat

\* One element has as many pairs as f gives it.
LEMMA OneColumn ==
    ASSUME NEW f, NEW x, f[x] \in Nat
    PROVE  /\ IsFiniteSet(Pairs(f, {x})) /\ Total(f, {x}) = f[x]
<1> DEFINE n == f[x]
           g == [k \in 1 .. n |-> <<x, k>>]
<1>1. g \in Bijection(1 .. n, Pairs(f, {x}))
  <2>1. \A k \in 1 .. n : <<x, k>> \in Pairs(f, {x})
    BY DEF Pairs
  <2>2. \A p \in Pairs(f, {x}) : p[2] \in 1 .. n /\ p = <<x, p[2]>>
    BY DEF Pairs
  <2>3. g \in [1 .. n -> Pairs(f, {x})]
    BY <2>1
  <2>4. \A a, b \in 1 .. n : g[a] = g[b] => a = b
    OBVIOUS
  <2>5. \A p \in Pairs(f, {x}) : \E k \in 1 .. n : g[k] = p
    BY <2>2
  <2> HIDE DEF g, n
  <2>6. g \in Injection(1 .. n, Pairs(f, {x}))
    BY <2>3, <2>4 DEF Injection, IsInjective
  <2>7. g \in Surjection(1 .. n, Pairs(f, {x}))
    BY <2>3, <2>5 DEF Surjection
  <2> QED BY <2>6, <2>7 DEF Bijection
<1> HIDE DEF g, n
<1>2. IsFiniteSet(1 .. n) /\ Cardinality(1 .. n) = n
  <2>1. n \in Nat
    BY DEF n
  <2> QED BY <2>1, FS_Interval
<1>3. IsFiniteSet(Pairs(f, {x})) /\ Cardinality(Pairs(f, {x})) = Cardinality(1 .. n)
  BY <1>1, <1>2, FS_Bijection DEF ExistsBijection
<1> QED BY <1>2, <1>3 DEF Total, n

\* Finitely many elements have finitely many pairs: a total is a number.
LEMMA PairsFinite ==
    ASSUME NEW S, IsFiniteSet(S), NEW f, Gives(f, S)
    PROVE  IsFiniteSet(Pairs(f, S)) /\ Total(f, S) \in Nat
<1> DEFINE g == [x \in S |-> Pairs(f, {x})]
           R == {g[x] : x \in S}
<1>1. g \in Surjection(S, R)
  BY DEF Surjection
<1>2. IsFiniteSet(R)
  BY <1>1, FS_Surjection
<1>3. \A T \in R : IsFiniteSet(T)
  BY OneColumn DEF Gives
<1>4. IsFiniteSet(UNION R)
  BY <1>2, <1>3, FS_UNION
<1>5. Pairs(f, S) \subseteq UNION R
  BY DEF Pairs
<1> QED BY <1>4, <1>5, FS_Subset, FS_CardinalityType DEF Total

\* Nothing adds up to zero.
LEMMA TotalOfNone == ASSUME NEW f PROVE Total(f, {}) = 0
<1>1. Pairs(f, {}) = {}
  BY DEF Pairs
<1> QED BY <1>1, FS_EmptySet DEF Total

\* The total of two parts is the sum of theirs.
LEMMA TotalOfParts ==
    ASSUME NEW A, NEW B, IsFiniteSet(A), IsFiniteSet(B), A \cap B = {},
           NEW f, Gives(f, A), Gives(f, B)
    PROVE  Total(f, A \cup B) = Total(f, A) + Total(f, B)
<1>1. /\ Pairs(f, A \cup B) = Pairs(f, A) \cup Pairs(f, B)
      /\ Pairs(f, A) \cap Pairs(f, B) = {}
  <2>1. \A p : p \in Pairs(f, A \cup B) <=> p \in Pairs(f, A) \/ p \in Pairs(f, B)
    BY DEF Pairs
  <2>2. \A p : ~(p \in Pairs(f, A) /\ p \in Pairs(f, B))
    BY DEF Pairs
  <2> QED BY <2>1, <2>2
<1>2. /\ IsFiniteSet(Pairs(f, A)) /\ IsFiniteSet(Pairs(f, B))
      /\ Total(f, A) \in Nat /\ Total(f, B) \in Nat
  BY PairsFinite
<1> DEFINE P == Pairs(f, A)
           Q == Pairs(f, B)
<1> HIDE DEF P, Q
<1>3. IsFiniteSet(P) /\ IsFiniteSet(Q) /\ Cardinality(P) \in Nat /\ Cardinality(Q) \in Nat /\ P \cap Q = {}
  BY <1>1, <1>2 DEF P, Q, Total
<1>4. Cardinality(P \cup Q) = Cardinality(P) + Cardinality(Q) - Cardinality({})
  BY <1>3, FS_Union
<1>5. Cardinality(P \cup Q) = Cardinality(P) + Cardinality(Q)
  BY <1>3, <1>4, FS_EmptySet
<1> QED BY <1>1, <1>5 DEF Total, P, Q

\* Whoever gives more to everyone has the greater total.
LEMMA TotalGrows ==
    ASSUME NEW S, IsFiniteSet(S), NEW f, NEW g, Gives(f, S), Gives(g, S),
           \A x \in S : f[x] <= g[x]
    PROVE  Total(f, S) <= Total(g, S)
<1>1. Pairs(f, S) \subseteq Pairs(g, S)
  <2> SUFFICES ASSUME NEW p \in Pairs(f, S) PROVE p \in Pairs(g, S)
    OBVIOUS
  <2>1. p \in S \X Nat /\ 1 <= p[2] /\ p[2] <= f[p[1]] /\ p[1] \in S /\ p[2] \in Nat
    BY DEF Pairs
  <2>2. f[p[1]] \in Nat /\ g[p[1]] \in Nat /\ f[p[1]] <= g[p[1]]
    BY <2>1 DEF Gives
  <2>3. p[2] <= g[p[1]]
    BY <2>1, <2>2
  <2> QED BY <2>1, <2>3 DEF Pairs
<1> QED BY <1>1, PairsFinite, FS_Subset DEF Total

\* What a fold that takes the elements of S one by one computes.
Pick(s) == CHOOSE x \in s : TRUE
Unfolds(g, f, S) ==
    \A s \in SUBSET S : g[s] = IF s = {} THEN 0 ELSE f[Pick(s)] + g[s \ {Pick(s)}]

\* The totals of the subsets are such a fold.
LEMMA TotalUnfolds ==
    ASSUME NEW S, IsFiniteSet(S), NEW f, Gives(f, S)
    PROVE  Unfolds([s \in SUBSET S |-> Total(f, s)], f, S)
<1> DEFINE g == [s \in SUBSET S |-> Total(f, s)]
<1>1. ASSUME NEW s \in SUBSET S PROVE g[s] = Total(f, s)
  OBVIOUS
<1> HIDE DEF g
<1>2. ASSUME NEW s \in SUBSET S, s # {} PROVE g[s] = f[Pick(s)] + g[s \ {Pick(s)}]
  <2> DEFINE x == Pick(s)
  <2>1. x \in s /\ x \in S
    BY <1>2 DEF Pick
  <2> HIDE DEF x
  <2>2. IsFiniteSet(s \ {x}) /\ IsFiniteSet({x}) /\ Gives(f, s \ {x}) /\ Gives(f, {x}) /\ f[x] \in Nat
    BY <2>1, FS_Subset, FS_Singleton DEF Gives
  <2>3. Total(f, (s \ {x}) \cup {x}) = Total(f, s \ {x}) + Total(f, {x})
    BY <2>2, TotalOfParts
  <2>4. (s \ {x}) \cup {x} = s /\ s \ {x} \in SUBSET S
    BY <2>1
  <2>5. Total(f, {x}) = f[x] /\ Total(f, s \ {x}) \in Nat
    BY <2>2, OneColumn, PairsFinite
  <2>6. g[s] = Total(f, s) /\ g[s \ {x}] = Total(f, s \ {x})
    BY <1>1, <2>4
  <2>7. Total(f, s) = Total(f, s \ {x}) + f[x]
    BY <2>3, <2>4, <2>5
  <2>8. Total(f, s) = f[x] + Total(f, s \ {x})
    BY <2>2, <2>5, <2>7
  <2>9. g[s] = f[x] + g[s \ {x}]
    BY <2>6, <2>8
  <2> QED BY <2>9 DEF x
<1>3. g[{}] = 0
  BY <1>1, TotalOfNone
<1>4. Unfolds(g, f, S)
  BY <1>2, <1>3 DEF Unfolds
<1> QED BY <1>4 DEF g

\* And they are the only one: where another differs, a smallest subset on which it
\* does has a smaller one on which it does not.
LEMMA OnlyTotalUnfolds ==
    ASSUME NEW S, IsFiniteSet(S), NEW f, Gives(f, S), NEW g, Unfolds(g, f, S)
    PROVE  g[S] = Total(f, S)
<1> DEFINE h == [s \in SUBSET S |-> Total(f, s)]
           D == {s \in SUBSET S : g[s] # h[s]}
<1>1. Unfolds(h, f, S)
  BY TotalUnfolds
<1>2. D = {}
  <2> SUFFICES ASSUME D # {} PROVE FALSE
    OBVIOUS
  <2>1. IsWellFoundedOn(StrictSubsetOrdering(S), FiniteSubsetsOf(S)) /\ FiniteSubsetsOf(S) = SUBSET S
    BY FS_StrictSubsetOrderingWellFounded, FS_FiniteSubsetsOfFinite
  <2>2. D \subseteq SUBSET S
    OBVIOUS
  <2> HIDE DEF D
  <2>3. PICK s \in D : \A r \in D : ~(<<r, s>> \in StrictSubsetOrdering(S))
    BY <2>1, <2>2, WFMin
  <2> USE DEF D
  <2>4. s \in SUBSET S /\ g[s] # h[s]
    BY <2>3
  <2> HIDE DEF h
  <2> DEFINE x == Pick(s)
             r == s \ {x}
  <2>5. s # {} 
    BY <1>1, <2>4 DEF Unfolds
  <2>6. x \in s
    BY <2>5 DEF Pick
  <2>7. r \in SUBSET S /\ r \subseteq s /\ r # s
    BY <2>4, <2>6
  <2>8. <<r, s>> \in StrictSubsetOrdering(S)
    BY <2>4, <2>7 DEF StrictSubsetOrdering
  <2>9. g[r] = h[r]
    BY <2>3, <2>7, <2>8
  <2>10. g[s] = f[x] + g[r] /\ h[s] = f[x] + h[r]
    BY <1>1, <2>4, <2>5 DEF Unfolds
  <2> QED BY <2>4, <2>9, <2>10
<1>3. g[S] = h[S]
  BY <1>2
<1> QED BY <1>3

\* SumOf, which takes the elements in the order of CHOOSE, computes the total.
LEMMA SumIsTotal ==
    ASSUME NEW S, IsFiniteSet(S), NEW f, Gives(f, S)
    PROVE  SumOf(f, S) = Total(f, S)
<1> DEFINE R(g) == g = [s \in SUBSET S |-> IF s = {} THEN 0
                          ELSE f[CHOOSE x \in s : TRUE] + g[s \ {CHOOSE x \in s : TRUE}]]
           it == CHOOSE g : R(g)
<1>1. SumOf(f, S) = it[S]
  BY DEF SumOf, MapThenSumSet, MapThenFoldSet
<1>2. \E g : R(g)
  <2> DEFINE g == [s \in SUBSET S |-> Total(f, s)]
  <2>1. Unfolds(g, f, S)
    BY TotalUnfolds
  <2>2. g = [s \in SUBSET S |-> g[s]]
    OBVIOUS
  <2> HIDE DEF g
  <2>3. R(g)
    BY <2>1, <2>2 DEF Unfolds, Pick
  <2> QED BY <2>3
<1>3. R(it)
  BY <1>2
<1> HIDE DEF it
<1>4. Unfolds(it, f, S)
  BY <1>3 DEF Unfolds, Pick
<1> QED BY <1>1, <1>4, OnlyTotalUnfolds

\* Giving one element something else changes the total by the difference.
LEMMA TotalExcept ==
    ASSUME NEW S, IsFiniteSet(S), NEW f, NEW g, Gives(f, S), Gives(g, S),
           NEW x \in S, \A u \in S \ {x} : g[u] = f[u]
    PROVE  Total(g, S) = Total(f, S) - f[x] + g[x]
<1> DEFINE R == S \ {x}
<1>1. /\ IsFiniteSet(R) /\ IsFiniteSet({x}) /\ R \cap {x} = {} /\ R \cup {x} = S
      /\ Gives(f, R) /\ Gives(g, R) /\ Gives(f, {x}) /\ Gives(g, {x})
  BY FS_Subset, FS_Singleton DEF Gives
<1>2. Total(f, S) = Total(f, R) + Total(f, {x}) /\ Total(g, S) = Total(g, R) + Total(g, {x})
  <2> HIDE DEF R
  <2>1. Total(f, R \cup {x}) = Total(f, R) + Total(f, {x})
    BY <1>1, TotalOfParts
  <2>2. Total(g, R \cup {x}) = Total(g, R) + Total(g, {x})
    BY <1>1, TotalOfParts
  <2> QED BY <1>1, <2>1, <2>2
<1>3. Pairs(f, R) = Pairs(g, R)
  BY DEF Pairs
<1>4. Total(g, R) = Total(f, R) /\ Total(f, R) \in Nat
  BY <1>1, <1>3, PairsFinite DEF Total
<1>5. Total(f, {x}) = f[x] /\ Total(g, {x}) = g[x] /\ f[x] \in Nat /\ g[x] \in Nat
  BY OneColumn DEF Gives
<1> HIDE DEF R
<1> QED BY <1>2, <1>4, <1>5

\* More elements have the greater total.
LEMMA TotalOfMore ==
    ASSUME NEW B, IsFiniteSet(B), NEW A \in SUBSET B, NEW f, Gives(f, B)
    PROVE  Total(f, A) <= Total(f, B)
<1>1. Pairs(f, A) \subseteq Pairs(f, B)
  BY DEF Pairs
<1> QED BY <1>1, PairsFinite, FS_Subset DEF Total
------------------------------------------------------------------------------
(* Types                                                                     *)

USE DEF Entrants, Closers, Threads

\* The parts of TypeOK: the threads' calls, the positions, the gate, and the rest.
CallsTyped ==
    /\ call \in [Threads -> {NoCall} \cup EntryCalls \cup CloseCalls]
    /\ \A x \in Entrants : call[x] \notin CloseCalls
    /\ \A x \in Closers : call[x] \notin EntryCalls
BooksTyped ==
    /\ tracked \in [Tickers -> Int] /\ account \in [Tickers -> Int]
    /\ stake \in [Tickers -> Nat]
GateTyped == risk \in [Tickers -> Nat] /\ deployed \in Nat /\ pending \subseteq Tickers
Capital == [losses : Nat, risk : [Tickers -> Nat], deployed : Nat]
RestTyped ==
    /\ mode \in {"down", "starting", "running", "stopped"}
    /\ main \in [at : {"sync", "tick", "halt", "bars", "close", "over"},
                 todo : SUBSET Tickers]
    /\ seen \subseteq Tickers /\ excused \subseteq Tickers /\ crossed \subseteq Tickers
    /\ losses \in Nat /\ halted \in BOOLEAN /\ haltFile \in BOOLEAN
    /\ saved = NoState \/ saved \in Capital

LEMMA TypeParts == TypeOK <=> CallsTyped /\ BooksTyped /\ GateTyped /\ RestTyped
BY DEF TypeOK, CallsTyped, BooksTyped, GateTyped, RestTyped, Capital

\* What an entry thread and a closing thread can be executing.
LEMMA EntryAt == ASSUME CallsTyped, NEW x \in Entrants, call[x].at # "idle"
                 PROVE  call[x] \in EntryCalls /\ call[x].ticker \in Tickers
BY DEF CallsTyped, NoCall, EntryCalls

LEMMA CloseAt == ASSUME CallsTyped, NEW x \in Closers, call[x].at # "idle"
                 PROVE  call[x] \in CloseCalls /\ call[x].ticker \in Tickers
BY DEF CallsTyped, NoCall, CloseCalls

\* The records of the two kinds of threads have different fields.
LEMMA Kinds == EntryCalls \cap CloseCalls = {} /\ NoCall \notin EntryCalls \cup CloseCalls
               /\ Entrants \cap Closers = {} /\ Loop \notin Bars
<1>1. ASSUME NEW c \in EntryCalls, c \in CloseCalls PROVE FALSE
  <2>1. c.at \in {"enter", "build", "acquire", "send", "track"}
    BY DEF EntryCalls
  <2>2. c.at \in {"decide", "exit", "sold", "lost", "test", "reserve"}
    BY <1>1 DEF CloseCalls
  <2> QED BY <2>1, <2>2
<1>2. NoCall.at = "idle"
  BY DEF NoCall
<1>3. NoCall \notin EntryCalls \cup CloseCalls
  BY <1>2 DEF EntryCalls, CloseCalls
<1> QED BY <1>1, <1>3, OptionsAssumption

\* One thread turns to something that a thread of its kind does.
LEMMA Turns ==
    ASSUME CallsTyped, NEW x \in Threads, NEW c, call' = [call EXCEPT ![x] = c],
           c = NoCall \/ (x \in Entrants /\ c \in EntryCalls) \/ (x \in Closers /\ c \in CloseCalls)
    PROVE  CallsTyped' /\ call'[x] = c /\ \A y \in Threads \ {x} : call'[y] = call[y]
<1>1. call' \in [Threads -> {NoCall} \cup EntryCalls \cup CloseCalls]
      /\ call'[x] = c /\ \A y \in Threads \ {x} : call'[y] = call[y]
  BY DEF CallsTyped
<1>2. \A y \in Entrants : call'[y] \notin CloseCalls
  BY <1>1, Kinds DEF CallsTyped
<1>3. \A y \in Closers : call'[y] \notin EntryCalls
  BY <1>1, Kinds DEF CallsTyped
<1> QED BY <1>1, <1>2, <1>3 DEF CallsTyped

EntryPlaces == {"enter", "build", "acquire", "send", "track"}
ClosePlaces == {"decide", "exit", "sold", "lost", "test", "reserve"}

\* It goes on with the same call.
LEMMA EntryGoes ==
    ASSUME CallsTyped, NEW x \in Entrants, call[x] \in EntryCalls, NEW at \in EntryPlaces,
           Goto(x, at)
    PROVE  /\ CallsTyped' /\ \A y \in Threads \ {x} : call'[y] = call[y]
           /\ call'[x] \in EntryCalls /\ call'[x].ticker = call[x].ticker
           /\ call'[x].at = at /\ call'[x].risk = call[x].risk
<1> DEFINE c == [call[x] EXCEPT !.at = at]
<1>1. c \in EntryCalls /\ c.ticker = call[x].ticker /\ c.at = at /\ c.risk = call[x].risk
  BY DEF EntryCalls, EntryPlaces
<1>2. call' = [call EXCEPT ![x] = c]
  BY DEF Goto, CallsTyped
<1> HIDE DEF c
<1> QED BY <1>1, <1>2, Turns

LEMMA CloseGoes ==
    ASSUME CallsTyped, NEW x \in Closers, call[x] \in CloseCalls, NEW at \in ClosePlaces,
           Goto(x, at)
    PROVE  /\ CallsTyped' /\ \A y \in Threads \ {x} : call'[y] = call[y]
           /\ call'[x] \in CloseCalls /\ call'[x].ticker = call[x].ticker
           /\ call'[x].at = at /\ call'[x].units = call[x].units
<1> DEFINE c == [call[x] EXCEPT !.at = at]
<1>1. c \in CloseCalls /\ c.ticker = call[x].ticker /\ c.at = at /\ c.units = call[x].units
  BY DEF CloseCalls, ClosePlaces
<1>2. call' = [call EXCEPT ![x] = c]
  BY DEF Goto, CallsTyped
<1> HIDE DEF c
<1> QED BY <1>1, <1>2, Turns

LEMMA CallEnds ==
    ASSUME CallsTyped, NEW x \in Threads, Ends(x)
    PROVE  CallsTyped' /\ call'[x] = NoCall /\ \A y \in Threads \ {x} : call'[y] = call[y]
BY Turns DEF Ends

\* After a close a thread of a BAR tests, and the loop has nothing under way.
LEMMA CloseEnds ==
    ASSUME CallsTyped, NEW x \in Closers, call[x] \in CloseCalls, Closed(x)
    PROVE  /\ CallsTyped' /\ \A y \in Threads \ {x} : call'[y] = call[y]
           /\ IF x = Loop THEN call'[x] = NoCall
              ELSE call'[x] \in CloseCalls /\ call'[x].ticker = call[x].ticker
                   /\ call'[x].at = "test"
<1> DEFINE c == IF x = Loop THEN NoCall
                ELSE [at |-> "test", ticker |-> call[x].ticker, units |-> 0]
<1>1. IF x = Loop THEN c = NoCall
      ELSE c \in CloseCalls /\ c.ticker = call[x].ticker /\ c.at = "test"
  BY DEF CloseCalls
<1>2. call' = [call EXCEPT ![x] = c]
  BY DEF Closed
<1> HIDE DEF c
<1> QED BY <1>1, <1>2, Turns
------------------------------------------------------------------------------
(* The gate and the broker                                                   *)

\* What is deployed covers the capital of every open ticker; so it does when saved.
RiskFits == Total(risk, Tickers) <= deployed
SavedFits == saved # NoState => Total(saved.risk, Tickers) <= saved.deployed

\* release() leaves a capital that is not negative, and takes off no more than the
\* risk of what it drops.
LEMMA FreedIs ==
    ASSUME GateTyped, NEW S \in SUBSET Tickers, NEW capital \in Nat
    PROVE  /\ Total(risk, S) \in Nat
           /\ Freed(capital, S) \in Nat /\ Freed(capital, S) >= capital - Total(risk, S)
<1>1. IsFiniteSet(S) /\ Gives(risk, S)
  BY OptionsAssumption, FS_Subset DEF GateTyped, Gives
<1>2. Total(risk, S) \in Nat /\ SumOf(risk, S) = Total(risk, S)
  BY <1>1, PairsFinite, SumIsTotal
<1>3. Freed(capital, S) = IF capital - Total(risk, S) < 0 THEN 0 ELSE capital - Total(risk, S)
  BY <1>2 DEF Freed
<1> QED BY <1>2, <1>3

\* A step that gives one ticker another risk, and deploys at least the difference.
Regives(t) == /\ risk' \in [Tickers -> Nat] /\ deployed' \in Nat
              /\ \A u \in Tickers \ {t} : risk'[u] = risk[u]
              /\ deployed' >= deployed - risk[t] + risk'[t]

LEMMA RegivesFits ==
    ASSUME GateTyped, RiskFits, NEW t \in Tickers, Regives(t)
    PROVE  RiskFits'
<1>1. Gives(risk, Tickers) /\ Gives(risk', Tickers) /\ IsFiniteSet(Tickers)
  BY OptionsAssumption DEF GateTyped, Regives, Gives
<1>2. Total(risk', Tickers) = Total(risk, Tickers) - risk[t] + risk'[t]
  BY <1>1, TotalExcept DEF Regives
<1>3. Total(risk, Tickers) \in Nat /\ risk[t] \in Nat /\ risk'[t] \in Nat
  BY <1>1, PairsFinite DEF Gives
<1> QED BY <1>2, <1>3 DEF RiskFits, Regives, GateTyped

LEMMA Releasing ==
    ASSUME GateTyped, NEW t \in Tickers, Release(t)
    PROVE  Regives(t) /\ risk'[t] = 0
<1>1. Freed(deployed, {t}) \in Nat /\ Freed(deployed, {t}) >= deployed - Total(risk, {t})
  BY FreedIs DEF GateTyped
<1>2. Total(risk, {t}) = risk[t]
  BY OneColumn DEF GateTyped
<1>3. risk' \in [Tickers -> Nat] /\ risk'[t] = 0 /\ \A u \in Tickers \ {t} : risk'[u] = risk[u]
  BY DEF Release, GateTyped
<1> QED BY <1>1, <1>2, <1>3 DEF Release, Regives, GateTyped

LEMMA Acquiring ==
    ASSUME GateTyped, NEW t \in Tickers, NEW r \in Nat, Acquire(t, r)
    PROVE  Regives(t) /\ risk'[t] = r
<1>1. risk' \in [Tickers -> Nat] /\ risk'[t] = r /\ \A u \in Tickers \ {t} : risk'[u] = risk[u]
  BY DEF Acquire, GateTyped
<1>2. deployed' = deployed + r /\ risk[t] \in Nat
  BY DEF Acquire, GateTyped
<1> QED BY <1>1, <1>2 DEF Regives, GateTyped

\* What is saved is typed, and fits, when the gate does.
LEMMA Saving ==
    ASSUME Save, losses' \in Nat, risk' \in [Tickers -> Nat], deployed' \in Nat
    PROVE  saved' \in Capital /\ (RiskFits' => SavedFits')
BY DEF Save, Capital, RiskFits, SavedFits

LEMMA AccountMoves ==
    ASSUME BooksTyped, NEW t \in Tickers, NEW ok \in BOOLEAN, NEW times \in 0..2,
           NEW units \in Int, Executed(t, ok, times, units)
    PROVE  /\ account' \in [Tickers -> Int]
           /\ account'[t] = account[t] + times * units
           /\ \A s \in Tickers \ {t} : account'[s] = account[s]
<1>1. account' = [account EXCEPT ![t] = account[t] + times * units]
  BY DEF Executed
<1>2. account[t] + times * units \in Int
  BY DEF BooksTyped
<1> QED BY <1>1, <1>2 DEF BooksTyped
------------------------------------------------------------------------------
(* What a step of a thread touches                                           *)

\* Its own call and, of the books and of the gate, those of its ticker.
Touches(x, t) ==
    /\ CallsTyped' /\ BooksTyped' /\ GateTyped'
    /\ \A y \in Threads \ {x} : call'[y] = call[y]
    /\ call'[x] = NoCall \/ call'[x].ticker = t
    /\ \A s \in Tickers \ {t} : /\ account'[s] = account[s] /\ tracked'[s] = tracked[s]
                                /\ stake'[s] = stake[s] /\ risk'[s] = risk[s]
    /\ UNCHANGED gate \/ Regives(t) \/ UNCHANGED <<risk, deployed>>
    /\ UNCHANGED <<mode, main, seen, halted, files>>

Typed == CallsTyped /\ BooksTyped /\ GateTyped /\ RestTyped

LEMMA EnterTouches ==
    ASSUME Typed, NEW x \in Entrants, Enter(x)
    PROVE  Touches(x, call[x].ticker) /\ UNCHANGED <<losses, history>>
<1>1. call[x] \in EntryCalls
  BY EntryAt DEF Enter, Typed
<1>2. CASE Goto(x, "build") /\ UNCHANGED pending /\ KeepRest
  BY <1>1, <1>2, EntryGoes
     DEF EntryPlaces, Touches, KeepRest, engine, positions, history, gate, files, Typed,
         BooksTyped, GateTyped
<1>3. CASE GiveUp(x) /\ KeepRest
  <2>1. pending' \subseteq Tickers
    BY <1>3 DEF GiveUp, Unreserve, Typed, GateTyped
  <2> QED BY <1>3, <2>1, CallEnds
      DEF GiveUp, Touches, KeepRest, engine, positions, history, files, Typed, BooksTyped,
          GateTyped
<1> QED BY <1>2, <1>3 DEF Enter

LEMMA BuildTouches ==
    ASSUME Typed, NEW x \in Entrants, Build(x)
    PROVE  Touches(x, call[x].ticker) /\ UNCHANGED <<losses, history>>
<1>1. call[x] \in EntryCalls
  BY EntryAt DEF Build, Typed
<1>2. ASSUME NEW r \in Risks, call' = [call EXCEPT ![x].at = "acquire", ![x].risk = r],
             UNCHANGED pending, KeepRest
      PROVE  Touches(x, call[x].ticker) /\ UNCHANGED <<losses, history>>
  <2> DEFINE c == [call[x] EXCEPT !.at = "acquire", !.risk = r]
  <2>1. c \in EntryCalls /\ c.ticker = call[x].ticker
    BY <1>1, OptionsAssumption DEF EntryCalls
  <2>2. call' = [call EXCEPT ![x] = c]
    BY <1>2 DEF Typed, CallsTyped
  <2> HIDE DEF c
  <2>3. CallsTyped' /\ call'[x] = c /\ \A y \in Threads \ {x} : call'[y] = call[y]
    BY <2>1, <2>2, Turns DEF Typed
  <2> QED BY <1>2, <2>1, <2>3
      DEF Touches, KeepRest, engine, positions, history, gate, files, Typed, BooksTyped,
          GateTyped
<1>3. CASE GiveUp(x) /\ KeepRest
  <2>1. pending' \subseteq Tickers
    BY <1>3 DEF GiveUp, Unreserve, Typed, GateTyped
  <2> QED BY <1>3, <2>1, CallEnds
      DEF GiveUp, Touches, KeepRest, engine, positions, history, files, Typed, BooksTyped,
          GateTyped
<1> QED BY <1>2, <1>3 DEF Build

LEMMA AcquireTouches ==
    ASSUME Typed, NEW x \in Entrants, AcquireRisk(x)
    PROVE  /\ Touches(x, call[x].ticker) /\ UNCHANGED <<losses, excused>>
           /\ crossed' \subseteq Tickers
<1>1. call[x] \in EntryCalls /\ call[x].ticker \in Tickers /\ call[x].risk \in Nat
  BY EntryAt DEF AcquireRisk, Typed, EntryCalls
<1>2. Regives(call[x].ticker)
  BY <1>1, Acquiring DEF AcquireRisk, Typed
<1>3. pending' \subseteq Tickers
  BY DEF AcquireRisk, Acquire, Typed, GateTyped
<1>4. /\ CallsTyped' /\ \A y \in Threads \ {x} : call'[y] = call[y]
      /\ call'[x].ticker = call[x].ticker
  BY <1>1, EntryGoes DEF AcquireRisk, EntryPlaces, Typed
<1>5. UNCHANGED <<mode, main, seen, tracked, stake, losses, halted, account, files, excused>>
  BY DEF AcquireRisk, engine, positions
<1>6. crossed' \subseteq Tickers
  BY <1>1 DEF AcquireRisk, Typed, RestTyped
<1>7. GateTyped'
  BY <1>2, <1>3 DEF Regives, GateTyped
<1> QED BY <1>2, <1>4, <1>5, <1>6, <1>7 DEF Touches, Regives, Typed, BooksTyped

LEMMA ExecuteTouches ==
    ASSUME Typed, NEW x \in Entrants, Execute(x)
    PROVE  Touches(x, call[x].ticker) /\ UNCHANGED <<losses, history>>
<1> DEFINE t == call[x].ticker
<1>1. call[x] \in EntryCalls /\ t \in Tickers
  BY EntryAt DEF Execute, Typed
<1>2. PICK ok \in BOOLEAN, times \in 0..2 :
         /\ Executed(t, ok, times, 1)
         /\ IF ok THEN Goto(x, "track") /\ UNCHANGED gate ELSE Release(t) /\ GiveUp(x)
  BY DEF Execute
<1>3. account' \in [Tickers -> Int] /\ \A s \in Tickers \ {t} : account'[s] = account[s]
  BY <1>1, <1>2, AccountMoves DEF Typed
<1>4. UNCHANGED <<mode, main, seen, tracked, stake, losses, halted, files, history>>
  BY DEF Execute, engine, positions
<1>5. BooksTyped'
  BY <1>3, <1>4 DEF Typed, BooksTyped
<1>6. CASE ok
  <2>1. /\ CallsTyped' /\ \A y \in Threads \ {x} : call'[y] = call[y]
        /\ call'[x].ticker = t
    BY <1>1, <1>2, <1>6, EntryGoes DEF EntryPlaces, Typed
  <2>2. UNCHANGED <<risk, deployed, pending>>
    BY <1>2, <1>6 DEF gate
  <2> QED BY <1>3, <1>4, <1>5, <2>1, <2>2 DEF Touches, Typed, GateTyped, gate
<1>7. CASE ~ok
  <2>1. CallsTyped' /\ call'[x] = NoCall /\ \A y \in Threads \ {x} : call'[y] = call[y]
    BY <1>2, <1>7, CallEnds DEF GiveUp, Typed
  <2>2. Regives(t)
    BY <1>1, <1>2, <1>7, Releasing DEF Typed
  <2>3. pending' \subseteq Tickers
    BY <1>2, <1>7 DEF GiveUp, Unreserve, Typed, GateTyped
  <2>4. GateTyped'
    BY <2>2, <2>3 DEF Regives, GateTyped
  <2> QED BY <1>3, <1>4, <1>5, <2>1, <2>2, <2>4 DEF Touches, Regives
<1> QED BY <1>6, <1>7

LEMMA TrackTouches ==
    ASSUME Typed, NEW x \in Entrants, Track(x)
    PROVE  Touches(x, call[x].ticker) /\ UNCHANGED <<losses, history>>
<1> DEFINE t == call[x].ticker
<1>1. call[x] \in EntryCalls /\ t \in Tickers /\ call[x].risk \in Nat
  BY EntryAt DEF Track, Typed, EntryCalls
<1>2. UNCHANGED <<mode, main, seen, losses, halted, files, history>>
  BY DEF Track
<1>3. CallsTyped' /\ call'[x] = NoCall /\ \A y \in Threads \ {x} : call'[y] = call[y]
  BY CallEnds DEF Track, GiveUp, Typed
<1>4. CASE /\ tracked' = [tracked EXCEPT ![t] = 1] /\ stake' = [stake EXCEPT ![t] = call[x].risk]
           /\ UNCHANGED <<gate, account, faults>>
  <2>1. /\ tracked' \in [Tickers -> Int] /\ stake' \in [Tickers -> Nat]
        /\ \A s \in Tickers \ {t} : tracked'[s] = tracked[s] /\ stake'[s] = stake[s]
    BY <1>1, <1>4 DEF Typed, BooksTyped
  <2>2. UNCHANGED <<risk, deployed, pending, account>>
    BY <1>4 DEF gate
  <2> QED BY <1>2, <1>3, <2>1, <2>2 DEF Touches, Typed, GateTyped, BooksTyped, gate
<1>5. CASE /\ \E ok \in BOOLEAN, times \in 0..2 : Executed(t, ok, times, -1)
           /\ Release(t) /\ GiveUp(x) /\ UNCHANGED positions
  <2>1. account' \in [Tickers -> Int] /\ \A s \in Tickers \ {t} : account'[s] = account[s]
    BY <1>1, <1>5, AccountMoves DEF Typed
  <2>2. UNCHANGED <<tracked, stake>>
    BY <1>5 DEF positions
  <2>3. Regives(t)
    BY <1>1, <1>5, Releasing DEF Typed
  <2>4. pending' \subseteq Tickers
    BY <1>5 DEF GiveUp, Unreserve, Typed, GateTyped
  <2>5. GateTyped' /\ BooksTyped'
    BY <2>1, <2>2, <2>3, <2>4 DEF Regives, GateTyped, Typed, BooksTyped
  <2> QED BY <1>2, <1>3, <2>1, <2>2, <2>3, <2>5 DEF Touches, Regives
<1> QED BY <1>4, <1>5 DEF Track

LEMMA EntryTouches ==
    ASSUME Typed, NEW x \in Entrants, Entry(x)
    PROVE  /\ call[x] \in EntryCalls /\ call[x].ticker \in Tickers
           /\ Touches(x, call[x].ticker)
           /\ UNCHANGED <<losses, excused>> /\ crossed' \subseteq Tickers
<1>1. call[x] \in EntryCalls /\ call[x].ticker \in Tickers
  BY EntryAt DEF Entry, Enter, Build, AcquireRisk, Execute, Track, Typed
<1>2. UNCHANGED history => UNCHANGED excused /\ crossed' \subseteq Tickers
  BY DEF history, Typed, RestTyped
<1> QED BY <1>1, <1>2, EnterTouches, BuildTouches, AcquireTouches, ExecuteTouches, TrackTouches
    DEF Entry

LEMMA SellTouches ==
    ASSUME Typed, NEW x \in Closers, Sell(x)
    PROVE  /\ Touches(x, call[x].ticker)
           /\ UNCHANGED <<losses, crossed, tracked, stake, risk, deployed, pending>>
           /\ excused \subseteq excused' /\ excused' \subseteq Tickers
           /\ x # Loop => excused' = excused
           /\ x = Loop => \/ call[x].ticker \in excused'
                          \/ /\ call'[x].at = "sold" /\ call'[x].ticker = call[x].ticker
                             /\ account'[call[x].ticker] =
                                  account[call[x].ticker] - call[x].units
<1> DEFINE t == call[x].ticker
           units == call[x].units
<1>1. call[x] \in CloseCalls /\ t \in Tickers /\ units \in Int
  BY CloseAt DEF Sell, Typed, CloseCalls
<1>2. PICK flat \in BOOLEAN :
        /\ \/ \E times \in 1..2 : /\ Executed(t, TRUE, times, -units) /\ Goto(x, "sold")
                                  /\ flat = (times = 1)
           \/ Goto(x, "lost") /\ ~flat /\ UNCHANGED <<account, faults>>
           \/ \E times \in 0..1 : Executed(t, FALSE, times, -units) /\ Closed(x) /\ ~flat
        /\ excused' = IF x = Loop /\ ~flat THEN excused \cup {t} ELSE excused
  BY DEF Sell
<1>3. /\ UNCHANGED <<mode, main, seen, losses, halted, files, crossed>>
      /\ UNCHANGED <<tracked, stake, risk, deployed, pending>>
  BY DEF Sell, gate, engine, positions
<1>4. /\ account' \in [Tickers -> Int] /\ \A s \in Tickers \ {t} : account'[s] = account[s]
      /\ CallsTyped' /\ \A y \in Threads \ {x} : call'[y] = call[y]
      /\ call'[x] = NoCall \/ call'[x].ticker = t
      /\ flat => /\ call'[x].at = "sold" /\ call'[x].ticker = t
                 /\ account'[t] = account[t] - units
  <2>1. CASE \E times \in 1..2 : /\ Executed(t, TRUE, times, -units) /\ Goto(x, "sold")
                                 /\ flat = (times = 1)
    <3>1. PICK times \in 1..2 : /\ Executed(t, TRUE, times, -units) /\ Goto(x, "sold")
                                /\ flat = (times = 1)
      BY <2>1
    <3>2. times \in 0..2 /\ -units \in Int
      BY <1>1
    <3>3. /\ account' \in [Tickers -> Int] /\ account'[t] = account[t] + times * (-units)
          /\ \A s \in Tickers \ {t} : account'[s] = account[s]
      BY <1>1, <3>1, <3>2, AccountMoves DEF Typed
    <3>4. 1 * (-units) = -units /\ account[t] \in Int
      BY <1>1 DEF Typed, BooksTyped
    <3>5. flat => account'[t] = account[t] - units
      BY <1>1, <3>1, <3>3, <3>4
    <3>6. /\ CallsTyped' /\ \A y \in Threads \ {x} : call'[y] = call[y]
          /\ call'[x].at = "sold" /\ call'[x].ticker = t
      BY <1>1, <3>1, CloseGoes DEF ClosePlaces, Typed
    <3> QED BY <3>3, <3>5, <3>6
  <2>2. CASE Goto(x, "lost") /\ ~flat /\ UNCHANGED <<account, faults>>
    BY <1>1, <2>2, CloseGoes DEF ClosePlaces, Typed, BooksTyped
  <2>3. CASE \E times \in 0..1 : Executed(t, FALSE, times, -units) /\ Closed(x) /\ ~flat
    <3>1. PICK times \in 0..1 : Executed(t, FALSE, times, -units) /\ Closed(x) /\ ~flat
      BY <2>3
    <3>2. times \in 0..2 /\ -units \in Int
      BY <1>1
    <3>3. account' \in [Tickers -> Int] /\ \A s \in Tickers \ {t} : account'[s] = account[s]
      BY <1>1, <3>1, <3>2, AccountMoves DEF Typed
    <3>4. /\ CallsTyped' /\ \A y \in Threads \ {x} : call'[y] = call[y]
          /\ call'[x] = NoCall \/ call'[x].ticker = t
      BY <1>1, <3>1, CloseEnds DEF Typed
    <3> QED BY <3>1, <3>3, <3>4
  <2> QED BY <1>2, <2>1, <2>2, <2>3
<1>5. BooksTyped' /\ GateTyped'
  BY <1>3, <1>4 DEF Typed, BooksTyped, GateTyped
<1>6. Touches(x, t)
  BY <1>3, <1>4, <1>5 DEF Touches
<1>7. excused \subseteq excused' /\ excused' \subseteq Tickers
  BY <1>1, <1>2 DEF Typed, RestTyped
<1> HIDE DEF t, units
<1>8. /\ x # Loop => excused' = excused
      /\ x = Loop /\ ~flat => t \in excused'
  BY <1>2
<1>9. x = Loop => \/ t \in excused'
                  \/ /\ call'[x].at = "sold" /\ call'[x].ticker = t
                     /\ account'[t] = account[t] - units
  BY <1>4, <1>8
<1> QED BY <1>3, <1>6, <1>7, <1>8, <1>9 DEF t, units

LEMMA BookTouches ==
    ASSUME Typed, NEW x \in Closers, Book(x)
    PROVE  /\ Touches(x, call[x].ticker) /\ UNCHANGED <<account, excused, pending>>
           /\ losses' \in Nat /\ crossed' \subseteq Tickers
           /\ tracked'[call[x].ticker] = 0
           /\ x = Loop => call'[x] = NoCall
<1> DEFINE t == call[x].ticker
<1>1. call[x] \in CloseCalls /\ t \in Tickers
  BY CloseAt DEF Book, Typed
<1>2. UNCHANGED <<mode, main, seen, halted, account, files, excused, pending>>
  BY DEF Book
<1>3. /\ tracked' \in [Tickers -> Int] /\ tracked'[t] = 0 /\ stake' \in [Tickers -> Nat]
      /\ \A s \in Tickers \ {t} : tracked'[s] = tracked[s] /\ stake'[s] = stake[s]
  BY <1>1 DEF Book, Typed, BooksTyped
<1>4. Regives(t)
  BY <1>1, Releasing DEF Book, Typed
<1>5. /\ CallsTyped' /\ \A y \in Threads \ {x} : call'[y] = call[y]
      /\ call'[x] = NoCall \/ call'[x].ticker = t
      /\ x = Loop => call'[x] = NoCall
  BY <1>1, CloseEnds DEF Book, Typed
<1>6. GateTyped' /\ BooksTyped'
  BY <1>2, <1>3, <1>4 DEF Regives, GateTyped, Typed, BooksTyped
<1>7. losses' \in Nat
  BY DEF Book, Typed, RestTyped
<1>8. crossed' \subseteq Tickers
  BY <1>1 DEF Book, Typed, RestTyped
<1>9. Touches(x, t)
  BY <1>2, <1>3, <1>4, <1>5, <1>6 DEF Touches, Regives
<1> QED BY <1>2, <1>3, <1>5, <1>7, <1>8, <1>9

\* Steps of a BAR without effect but on its thread.
LEMMA LookTouches ==
    ASSUME Typed, NEW h \in Bars, Decide(h) \/ Test(h)
    PROVE  /\ call[h] \in CloseCalls /\ call[h].ticker \in Tickers
           /\ Touches(h, call[h].ticker)
           /\ UNCHANGED <<account, tracked, stake, gate, losses, history>>
<1>1. h \in Closers /\ h # Loop
  BY Kinds
<1>2. call[h] \in CloseCalls /\ call[h].ticker \in Tickers
  BY <1>1, CloseAt DEF Decide, Test, Typed
<1>3. /\ UNCHANGED <<mode, main, seen, halted, losses, files, history>>
      /\ UNCHANGED <<account, tracked, stake, gate, risk, deployed, pending>>
  BY DEF Decide, Test, gate, engine, positions
<1>4. Goto(h, "exit") \/ Goto(h, "reserve") \/ Closed(h) \/ Ends(h)
  BY DEF Decide, Test
<1>5. /\ CallsTyped' /\ \A y \in Threads \ {h} : call'[y] = call[y]
      /\ call'[h] = NoCall \/ call'[h].ticker = call[h].ticker
  BY <1>1, <1>2, <1>4, CloseGoes, CloseEnds, CallEnds DEF ClosePlaces, Typed
<1>6. GateTyped' /\ BooksTyped'
  BY <1>3 DEF GateTyped, Typed, BooksTyped
<1> QED BY <1>2, <1>3, <1>5, <1>6 DEF Touches

\* A step that begins with a new entry of t in thread x.
LEMMA BeginsTyped ==
    ASSUME CallsTyped, NEW x \in Entrants, NEW t \in Tickers, Begins(x, t)
    PROVE  /\ CallsTyped' /\ \A y \in Threads \ {x} : call'[y] = call[y]
           /\ call'[x].at = "enter" /\ call'[x].ticker = t
<1> DEFINE c == [at |-> "enter", ticker |-> t, risk |-> 0]
<1>1. c \in EntryCalls /\ c.at = "enter" /\ c.ticker = t
  BY DEF EntryCalls
<1>2. call' = [call EXCEPT ![x] = c]
  BY DEF Begins
<1> HIDE DEF c
<1> QED BY <1>1, <1>2, Turns

LEMMA BarTyped ==
    ASSUME Typed, NEW h \in Bars, NEW t \in Tickers, BarComes(h, t)
    PROVE  /\ CallsTyped' /\ \A y \in Threads \ {h} : call'[y] = call[y]
           /\ call'[h] \in CloseCalls /\ call'[h].at \in {"decide", "test"}
<1> DEFINE c == [at |-> "decide", ticker |-> t, units |-> tracked[t]]
           d == [at |-> "test", ticker |-> t, units |-> 0]
<1>1. c \in CloseCalls /\ c.at = "decide" /\ d \in CloseCalls /\ d.at = "test"
  BY DEF CloseCalls, Typed, BooksTyped
<1>2. call' = [call EXCEPT ![h] = c] \/ call' = [call EXCEPT ![h] = d]
  BY DEF BarComes, Closes
<1> HIDE DEF c, d
<1> QED BY <1>1, <1>2, Turns DEF Typed

\* The scan ends, and may leave an entry of its ticker to an execution thread.
LEMMA ReserveTyped ==
    ASSUME Typed, NEW h \in Bars, Reserve(h)
    PROVE  /\ call[h] \in CloseCalls /\ call[h].ticker \in Tickers
           /\ CallsTyped' /\ call'[h] = NoCall
           /\ pending' \subseteq pending \cup {call[h].ticker}
           /\ \A y \in Threads \ {h} : \/ call'[y] = call[y]
                                       \/ /\ y \in Execs /\ call[y] = NoCall
                                          /\ call'[y].at = "enter"
                                          /\ call'[y].ticker = call[h].ticker
<1>1. h \in Closers /\ h # Loop /\ h \notin Execs
  BY Kinds
<1>2. call[h] \in CloseCalls /\ call[h].ticker \in Tickers
  BY <1>1, CloseAt DEF Reserve, Typed
<1>3. ASSUME NEW x \in Execs, call[x] = NoCall,
             pending' = pending \cup {call[h].ticker},
             call' = [call EXCEPT ![h] = NoCall,
                                  ![x] = [at |-> "enter", ticker |-> call[h].ticker, risk |-> 0]]
      PROVE  /\ CallsTyped' /\ call'[h] = NoCall
             /\ \A y \in Threads \ {h} : \/ call'[y] = call[y]
                                         \/ /\ y \in Execs /\ call[y] = NoCall
                                            /\ call'[y].at = "enter"
                                            /\ call'[y].ticker = call[h].ticker
  <2> DEFINE c == [at |-> "enter", ticker |-> call[h].ticker, risk |-> 0]
  <2>1. c \in EntryCalls /\ c.at = "enter" /\ c.ticker = call[h].ticker
    BY <1>2 DEF EntryCalls
  <2>2. call' = [call EXCEPT ![h] = NoCall, ![x] = c]
    BY <1>3
  <2> HIDE DEF c
  <2>3. /\ call' \in [Threads -> {NoCall} \cup EntryCalls \cup CloseCalls]
        /\ call'[h] = NoCall /\ call'[x] = c /\ \A y \in Threads \ {h, x} : call'[y] = call[y]
    BY <1>1, <2>1, <2>2 DEF Typed, CallsTyped
  <2>4. CallsTyped'
    BY <2>1, <2>3, Kinds DEF Typed, CallsTyped
  <2> QED BY <1>3, <2>1, <2>3, <2>4
<1>4. CASE Ends(h) /\ UNCHANGED <<pending, entries>>
  BY <1>2, <1>4, CallEnds DEF Typed
<1> QED BY <1>2, <1>3, <1>4 DEF Reserve

\* What the reconciliation makes of the positions and of the gate.
LEMMA Reconciling ==
    ASSUME Typed, Reconcile
    PROVE  /\ BooksTyped' /\ GateTyped' /\ crossed' \subseteq Tickers
           /\ saved' \in Capital /\ (RiskFits => RiskFits' /\ SavedFits')
           /\ mode' = "running" /\ main' = [at |-> Resumed, todo |-> {}] /\ seen' = {}
           /\ UNCHANGED <<call, losses, halted, account, haltFile, excused>>
           /\ \A t \in Tickers \ crossed' :
                \/ InFlight(t) = {} /\ tracked'[t] # 0 /\ risk'[t] = stake'[t]
                \/ tracked[t] # 0 /\ tracked'[t] = 0
                \/ /\ tracked'[t] = tracked[t] /\ stake'[t] = stake[t] /\ risk'[t] = risk[t]
                   /\ t \notin crossed
<1> DEFINE stale == Tracked \ seen
<1>1. PICK adopted \in SUBSET Adoptable : \E amount \in [adopted -> Risks] :
        /\ tracked' = [t \in Tickers |-> IF t \in adopted THEN account[t]
                                         ELSE IF t \in stale THEN 0 ELSE tracked[t]]
        /\ stake' = [t \in Tickers |-> IF t \in adopted THEN amount[t]
                                       ELSE IF t \in stale THEN 0 ELSE stake[t]]
        /\ Adopted(amount, stale)
        /\ crossed' = crossed \cup {t \in adopted : InFlight(t) # {}}
  BY DEF Reconcile
<1>2. PICK amount \in [adopted -> Risks] :
        /\ tracked' = [t \in Tickers |-> IF t \in adopted THEN account[t]
                                         ELSE IF t \in stale THEN 0 ELSE tracked[t]]
        /\ stake' = [t \in Tickers |-> IF t \in adopted THEN amount[t]
                                       ELSE IF t \in stale THEN 0 ELSE stake[t]]
        /\ Adopted(amount, stale)
        /\ crossed' = crossed \cup {t \in adopted : InFlight(t) # {}}
  BY <1>1
<1>3. /\ adopted \subseteq Tickers /\ stale \subseteq Tickers /\ adopted \cap stale = {}
      /\ \A t \in adopted : account[t] # 0 /\ amount[t] \in Nat
      /\ \A t \in stale : tracked[t] # 0
      /\ DOMAIN amount = adopted
  BY OptionsAssumption DEF Adoptable, Tracked, Typed, RestTyped
<1>4. /\ risk' = [t \in Tickers |-> IF t \in adopted THEN amount[t]
                                    ELSE IF t \in stale THEN 0 ELSE risk[t]]
      /\ deployed' = Freed(deployed + SumOf(amount, adopted), stale)
      /\ pending' \subseteq pending
  BY <1>2, <1>3 DEF Adopted
<1> HIDE DEF stale
<1>5. BooksTyped'
  <2>1. tracked' \in [Tickers -> Int] /\ stake' \in [Tickers -> Nat]
    BY <1>2, <1>3 DEF Typed, BooksTyped
  <2>2. account' = account
    BY DEF Reconcile
  <2> QED BY <2>1, <2>2 DEF Typed, BooksTyped
<1>6. IsFiniteSet(adopted) /\ IsFiniteSet(stale) /\ IsFiniteSet(Tickers)
  BY <1>3, OptionsAssumption, FS_Subset
<1>7. SumOf(amount, adopted) = Total(amount, adopted) /\ Total(amount, adopted) \in Nat
  BY <1>3, <1>6, SumIsTotal, PairsFinite DEF Gives
<1>8. /\ Total(risk, stale) \in Nat /\ deployed' \in Nat
      /\ deployed' >= deployed + Total(amount, adopted) - Total(risk, stale)
  <2>1. deployed + SumOf(amount, adopted) \in Nat
    BY <1>7 DEF Typed, GateTyped
  <2> DEFINE c == deployed + SumOf(amount, adopted)
  <2>2. c \in Nat /\ deployed' = Freed(c, stale) /\ c = deployed + Total(amount, adopted)
    BY <1>4, <1>7, <2>1
  <2> HIDE DEF c
  <2>3. /\ Total(risk, stale) \in Nat
        /\ Freed(c, stale) \in Nat /\ Freed(c, stale) >= c - Total(risk, stale)
    BY <1>3, <2>2, FreedIs DEF Typed
  <2>4. deployed \in Nat
    BY DEF Typed, GateTyped
  <2> QED BY <1>7, <2>2, <2>3, <2>4
<1>9. risk' \in [Tickers -> Nat]
  BY <1>3, <1>4 DEF Typed, GateTyped
<1>10. GateTyped'
  BY <1>4, <1>8, <1>9 DEF Typed, GateTyped
<1>11. RiskFits => RiskFits'
  <2> SUFFICES ASSUME RiskFits PROVE RiskFits'
    OBVIOUS
  <2> DEFINE other == Tickers \ (adopted \cup stale)
             moved == adopted \cup stale
  <2>1. /\ IsFiniteSet(other) /\ IsFiniteSet(moved) /\ other \cap moved = {}
        /\ other \cup moved = Tickers
    BY <1>3, <1>6, FS_Subset, FS_Union
  <2>2. /\ Gives(risk, other) /\ Gives(risk, adopted) /\ Gives(risk, stale) /\ Gives(risk, moved)
        /\ Gives(risk', other) /\ Gives(risk', adopted) /\ Gives(risk', stale)
        /\ Gives(risk', moved)
    BY <1>3, <1>9 DEF Gives, Typed, GateTyped
  <2>3. /\ \A t \in other : risk'[t] = risk[t]
        /\ \A t \in adopted : risk'[t] = amount[t]
        /\ \A t \in stale : risk'[t] = 0
    BY <1>3, <1>4
  <2>4. /\ Total(risk, moved) = Total(risk, adopted) + Total(risk, stale)
        /\ Total(risk', moved) = Total(risk', adopted) + Total(risk', stale)
    BY <1>3, <1>6, <2>2, TotalOfParts
  <2>5. Pairs(risk', other) = Pairs(risk, other)
    BY <2>3 DEF Pairs
  <2>6. Pairs(risk', adopted) = Pairs(amount, adopted)
    BY <2>3 DEF Pairs
  <2>7. Pairs(risk', stale) = {}
    <3>1. ASSUME NEW p \in Pairs(risk', stale) PROVE FALSE
      <4>1. p[1] \in stale /\ p[2] \in Nat /\ 1 <= p[2] /\ p[2] <= risk'[p[1]]
        BY DEF Pairs
      <4>2. risk'[p[1]] = 0
        BY <2>3, <4>1
      <4> QED BY <4>1, <4>2
    <3> QED BY <3>1
  <2> HIDE DEF other, moved
  <2>8. /\ Total(risk, other \cup moved) = Total(risk, other) + Total(risk, moved)
        /\ Total(risk', other \cup moved) = Total(risk', other) + Total(risk', moved)
    BY <2>1, <2>2, TotalOfParts
  <2>9. /\ Total(risk', other) = Total(risk, other) /\ Total(risk', stale) = 0
        /\ Total(risk', adopted) = Total(amount, adopted)
    BY <2>5, <2>6, <2>7, FS_EmptySet DEF Total
  <2>10. Total(risk, other) \in Nat /\ Total(risk, adopted) \in Nat
    BY <1>6, <2>1, <2>2, PairsFinite
  <2>16. /\ Total(risk, Tickers) = Total(risk, other) + Total(risk, moved)
         /\ Total(risk', Tickers) = Total(risk', other) + Total(risk', moved)
    <3>1. other \cup moved = Tickers
      BY <2>1
    <3> HIDE DEF Total
    <3> QED BY <2>8, <3>1
  <2>11. Total(risk, Tickers) = Total(risk, other) + (Total(risk, adopted) + Total(risk, stale))
    BY <2>4, <2>16
  <2>12. Total(risk', Tickers) = Total(risk, other) + (Total(amount, adopted) + 0)
    BY <2>4, <2>9, <2>16
  <2>13. deployed >= Total(risk, other) + (Total(risk, adopted) + Total(risk, stale))
    BY <2>11 DEF RiskFits
  <2>14. deployed \in Nat
    BY DEF Typed, GateTyped
  <2>15. deployed' >= Total(risk, other) + (Total(amount, adopted) + 0)
    BY <1>7, <1>8, <2>10, <2>13, <2>14
  <2> QED BY <2>12, <2>15 DEF RiskFits
<1>12. UNCHANGED <<call, losses, halted, account, haltFile, excused>> /\ mode' = "running"
       /\ main' = [at |-> Resumed, todo |-> {}] /\ seen' = {} /\ Save
  BY DEF Reconcile, MainTo
<1>13. saved' \in Capital /\ (RiskFits' => SavedFits')
  <2>1. losses' \in Nat
    BY <1>12 DEF Typed, RestTyped
  <2> QED BY <1>8, <1>9, <1>12, <2>1, Saving
<1>14. crossed' \subseteq Tickers
  BY <1>2, <1>3 DEF Typed, RestTyped
<1>15. ASSUME NEW t \in Tickers \ crossed'
       PROVE  \/ InFlight(t) = {} /\ tracked'[t] # 0 /\ risk'[t] = stake'[t]
              \/ tracked[t] # 0 /\ tracked'[t] = 0
              \/ /\ tracked'[t] = tracked[t] /\ stake'[t] = stake[t] /\ risk'[t] = risk[t]
                 /\ t \notin crossed
  <2>1. CASE t \in adopted
    BY <1>2, <1>3, <1>4, <2>1
  <2>2. CASE t \notin adopted /\ t \in stale
    BY <1>2, <1>3, <2>2
  <2>3. CASE t \notin adopted /\ t \notin stale
    BY <1>2, <1>4, <2>3
  <2> QED BY <2>1, <2>2, <2>3
<1> QED BY <1>5, <1>10, <1>11, <1>12, <1>13, <1>14, <1>15

\* What a closing thread does to its ticker, said of both its steps.
LEMMA ClosingTouches ==
    ASSUME Typed, NEW x \in Closers, Closing(x)
    PROVE  /\ call[x] \in CloseCalls /\ call[x].ticker \in Tickers
           /\ Touches(x, call[x].ticker) /\ UNCHANGED pending
           /\ losses' \in Nat /\ excused' \subseteq Tickers /\ crossed' \subseteq Tickers
<1>1. call[x] \in CloseCalls /\ call[x].ticker \in Tickers
  BY CloseAt DEF Closing, Sell, Book, Typed
<1>2. losses \in Nat /\ excused \subseteq Tickers /\ crossed \subseteq Tickers
  BY DEF Typed, RestTyped
<1>3. CASE Sell(x)
  BY <1>1, <1>2, <1>3, SellTouches
<1>4. CASE Book(x)
  BY <1>1, <1>2, <1>4, BookTouches
<1> QED BY <1>3, <1>4 DEF Closing

LEMMA TouchesTyped ==
    ASSUME Typed, NEW x, NEW t, Touches(x, t),
           losses' \in Nat, excused' \subseteq Tickers, crossed' \subseteq Tickers
    PROVE  Typed'
BY DEF Touches, Typed, RestTyped, files

\* Where no thread has anything under way.
LEMMA NoneTyped ==
    ASSUME call' = [x \in Threads |-> NoCall]
    PROVE  CallsTyped'
BY Kinds DEF CallsTyped

LEMMA TypeNext ==
    ASSUME Typed, [Next]_vars
    PROVE  Typed'
<1> USE DEF Typed
<1>1. ASSUME NEW t \in Tickers, NEW x \in Ipcs, Signal(x, t) PROVE Typed'
  <2>1. CallsTyped'
    BY <1>1, BeginsTyped DEF Signal
  <2>2. excused' \subseteq Tickers
    BY <1>1 DEF Signal, RestTyped
  <2>3. UNCHANGED <<mode, main, seen, gate, engine, account, files, crossed>>
    BY <1>1 DEF Signal
  <2> QED BY <2>1, <2>2, <2>3
      DEF BooksTyped, GateTyped, RestTyped, gate, engine, positions, files
<1>2. ASSUME NEW t \in Tickers, NEW h \in Bars, BarComes(h, t) PROVE Typed'
  <2>1. CallsTyped'
    BY <1>2, BarTyped
  <2>2. UNCHANGED <<mode, main, seen, gate, engine, account, files, history>>
    BY <1>2 DEF BarComes
  <2> QED BY <2>1, <2>2
      DEF BooksTyped, GateTyped, RestTyped, gate, engine, positions, files, history
<1>3. ASSUME NEW x \in Entrants, Entry(x) PROVE Typed'
  <2>1. losses' \in Nat /\ excused' \subseteq Tickers /\ crossed' \subseteq Tickers
    BY <1>3, EntryTouches DEF RestTyped
  <2> QED BY <1>3, <2>1, EntryTouches, TouchesTyped
<1>4. ASSUME NEW x \in Closers, Closing(x) PROVE Typed'
  BY <1>4, ClosingTouches, TouchesTyped
<1>5. ASSUME NEW h \in Bars, Bar(h) PROVE Typed'
  <2>1. CASE Closing(h)
    BY <1>4, <2>1
  <2>2. CASE Decide(h) \/ Test(h)
    <3>1. losses' \in Nat /\ excused' \subseteq Tickers /\ crossed' \subseteq Tickers
      BY <2>2, LookTouches DEF RestTyped, history
    <3> QED BY <2>2, <3>1, LookTouches, TouchesTyped
  <2>3. CASE Reserve(h)
    <3>1. CallsTyped' /\ pending' \subseteq Tickers
      BY <2>3, ReserveTyped DEF GateTyped
    <3>2. UNCHANGED <<mode, main, seen, risk, deployed, engine, account, files, history>>
      BY <2>3 DEF Reserve
    <3> QED BY <3>1, <3>2
        DEF BooksTyped, GateTyped, RestTyped, engine, positions, files, history
  <2> QED BY <1>5, <2>1, <2>2, <2>3 DEF Bar
<1>6. CASE BarsDone \/ TickHalts
  <2>1. /\ UNCHANGED <<mode, seen, call, gate, engine, account, saved, history>>
        /\ MainTo("tick") \/ MainTo("halt")
        /\ haltFile' \in BOOLEAN
    BY <1>6 DEF BarsDone, TickHalts, RestTyped, files
  <2> QED BY <2>1
      DEF CallsTyped, BooksTyped, GateTyped, RestTyped, gate, engine, positions, history,
          MainTo
<1>7. CASE TickFetches
  <2>1. seen' \subseteq Tickers
    BY <1>7 DEF TickFetches, Fetched
  <2>2. MainTo("sync") /\ UNCHANGED <<mode, call, gate, engine, account, files, history>>
    BY <1>7 DEF TickFetches
  <2> QED BY <2>1, <2>2
      DEF CallsTyped, BooksTyped, GateTyped, RestTyped, gate, engine, positions, files,
          history, MainTo
<1>8. CASE Save /\ UNCHANGED <<gate, engine>>
           /\ UNCHANGED <<mode, seen, call, account, haltFile, crossed>>
           /\ main' \in [at : {"bars", "over", "close"}, todo : SUBSET Tickers]
           /\ excused' \subseteq Tickers
  <2>1. saved' \in Capital
    BY <1>8, Saving DEF gate, engine, GateTyped, RestTyped
  <2> QED BY <1>8, <2>1
      DEF CallsTyped, BooksTyped, GateTyped, RestTyped, gate, engine, positions
<1>9. CASE TickSaves \/ Stop
  <2>1. main' \in [at : {"bars", "over", "close"}, todo : SUBSET Tickers]
    BY <1>9 DEF TickSaves, Stop, MainTo
  <2>2. excused' \subseteq Tickers
    BY <1>9 DEF TickSaves, Stop, history, RestTyped
  <2> QED BY <1>8, <1>9, <2>1, <2>2 DEF TickSaves, Stop, history
<1>10. BeginClosing => /\ main' \in [at : {"bars", "over", "close"}, todo : SUBSET Tickers]
                       /\ excused' \subseteq Tickers
  BY DEF BeginClosing, Tracked, NotCloseable
<1>11. CASE EndOfDay
  BY <1>8, <1>10, <1>11 DEF EndOfDay
<1>12. CASE Halt
  BY <1>10, <1>12
     DEF Halt, CallsTyped, BooksTyped, GateTyped, RestTyped, gate, positions, files
<1>13. CASE Reconcile
  BY <1>13, Reconciling DEF CallsTyped, RestTyped, Resumed
<1>14. ASSUME NEW t \in Tickers, CloseNext(t) PROVE Typed'
  <2>1. main' \in [at : {"close"}, todo : SUBSET Tickers]
    BY <1>14 DEF CloseNext, At, RestTyped
  <2>2. CallsTyped'
    <3> DEFINE c == [at |-> "exit", ticker |-> t, units |-> tracked[t]]
    <3>1. c \in CloseCalls
      BY DEF CloseCalls, BooksTyped
    <3>2. call' = [call EXCEPT ![Loop] = c] \/ call' = call
      BY <1>14 DEF CloseNext, Closes
    <3> HIDE DEF c
    <3> QED BY <3>1, <3>2, Turns DEF CallsTyped
  <2>3. UNCHANGED <<mode, seen, gate, engine, account, files, history>>
    BY <1>14 DEF CloseNext
  <2> QED BY <2>1, <2>2, <2>3
      DEF BooksTyped, GateTyped, RestTyped, gate, engine, positions, files, history
<1>15. CASE Ended
  BY <1>15, NoneTyped
     DEF Ended, BooksTyped, GateTyped, RestTyped, gate, engine, positions, files, history
<1>16. CASE Crash
  <2>1. CallsTyped'
    BY <1>16, NoneTyped DEF Crash
  <2>2. BooksTyped' /\ GateTyped'
    BY <1>16 DEF Crash, BooksTyped, GateTyped
  <2>3. RestTyped'
    BY <1>16 DEF Crash, RestTyped, MainTo, files
  <2> QED BY <2>1, <2>2, <2>3
<1>17. CASE Start
  <2>1. /\ losses' \in Nat /\ risk' \in [Tickers -> Nat] /\ deployed' \in Nat
    BY <1>17 DEF Start, RestTyped, GateTyped, Capital
  <2>2. seen' \subseteq Tickers /\ mode' = "starting"
    BY <1>17 DEF Start, Fetched
  <2>3. UNCHANGED <<main, call, pending, positions, halted, account, files, history>>
    BY <1>17 DEF Start, history
  <2> QED BY <2>1, <2>2, <2>3
      DEF CallsTyped, BooksTyped, GateTyped, RestTyped, positions, files, history
<1>18. CASE UNCHANGED vars
  BY <1>18 DEF CallsTyped, BooksTyped, GateTyped, RestTyped, vars, gate, engine, positions,
               files, history
<1> QED BY <1>1, <1>2, <1>3, <1>4, <1>5, <1>6, <1>7, <1>9, <1>11, <1>12, <1>13, <1>14,
           <1>15, <1>16, <1>17, <1>18
        DEF Next, Tick, CloseAll

LEMMA TypeInit == ASSUME Init PROVE Typed
<1>1. CallsTyped
  BY Kinds DEF Init, CallsTyped
<1>2. BooksTyped /\ GateTyped
  BY DEF Init, BooksTyped, GateTyped
<1>3. RestTyped
  BY DEF Init, RestTyped
<1> QED BY <1>1, <1>2, <1>3 DEF Typed

\* In every reachable state every variable has a value of its type: deployed stays a
\* natural number although releases subtract (risk.py).
THEOREM TypeCorrect == Spec => []TypeOK
<1>1. Init => TypeOK
  BY TypeInit, TypeParts DEF Typed
<1>2. TypeOK /\ [Next]_vars => TypeOK'
  <2>1. TypeOK => Typed
    BY TypeParts DEF Typed
  <2>2. Typed' => TypeOK'
    BY DEF TypeOK, Typed, CallsTyped, BooksTyped, GateTyped, RestTyped, Capital
  <2> QED BY <2>1, <2>2, TypeNext
<1> QED BY <1>1, <1>2, PTL DEF Spec
------------------------------------------------------------------------------
(* The halt                                                                  *)

\* While the halt of the disk has not reached the engine, the loop is between the
\* two, or in a new process that has not handed out a BAR yet.
HaltAhead ==
    haltFile /\ ~halted =>
      \/ main.at = "halt"
      \/ /\ main.at \in {"sync", "tick", "close", "over"}
         /\ main.at = "sync" => mode # "running"
         /\ \A h \in Bars : call[h] = NoCall

LEMMA HaltAheadNext ==
    ASSUME Typed, HaltAhead, [Next]_vars
    PROVE  HaltAhead'
<1> SUFFICES ASSUME haltFile', ~halted'
             PROVE  \/ main'.at = "halt"
                    \/ /\ main'.at \in {"sync", "tick", "close", "over"}
                       /\ main'.at = "sync" => mode' # "running"
                       /\ \A h \in Bars : call'[h] = NoCall
  BY DEF HaltAhead
<1>0. /\ \A h \in Bars : h \in Closers /\ h \in Threads /\ h \notin Entrants /\ h # Loop
      /\ NoCall.at = "idle" /\ CallsTyped
  BY Kinds DEF NoCall, Typed
<1>1. ASSUME NEW t \in Tickers, NEW x \in Ipcs, Signal(x, t) PROVE HaltAhead'
  <2>1. UNCHANGED <<mode, main, halted, haltFile>>
    BY <1>1 DEF Signal, engine, files
  <2>2. \A h \in Bars : call'[h] = call[h]
    BY <1>0, <1>1, BeginsTyped DEF Signal
  <2> QED BY <2>1, <2>2 DEF HaltAhead
<1>2. ASSUME NEW t \in Tickers, NEW h \in Bars, BarComes(h, t) PROVE HaltAhead'
  <2>1. main.at = "bars" /\ UNCHANGED <<mode, main, halted, haltFile>>
    BY <1>2 DEF BarComes, At, engine, files
  <2> QED BY <2>1 DEF HaltAhead
<1>3. ASSUME NEW x \in Entrants, Entry(x) PROVE HaltAhead'
  <2>1. UNCHANGED <<mode, main, halted, files>> /\ \A h \in Bars : call'[h] = call[h]
    BY <1>0, <1>3, EntryTouches DEF Touches
  <2> QED BY <2>1 DEF HaltAhead, files
<1>4. ASSUME NEW h \in Bars, Bar(h) PROVE HaltAhead'
  <2>1. call[h].at # "idle"
    BY <1>4 DEF Bar, Decide, Closing, Sell, Book, Test, Reserve
  <2>2. call[h] # NoCall
    BY <1>0, <2>1
  <2>3. UNCHANGED <<mode, main, halted, haltFile>>
    <3>1. CASE Closing(h)
      BY <1>0, <3>1, ClosingTouches DEF Touches, files
    <3>2. CASE Decide(h) \/ Test(h) \/ Reserve(h)
      BY <3>2 DEF Decide, Test, Reserve, engine, files
    <3> QED BY <1>4, <3>1, <3>2 DEF Bar
  <2> QED BY <2>2, <2>3 DEF HaltAhead
<1>5. CASE Closing(Loop)
  <2>1. UNCHANGED <<mode, main, halted, files>> /\ \A h \in Bars : call'[h] = call[h]
    BY <1>0, <1>5, ClosingTouches DEF Touches
  <2> QED BY <2>1 DEF HaltAhead, files
<1>6. CASE BarsDone
  BY <1>6 DEF HaltAhead, BarsDone, At, MainTo, engine, files
<1>7. CASE TickHalts
  BY <1>7 DEF TickHalts, MainTo
<1>8. CASE Halt
  BY <1>8 DEF Halt
<1>9. CASE TickFetches \/ TickSaves
  BY <1>9 DEF HaltAhead, TickFetches, TickSaves, KillSwitch, engine, files
<1>10. CASE Reconcile
  <2>1. /\ At("sync") /\ UNCHANGED <<call, halted, haltFile>> /\ mode' = "running"
        /\ main' = [at |-> Resumed, todo |-> {}]
    BY <1>10, Reconciling DEF Reconcile
  <2>2. mode = "starting" /\ \A h \in Bars : call'[h] = NoCall
    BY <2>1 DEF HaltAhead, At
  <2> QED BY <2>1, <2>2 DEF Resumed
<1>11. CASE EndOfDay
  BY <1>11 DEF HaltAhead, EndOfDay, At, BeginClosing, engine
<1>12. ASSUME NEW t \in Tickers, CloseNext(t) PROVE HaltAhead'
  <2>1. main.at = "close" /\ main'.at = "close" /\ UNCHANGED <<halted, haltFile>>
    BY <1>12 DEF CloseNext, At, engine, files, Typed, RestTyped
  <2>2. \A h \in Bars : call'[h] = call[h]
    BY <1>0, <1>12 DEF CloseNext, Closes, CallsTyped
  <2> QED BY <2>1, <2>2 DEF HaltAhead
<1>13. CASE Stop
  BY <1>13 DEF HaltAhead, Stop, At, MainTo, engine
<1>14. CASE Ended
  BY <1>0, <1>14 DEF HaltAhead, Ended, At, engine, files
<1>15. CASE Crash
  BY <1>0, <1>15 DEF Crash, MainTo
<1>16. CASE Start
  BY <1>16 DEF HaltAhead, Start, files
<1>17. CASE UNCHANGED vars
  BY <1>17 DEF HaltAhead, vars, engine, files
<1> QED BY <1>1, <1>2, <1>3, <1>4, <1>5, <1>6, <1>7, <1>8, <1>9, <1>10, <1>11, <1>12,
           <1>13, <1>14, <1>15, <1>16, <1>17
        DEF HaltAhead, Next, Tick, CloseAll

\* Only a scan that is past the test reserves.
LEMMA OnlyPassedReserve ==
    ASSUME Typed, [Next]_vars
    PROVE  /\ pending' \subseteq pending \cup {call[h].ticker : h \in Passed}
           /\ \A h \in Passed' : h \in Passed \/ (call[h].at = "test" /\ ~halted)
<1>0. /\ \A h \in Bars : h \in Closers /\ h \in Threads /\ h \notin Entrants /\ h # Loop
      /\ NoCall.at = "idle" /\ CallsTyped
  BY Kinds DEF NoCall, Typed
<1>a. (\A h \in Bars : call'[h] = call[h] \/ call'[h].at # "reserve")
         => Passed' \subseteq Passed
  BY DEF Passed
<1>1. ASSUME NEW t \in Tickers, NEW x \in Ipcs, Signal(x, t)
      PROVE  UNCHANGED pending /\ Passed' \subseteq Passed
  BY <1>0, <1>1, <1>a, BeginsTyped DEF Signal, gate
<1>2. ASSUME NEW t \in Tickers, NEW h \in Bars, BarComes(h, t)
      PROVE  UNCHANGED pending /\ Passed' \subseteq Passed
  <2>1. \A g \in Bars : call'[g] = call[g] \/ call'[g].at # "reserve"
    BY <1>0, <1>2, BarTyped
  <2> QED BY <1>2, <1>a, <2>1 DEF BarComes, gate
<1>3. ASSUME NEW x \in Entrants, Entry(x)
      PROVE  pending' \subseteq pending /\ Passed' \subseteq Passed
  <2>1. \A h \in Bars : call'[h] = call[h]
    BY <1>0, <1>3, EntryTouches DEF Touches
  <2>2. pending' \subseteq pending
    BY <1>3 DEF Entry, Enter, Build, AcquireRisk, Acquire, Execute, Track, GiveUp,
                Unreserve, gate
  <2> QED BY <1>a, <2>1, <2>2
<1>4. ASSUME NEW x \in Closers, Closing(x)
      PROVE  UNCHANGED pending /\ Passed' \subseteq Passed
  <2>1. call[x] \in CloseCalls /\ UNCHANGED pending
        /\ \A y \in Threads \ {x} : call'[y] = call[y]
    BY <1>4, ClosingTouches DEF Touches
  <2>2. call'[x].at # "reserve"
    <3>1. call'[x].at \in {"sold", "lost"} \/ Closed(x)
      BY <1>0, <1>4, <2>1, CloseGoes DEF Closing, Sell, Book, ClosePlaces
    <3>2. Closed(x) => call'[x] = NoCall \/ call'[x].at = "test"
      BY <1>0, <2>1, CloseEnds
    <3> QED BY <1>0, <3>1, <3>2
  <2> QED BY <1>0, <1>a, <2>1, <2>2
<1>5. ASSUME NEW h \in Bars, Decide(h)
      PROVE  UNCHANGED pending /\ Passed' \subseteq Passed
  <2>1. call[h] \in CloseCalls /\ \A y \in Threads \ {h} : call'[y] = call[y]
    BY <1>5, LookTouches DEF Touches
  <2>2. call'[h].at # "reserve"
    <3>1. CASE Goto(h, "exit")
      BY <1>0, <2>1, <3>1, CloseGoes DEF ClosePlaces
    <3>2. CASE Closed(h)
      BY <1>0, <2>1, <3>2, CloseEnds
    <3> QED BY <1>5, <3>1, <3>2 DEF Decide
  <2> QED BY <1>0, <1>5, <1>a, <2>1, <2>2 DEF Decide, gate
<1>6. ASSUME NEW h \in Bars, Test(h)
      PROVE  /\ UNCHANGED pending
             /\ \A g \in Passed' : g \in Passed \/ (call[g].at = "test" /\ ~halted)
  <2>1. \A y \in Threads \ {h} : call'[y] = call[y]
    BY <1>6, LookTouches DEF Touches
  <2>2. ~halted \/ call'[h] = NoCall
    BY <1>0, <1>6, CallEnds DEF Test
  <2>3. ASSUME NEW g \in Passed' PROVE g \in Passed \/ (call[g].at = "test" /\ ~halted)
    <3>1. g \in Bars /\ call'[g].at = "reserve"
      BY DEF Passed
    <3>2. CASE g = h
      BY <1>0, <1>6, <2>2, <3>1, <3>2 DEF Test
    <3>3. CASE g # h
      BY <1>0, <2>1, <3>1, <3>3 DEF Passed
    <3> QED BY <3>2, <3>3
  <2> QED BY <1>6, <2>3 DEF Test, gate
<1>7. ASSUME NEW h \in Bars, Reserve(h)
      PROVE  /\ pending' \subseteq pending \cup {call[g].ticker : g \in Passed}
             /\ Passed' \subseteq Passed
  <2>1. h \in Passed
    BY <1>7 DEF Reserve, Passed
  <2>2. pending' \subseteq pending \cup {call[h].ticker}
    BY <1>7, ReserveTyped
  <2>3. \A g \in Bars : call'[g] = call[g] \/ call'[g].at # "reserve"
    <3>1. call'[h] = NoCall
      BY <1>7, ReserveTyped
    <3>2. \A y \in Threads \ {h} : call'[y] = call[y] \/ call'[y].at = "enter"
      BY <1>7, ReserveTyped
    <3>3. \A g \in Bars \ {h} : call'[g] = call[g] \/ call'[g].at # "reserve"
      BY <1>0, <3>2
    <3> QED BY <1>0, <3>1, <3>3
  <2> QED BY <1>a, <2>1, <2>2, <2>3
<1>8. CASE BarsDone \/ Tick \/ Halt \/ EndOfDay \/ Stop \/ Start
  BY <1>8, <1>a
     DEF BarsDone, Tick, TickHalts, TickFetches, TickSaves, Halt, EndOfDay, Stop, Start, gate
<1>9. CASE Reconcile
  BY <1>9, <1>a DEF Reconcile, Adopted
<1>10. ASSUME NEW t \in Tickers, CloseNext(t)
       PROVE  UNCHANGED pending /\ Passed' \subseteq Passed
  <2>1. \A h \in Bars : call'[h] = call[h]
    BY <1>0, <1>10 DEF CloseNext, Closes, CallsTyped
  <2> QED BY <1>10, <1>a, <2>1 DEF CloseNext, gate
<1>11. CASE Ended \/ Crash
  <2>1. \A h \in Bars : call'[h].at # "reserve"
    BY <1>0, <1>11 DEF Ended, Crash
  <2>2. pending' \subseteq pending
    BY <1>11 DEF Ended, Crash, gate
  <2> QED BY <1>a, <2>1, <2>2
<1>12. CASE UNCHANGED vars
  BY <1>12, <1>a DEF vars, gate
<1>13. pending' \subseteq pending /\ Passed' \subseteq Passed
       => /\ pending' \subseteq pending \cup {call[h].ticker : h \in Passed}
          /\ \A h \in Passed' : h \in Passed \/ (call[h].at = "test" /\ ~halted)
  OBVIOUS
<1> QED BY <1>1, <1>2, <1>3, <1>4, <1>5, <1>6, <1>7, <1>8, <1>9, <1>10, <1>11, <1>12,
           <1>13
        DEF Next, CloseAll, Bar

\* Once the halt is on disk, and the loop has told the engine, no further scan passes
\* its test, and only scans that had passed it reserve their ticker: in the same
\* process because the flag is set, in a new one because no BAR comes before the tick
\* that halts (run_options.py, lifecycle/core.py).
THEOREM HaltedReservesNothing == Spec => NoScanAfterHalt
<1>1. Init => Typed /\ HaltAhead
  BY TypeInit DEF Init, HaltAhead
<1>2. (Typed /\ HaltAhead) /\ [Next]_vars => (Typed /\ HaltAhead)'
  BY TypeNext, HaltAheadNext
<1>3. Typed /\ HaltAhead /\ [Next]_vars
      => [haltFile /\ main.at # "halt" =>
            /\ Passed' \subseteq Passed
            /\ pending' \subseteq pending \cup {call[h].ticker : h \in Passed}]_vars
  <2> SUFFICES ASSUME Typed, HaltAhead, [Next]_vars, haltFile, main.at # "halt"
               PROVE  /\ Passed' \subseteq Passed
                      /\ pending' \subseteq pending \cup {call[h].ticker : h \in Passed}
    OBVIOUS
  <2>1. halted \/ \A h \in Bars : call[h] = NoCall
    BY DEF HaltAhead
  <2>2. \A h \in Passed' : h \in Bars /\ (h \in Passed \/ (call[h].at = "test" /\ ~halted))
    BY OnlyPassedReserve DEF Passed
  <2>3. NoCall.at = "idle"
    BY DEF NoCall
  <2>4. Passed' \subseteq Passed
    BY <2>1, <2>2, <2>3
  <2> QED BY <2>4, OnlyPassedReserve
<1> QED BY <1>1, <1>2, <1>3, PTL DEF Spec, NoScanAfterHalt
------------------------------------------------------------------------------
(* The closing of the day                                                    *)

\* The position of t is waiting for its turn, being sold, sold, or gone.
Left(t) ==
    \/ /\ WorksOn(Loop, t) /\ call[Loop].at = "exit"
       /\ call[Loop].units = tracked[t] /\ account[t] = tracked[t]
    \/ WorksOn(Loop, t) /\ call[Loop].at = "sold" /\ account[t] = 0
    \/ /\ ~WorksOn(Loop, t) /\ account[t] = tracked[t]
       /\ t \notin main.todo => tracked[t] = 0

\* Nobody else is at work on it, but entries that will find the engine halted.
Alone(t) == \A x \in Threads \ {Loop} : WorksOn(x, t) => halted /\ call[x].at = "enter"
OnItsWay(t) == Left(t) /\ Alone(t)

Closable == main.at \in {"close", "over"} => \A t \in Tickers \ excused : OnItsWay(t)
Placed == /\ mode = "down" => main.at = "sync"
          /\ main.at = "over" => main.todo = {} /\ call[Loop] = NoCall
          /\ mode = "stopped" => main.at = "over"
ClosingInv == Closable /\ Placed

LEMMA PlacedNext ==
    ASSUME Typed, Placed, [Next]_vars
    PROVE  Placed'
<1>0. /\ NoCall.at = "idle" /\ Loop \in Closers /\ Loop \notin Bars /\ Loop \notin Entrants
      /\ \A h \in Bars : h \in Closers
      /\ CallsTyped /\ \A x \in Entrants \cup Bars : x \in Threads /\ x # Loop
  BY Kinds DEF NoCall, Typed
<1>1. ASSUME NEW x \in Threads, mode = "running",
             UNCHANGED <<mode, main>>, x # Loop => call'[Loop] = call[Loop],
             x = Loop => call[x] # NoCall
      PROVE  Placed'
  BY <1>1 DEF Placed
<1>2. ASSUME NEW t \in Tickers, NEW x \in Ipcs, Signal(x, t) PROVE Placed'
  <2>1. call'[Loop] = call[Loop]
    BY <1>0, <1>2, BeginsTyped DEF Signal
  <2> QED BY <1>0, <1>1, <1>2, <2>1 DEF Signal, Alive
<1>3. ASSUME NEW x \in Entrants, Entry(x) PROVE Placed'
  <2>1. call'[Loop] = call[Loop] /\ UNCHANGED <<mode, main>>
    BY <1>0, <1>3, EntryTouches DEF Touches
  <2>2. mode = "running"
    BY <1>3 DEF Entry, Enter, Build, AcquireRisk, Execute, Track, Alive
  <2> QED BY <1>0, <1>1, <2>1, <2>2
<1>4. ASSUME NEW t \in Tickers, NEW h \in Bars, BarComes(h, t) PROVE Placed'
  BY <1>4 DEF BarComes, At, Placed
<1>5. ASSUME NEW x \in Closers, Closing(x) PROVE Placed'
  <2>1. /\ UNCHANGED <<mode, main>> /\ call[x] # NoCall
        /\ x # Loop => call'[Loop] = call[Loop]
    BY <1>0, <1>5, ClosingTouches, Kinds DEF Touches
  <2>2. mode = "running"
    BY <1>5 DEF Closing, Sell, Book, Alive
  <2> QED BY <1>1, <2>1, <2>2
<1>6. ASSUME NEW h \in Bars, Decide(h) \/ Test(h) PROVE Placed'
  <2>1. UNCHANGED <<mode, main>> /\ call'[Loop] = call[Loop]
    BY <1>0, <1>6, LookTouches DEF Touches
  <2>2. mode = "running"
    BY <1>6 DEF Decide, Test, Alive
  <2> QED BY <1>0, <1>1, <2>1, <2>2
<1>7. ASSUME NEW h \in Bars, Reserve(h) PROVE Placed'
  <2>1. UNCHANGED <<mode, main>> /\ mode = "running"
    BY <1>7 DEF Reserve, Alive
  <2>2. call'[Loop] = call[Loop]
    BY <1>0, <1>7, ReserveTyped
  <2> QED BY <1>0, <1>1, <2>1, <2>2
<1>8. CASE BarsDone \/ Tick \/ Halt \/ EndOfDay
  BY <1>8
     DEF BarsDone, Tick, TickHalts, TickFetches, TickSaves, Halt, EndOfDay, At, MainTo,
         BeginClosing, Placed
<1>9. CASE Reconcile
  BY <1>9 DEF Reconcile, MainTo, Resumed, Placed
<1>10. ASSUME NEW t \in Tickers, CloseNext(t) PROVE Placed'
  <2>1. main'.at = "close" /\ mode' \in {"starting", "running"}
    BY <1>10 DEF CloseNext, At, Typed, RestTyped
  <2> QED BY <2>1 DEF Placed
<1>11. CASE Stop \/ Ended
  BY <1>0, <1>11 DEF Stop, Ended, At, MainTo, Placed
<1>12. CASE Crash \/ Start
  BY <1>12 DEF Crash, Start, MainTo, Placed
<1>13. CASE UNCHANGED vars
  BY <1>13 DEF vars, Placed
<1> QED BY <1>0, <1>2, <1>3, <1>4, <1>5, <1>6, <1>7, <1>8, <1>9, <1>10, <1>11, <1>12, <1>13
        DEF Next, Bar, CloseAll

\* A step of a thread at work on one ticker leaves every other on its way.
LEMMA Elsewhere ==
    ASSUME Typed, NEW x \in Threads, NEW s, call[x] # NoCall, call[x].ticker = s,
           Touches(x, s), NEW t \in Tickers, t # s, OnItsWay(t)
    PROVE  OnItsWay(t)'
<1>1. /\ UNCHANGED <<main, halted>> /\ account'[t] = account[t] /\ tracked'[t] = tracked[t]
      /\ \A y \in Threads \ {x} : call'[y] = call[y]
      /\ call'[x] = NoCall \/ call'[x].ticker = s
  BY DEF Touches
<1>2. ~WorksOn(x, t) /\ ~WorksOn(x, t)'
  BY <1>1 DEF WorksOn
<1>3. \A y \in Threads : WorksOn(y, t)' <=> WorksOn(y, t)
  BY <1>1, <1>2 DEF WorksOn
<1>4. \A y \in Threads : WorksOn(y, t) => call'[y] = call[y]
  BY <1>1, <1>2
<1>5. Left(t)'
  BY <1>1, <1>3, <1>4 DEF OnItsWay, Left
<1>6. Alone(t)'
  BY <1>1, <1>3, <1>4 DEF OnItsWay, Alone
<1> QED BY <1>5, <1>6 DEF OnItsWay

\* A step that leaves what Left and Alone speak of.
LEMMA StaysOnItsWay ==
    ASSUME NEW t \in Tickers, OnItsWay(t),
           UNCHANGED <<tracked, account, halted>>, main'.todo = main.todo,
           call'[Loop] = call[Loop],
           \A x \in Threads \ {Loop} : \/ call'[x] = call[x] \/ ~WorksOn(x, t)'
    PROVE  OnItsWay(t)'
<1>1. Left(t)'
  BY DEF OnItsWay, Left, WorksOn
<1>2. Alone(t)'
  BY DEF OnItsWay, Alone, WorksOn
<1> QED BY <1>1, <1>2 DEF OnItsWay

LEMMA ClosableNext ==
    ASSUME Typed, ClosingInv, [Next]_vars
    PROVE  Closable'
<1>0. /\ NoCall.at = "idle" /\ Loop \in Closers /\ Loop \notin Bars /\ Loop \notin Entrants
      /\ \A h \in Bars : h \in Closers
      /\ CallsTyped /\ \A x \in Entrants \cup Bars : x \in Threads /\ x # Loop
  BY Kinds DEF NoCall, Typed
<1> SUFFICES ASSUME main'.at \in {"close", "over"}, NEW t \in Tickers, t \notin excused'
             PROVE  OnItsWay(t)'
  BY DEF Closable
<1>a. ASSUME main.at = main'.at, excused \subseteq excused' PROVE OnItsWay(t)
  BY <1>a DEF ClosingInv, Closable
<1>1. ASSUME NEW s \in Tickers, NEW x \in Ipcs, Signal(x, s) PROVE OnItsWay(t)'
  <2>1. /\ UNCHANGED <<main, tracked, account, halted>> /\ excused \subseteq excused'
        /\ x \in Entrants /\ x # Loop /\ main.at # "over"
        /\ \A y \in Threads \ {x} : call'[y] = call[y]
        /\ call'[x].at = "enter" /\ call'[x].ticker = s
    BY <1>0, <1>1, BeginsTyped DEF Signal, engine, positions
  <2>2. OnItsWay(t)
    BY <1>a, <2>1
  <2>3. CASE s # t
    <3>1. ~WorksOn(x, t)'
      BY <2>1, <2>3 DEF WorksOn
    <3> QED BY <1>0, <2>1, <2>2, <3>1, StaysOnItsWay
  <2>4. CASE s = t
    <3>1. halted
      BY <1>1, <2>1, <2>4 DEF Signal
    <3>2. Alone(t)'
      BY <2>1, <2>2, <3>1 DEF OnItsWay, Alone, WorksOn
    <3>3. call'[Loop] = call[Loop]
      BY <1>0, <2>1
    <3>4. Left(t)'
      BY <2>1, <2>2, <3>3 DEF OnItsWay, Left, WorksOn
    <3> QED BY <3>2, <3>4 DEF OnItsWay
  <2> QED BY <2>3, <2>4
<1>2. ASSUME NEW s \in Tickers, NEW h \in Bars, BarComes(h, s) PROVE OnItsWay(t)'
  BY <1>2 DEF BarComes, At
<1>3. ASSUME NEW x \in Entrants, Entry(x) PROVE OnItsWay(t)'
  <2>1. /\ call[x] \in EntryCalls /\ call[x] # NoCall /\ Touches(x, call[x].ticker)
        /\ excused' = excused /\ main' = main
    BY <1>3, EntryTouches, Kinds DEF Touches
  <2>2. OnItsWay(t)
    BY <1>a, <2>1
  <2>3. CASE call[x].ticker # t
    BY <1>0, <2>1, <2>2, <2>3, Elsewhere
  <2>4. CASE call[x].ticker = t
    <3>1. halted /\ call[x].at = "enter"
      BY <1>0, <2>1, <2>2, <2>4 DEF OnItsWay, Alone, WorksOn
    <3>2. Enter(x)
      BY <1>3, <3>1 DEF Entry, Build, AcquireRisk, Execute, Track
    <3>3. Ends(x) /\ UNCHANGED <<main, tracked, account, halted>>
      BY <3>1, <3>2 DEF Enter, GiveUp, KeepRest, engine, positions
    <3>4. call'[x] = NoCall /\ \A y \in Threads \ {x} : call'[y] = call[y]
      BY <1>0, <3>3, CallEnds
    <3>5. ~WorksOn(x, t)'
      BY <3>4 DEF WorksOn
    <3> QED BY <1>0, <2>2, <3>3, <3>4, <3>5, StaysOnItsWay
  <2> QED BY <2>3, <2>4
<1>4. ASSUME NEW h \in Bars, call[h] \in CloseCalls, OnItsWay(t) PROVE call[h].ticker # t
  <2>1. call[h] # NoCall /\ call[h].at # "enter"
    BY <1>4, Kinds DEF CloseCalls
  <2> QED BY <1>0, <1>4, <2>1 DEF OnItsWay, Alone, WorksOn
<1>5. ASSUME NEW h \in Bars, call[h] \in CloseCalls, Touches(h, call[h].ticker),
             excused' = excused
      PROVE  OnItsWay(t)'
  <2>1. main' = main
    BY <1>5 DEF Touches
  <2>2. OnItsWay(t)
    BY <1>a, <1>5, <2>1
  <2>3. call[h].ticker # t /\ call[h] # NoCall
    BY <1>4, <1>5, <2>2, Kinds
  <2> QED BY <1>0, <1>5, <2>2, <2>3, Elsewhere
<1>6. ASSUME NEW h \in Bars, Decide(h) \/ Test(h) PROVE OnItsWay(t)'
  BY <1>5, <1>6, LookTouches DEF history
<1>7. ASSUME NEW h \in Bars, Closing(h) PROVE OnItsWay(t)'
  <2>1. call[h] \in CloseCalls /\ Touches(h, call[h].ticker)
    BY <1>0, <1>7, ClosingTouches
  <2>2. excused' = excused
    BY <1>0, <1>7, SellTouches, BookTouches DEF Closing
  <2> QED BY <1>5, <2>1, <2>2
<1>8. ASSUME NEW h \in Bars, Reserve(h) PROVE OnItsWay(t)'
  <2>1. UNCHANGED <<main, tracked, account, halted, excused>>
    BY <1>8 DEF Reserve, engine, positions, history
  <2>2. OnItsWay(t)
    BY <1>a, <2>1
  <2>3. call[h].ticker # t /\ call'[h] = NoCall
    BY <1>4, <1>8, <2>2, ReserveTyped
  <2>4. \A y \in Threads \ {h} : \/ call'[y] = call[y]
                                 \/ y \in Execs /\ call'[y].ticker = call[h].ticker
    BY <1>8, ReserveTyped
  <2>5. call'[Loop] = call[Loop]
    BY <1>0, <2>4
  <2>6. \A y \in Threads \ {Loop} : call'[y] = call[y] \/ ~WorksOn(y, t)'
    BY <2>3, <2>4 DEF WorksOn
  <2> QED BY <2>1, <2>2, <2>5, <2>6, StaysOnItsWay
<1>9. CASE Sell(Loop)
  <2> DEFINE s == call[Loop].ticker
  <2>1. /\ Touches(Loop, s) /\ excused \subseteq excused' /\ tracked' = tracked
        /\ \/ s \in excused'
           \/ call'[Loop].at = "sold" /\ call'[Loop].ticker = s
              /\ account'[s] = account[s] - call[Loop].units
    BY <1>0, <1>9, SellTouches
  <2>2. call[Loop].at = "exit" /\ call[Loop] # NoCall /\ main' = main
    BY <1>0, <1>9, <2>1 DEF Sell, Touches
  <2>3. OnItsWay(t)
    BY <1>a, <2>1, <2>2
  <2>4. CASE t # s
    BY <1>0, <2>1, <2>2, <2>3, <2>4, Elsewhere
  <2>5. CASE t = s
    <3>1. WorksOn(Loop, t) /\ account[t] = call[Loop].units
      BY <2>2, <2>3, <2>5 DEF OnItsWay, Left, WorksOn
    <3>2. /\ call'[Loop].at = "sold" /\ call'[Loop].ticker = t
          /\ account'[t] = account[t] - call[Loop].units
      BY <2>1, <2>5
    <3>3. account[t] \in Int
      BY DEF Typed, BooksTyped
    <3>4. account'[t] = 0
      BY <3>1, <3>2, <3>3
    <3>5. Left(t)'
      BY <1>0, <3>2, <3>4 DEF Left, WorksOn
    <3>6. /\ \A y \in Threads \ {Loop} : call'[y] = call[y]
          /\ halted' = halted
      BY <2>1 DEF Touches
    <3>7. Alone(t)'
      BY <2>3, <3>6 DEF OnItsWay, Alone, WorksOn
    <3> QED BY <3>5, <3>7 DEF OnItsWay
  <2> QED BY <2>4, <2>5
<1>10. CASE Book(Loop)
  <2> DEFINE s == call[Loop].ticker
  <2>1. /\ Touches(Loop, s) /\ UNCHANGED <<account, excused>>
        /\ tracked'[s] = 0 /\ call'[Loop] = NoCall
    BY <1>0, <1>10, BookTouches
  <2>2. call[Loop].at # "exit" /\ call[Loop] # NoCall /\ main' = main
    BY <1>0, <1>10, <2>1 DEF Book, Touches
  <2>3. OnItsWay(t)
    BY <1>a, <2>1, <2>2
  <2>4. CASE t # s
    BY <1>0, <2>1, <2>2, <2>3, <2>4, Elsewhere
  <2>5. CASE t = s
    <3>1. account[t] = 0
      BY <2>2, <2>3, <2>5 DEF OnItsWay, Left, WorksOn
    <3>2. Left(t)'
      BY <2>1, <2>5, <3>1 DEF Left, WorksOn
    <3>3. /\ \A y \in Threads \ {Loop} : call'[y] = call[y]
          /\ halted' = halted
      BY <2>1 DEF Touches
    <3>4. Alone(t)'
      BY <2>3, <3>3 DEF OnItsWay, Alone, WorksOn
    <3> QED BY <3>2, <3>4 DEF OnItsWay
  <2> QED BY <2>4, <2>5
<1>11. CASE BarsDone \/ Tick \/ Reconcile \/ Crash
  BY <1>11
     DEF BarsDone, Tick, TickHalts, TickFetches, TickSaves, Reconcile, Resumed, Crash, MainTo
<1>12. CASE Halt \/ EndOfDay
  <2>1. BeginClosing /\ UNCHANGED <<call, tracked, account>>
    BY <1>12 DEF Halt, EndOfDay, engine, positions
  <2>2. /\ account[t] = tracked[t] /\ \A x \in Threads : ~WorksOn(x, t)
        /\ main'.todo = Tracked
    BY <2>1 DEF BeginClosing, NotCloseable
  <2>3. Left(t)'
    BY <1>0, <2>1, <2>2 DEF Left, WorksOn, Tracked
  <2>4. Alone(t)'
    BY <2>1, <2>2 DEF Alone, WorksOn
  <2> QED BY <2>3, <2>4 DEF OnItsWay
<1>13. ASSUME NEW s \in Tickers, CloseNext(s) PROVE OnItsWay(t)'
  <2>1. /\ main.at = "close" /\ main'.at = "close" /\ main'.todo = main.todo \ {s}
        /\ call[Loop] = NoCall /\ UNCHANGED <<tracked, account, halted, excused>>
    BY <1>13 DEF CloseNext, At, Typed, RestTyped, engine, positions, history
  <2>2. OnItsWay(t)
    BY <1>a, <2>1
  <2>3. account[t] = tracked[t] /\ (t \notin main.todo => tracked[t] = 0)
    BY <2>1, <2>2 DEF OnItsWay, Left, WorksOn
  <2>4. \A y \in Threads \ {Loop} : call'[y] = call[y]
    BY <1>0, <1>13 DEF CloseNext, Closes, CallsTyped
  <2>5. Alone(t)'
    BY <2>1, <2>2, <2>4 DEF OnItsWay, Alone, WorksOn
  <2>6. IF tracked[s] # 0
        THEN call'[Loop] = [at |-> "exit", ticker |-> s, units |-> tracked[s]]
        ELSE call'[Loop] = NoCall
    BY <1>0, <1>13, <2>1 DEF CloseNext, Closes, CallsTyped
  <2>7. Left(t)'
    <3>1. CASE t = s /\ tracked[s] # 0
      BY <1>0, <2>1, <2>3, <2>6, <3>1 DEF Left, WorksOn
    <3>2. CASE ~(t = s /\ tracked[s] # 0)
      <4>1. ~WorksOn(Loop, t)'
        BY <2>6, <3>2 DEF WorksOn
      <4>2. t \notin main'.todo => tracked'[t] = 0
        BY <2>1, <2>3, <3>2
      <4> QED BY <2>1, <2>3, <4>1, <4>2 DEF Left
    <3> QED BY <3>1, <3>2
  <2> QED BY <2>5, <2>7 DEF OnItsWay
<1>14. CASE Stop
  <2>1. /\ main.at = "close" /\ main.todo = {} /\ main'.todo = {}
        /\ UNCHANGED <<call, tracked, account, halted, excused>>
    BY <1>14 DEF Stop, At, MainTo, engine, positions, history
  <2>2. OnItsWay(t)
    BY <2>1 DEF ClosingInv, Closable
  <2> QED BY <2>1, <2>2, StaysOnItsWay
<1>15. CASE Ended
  <2>1. /\ UNCHANGED <<main, tracked, account, halted, excused>> /\ main.at = "over"
        /\ call' = [x \in Threads |-> NoCall]
    BY <1>15 DEF Ended, At, engine, positions, history
  <2>2. OnItsWay(t) /\ call[Loop] = NoCall
    BY <1>a, <2>1 DEF ClosingInv, Placed
  <2>3. call'[Loop] = NoCall /\ \A x \in Threads : ~WorksOn(x, t)'
    BY <1>0, <2>1 DEF WorksOn
  <2> QED BY <2>1, <2>2, <2>3, StaysOnItsWay
<1>16. CASE Start
  BY <1>16 DEF Start, ClosingInv, Placed
<1>17. CASE UNCHANGED vars
  <2>1. UNCHANGED <<main, call, tracked, account, halted, excused>>
    BY <1>17 DEF vars, engine, positions, history
  <2> QED BY <1>a, <2>1, StaysOnItsWay
<1> QED BY <1>1, <1>2, <1>3, <1>6, <1>7, <1>8, <1>9, <1>10, <1>11, <1>12, <1>13, <1>14,
           <1>15, <1>16, <1>17
        DEF Next, Bar, Closing, CloseAll

\* The process ends a day only with its positions closed, those excepted that the
\* closing found in motion or could not sell (engine.py, run_options.py).
THEOREM EndsFlat == Spec => []StoppedFlat
<1>1. Init => Typed /\ ClosingInv
  <2> SUFFICES ASSUME Init PROVE Typed /\ ClosingInv
    OBVIOUS
  <2>1. main.at = "sync" /\ mode = "down"
    BY DEF Init
  <2> QED BY <2>1, TypeInit DEF ClosingInv, Closable, Placed
<1>2. (Typed /\ ClosingInv) /\ [Next]_vars => (Typed /\ ClosingInv)'
  BY TypeNext, PlacedNext, ClosableNext DEF ClosingInv
<1>3. Typed /\ ClosingInv => StoppedFlat
  <2> SUFFICES ASSUME Typed, ClosingInv, mode = "stopped",
                      NEW t \in Tickers, t \notin excused
               PROVE  account[t] = 0
    BY DEF StoppedFlat
  <2>1. main.at = "over" /\ main.todo = {} /\ call[Loop] = NoCall /\ OnItsWay(t)
    BY DEF ClosingInv, Closable, Placed
  <2>2. ~WorksOn(Loop, t)
    BY <2>1 DEF WorksOn
  <2> QED BY <2>1, <2>2 DEF OnItsWay, Left
<1> QED BY <1>1, <1>2, <1>3, PTL DEF Spec
------------------------------------------------------------------------------
(* The capital                                                               *)

LEMMA FitsNext ==
    ASSUME Typed, RiskFits, SavedFits, [Next]_vars
    PROVE  RiskFits' /\ SavedFits'
<1>0. GateTyped /\ losses \in Nat
  BY DEF Typed, RestTyped
<1>1. ASSUME NEW x, NEW t \in Tickers, Touches(x, t) PROVE RiskFits' /\ SavedFits'
  <2>1. Regives(t) => RiskFits'
    BY <1>0, RegivesFits
  <2>2. UNCHANGED gate \/ UNCHANGED <<risk, deployed>> => RiskFits'
    BY DEF gate, RiskFits
  <2> QED BY <1>1, <2>1, <2>2 DEF Touches, files, SavedFits
<1>2. CASE UNCHANGED <<risk, deployed, saved>>
  BY <1>2 DEF RiskFits, SavedFits
<1>3. CASE UNCHANGED <<risk, deployed, losses>> /\ Save
  <2>1. losses' \in Nat /\ risk' \in [Tickers -> Nat] /\ deployed' \in Nat
    BY <1>0, <1>3 DEF GateTyped
  <2>2. RiskFits'
    BY <1>3 DEF RiskFits
  <2> QED BY <1>3, <2>1, <2>2, Saving
<1>4. ASSUME NEW x \in Entrants, Entry(x) PROVE RiskFits' /\ SavedFits'
  BY <1>1, <1>4, EntryTouches
<1>5. ASSUME NEW x \in Closers, Closing(x) PROVE RiskFits' /\ SavedFits'
  BY <1>1, <1>5, ClosingTouches
<1>6. ASSUME NEW h \in Bars, Decide(h) \/ Test(h) \/ Reserve(h) PROVE RiskFits' /\ SavedFits'
  BY <1>2, <1>6 DEF Decide, Test, Reserve, gate, files
<1>7. ASSUME NEW t \in Tickers,
             \/ \E x \in Ipcs : Signal(x, t)
             \/ \E h \in Bars : BarComes(h, t)
             \/ CloseNext(t)
      PROVE  RiskFits' /\ SavedFits'
  BY <1>2, <1>7 DEF Signal, BarComes, CloseNext, gate, files
<1>8. CASE BarsDone \/ TickHalts \/ TickFetches \/ Halt \/ Ended
  BY <1>2, <1>8 DEF BarsDone, TickHalts, TickFetches, Halt, Ended, gate, files
<1>9. CASE TickSaves \/ EndOfDay \/ Stop
  BY <1>3, <1>9 DEF TickSaves, EndOfDay, Stop, gate, engine
<1>10. CASE Reconcile
  BY <1>10, Reconciling
<1>11. CASE Crash
  <2>1. risk' = [t \in Tickers |-> 0] /\ deployed' = 0 /\ saved' = saved
    BY <1>11 DEF Crash, files
  <2>2. Pairs(risk', Tickers) = {}
    <3>1. ASSUME NEW p \in Pairs(risk', Tickers) PROVE FALSE
      <4>1. p[1] \in Tickers /\ p[2] \in Nat /\ 1 <= p[2] /\ p[2] <= risk'[p[1]]
        BY DEF Pairs
      <4> QED BY <2>1, <4>1
    <3> QED BY <3>1
  <2>3. Total(risk', Tickers) = 0
    BY <2>2, FS_EmptySet DEF Total
  <2> QED BY <2>1, <2>3 DEF RiskFits, SavedFits
<1>12. CASE Start
  <2>1. saved' = saved
    BY <1>12 DEF Start, files
  <2>2. CASE saved = NoState
    BY <1>12, <2>1, <2>2 DEF Start, RiskFits, SavedFits
  <2>3. CASE saved # NoState
    BY <1>12, <2>1, <2>3 DEF Start, RiskFits, SavedFits
  <2> QED BY <2>2, <2>3
<1>13. CASE UNCHANGED vars
  BY <1>2, <1>13 DEF vars, gate, files
<1> QED BY <1>4, <1>5, <1>6, <1>7, <1>8, <1>9, <1>10, <1>11, <1>12, <1>13, Kinds
        DEF Next, Bar, Tick, CloseAll

\* A ticker that has not crossed has one claim on its capital, an order under way or
\* a position, and the gate holds just that.
OneClaim(t) ==
    /\ \A x, y \in InFlight(t) : x = y
    /\ \A x \in InFlight(t) : tracked[t] = 0 /\ risk[t] = call[x].risk
    /\ tracked[t] # 0 => risk[t] = stake[t]
Claims == \A t \in Tickers \ crossed : OneClaim(t)

\* What a new process restores takes nobody's place.
Empty == mode = "down" => /\ \A t \in Tickers : tracked[t] = 0
                          /\ \A x \in Threads : call[x] = NoCall

LEMMA EmptyNext ==
    ASSUME Typed, Empty, [Next]_vars
    PROVE  Empty'
<1>1. CASE Crash
  BY <1>1 DEF Crash, Empty
<1>2. CASE UNCHANGED vars
  BY <1>2 DEF vars, engine, positions, Empty
<1>3. ASSUME Next, ~Crash PROVE mode' # "down"
  <2>1. ASSUME NEW x \in Entrants, Entry(x) PROVE mode' # "down"
    BY <2>1 DEF Entry, Enter, KeepRest, Build, AcquireRisk, Execute, Track, Alive
  <2>2. ASSUME NEW x \in Closers, Closing(x) PROVE mode' # "down"
    BY <2>2 DEF Closing, Sell, Book, Alive
  <2>3. ASSUME NEW h \in Bars, Decide(h) \/ Test(h) \/ Reserve(h) PROVE mode' # "down"
    BY <2>3 DEF Decide, Test, Reserve, Alive
  <2>4. ASSUME NEW t \in Tickers,
               \/ \E x \in Ipcs : Signal(x, t)
               \/ \E h \in Bars : BarComes(h, t)
               \/ CloseNext(t)
        PROVE  mode' # "down"
    BY <2>4 DEF Signal, BarComes, CloseNext, Alive, At
  <2>5. CASE BarsDone \/ Tick \/ Halt \/ EndOfDay \/ Stop \/ Ended
    BY <2>5 DEF BarsDone, Tick, TickHalts, TickFetches, TickSaves, Halt, EndOfDay, Stop,
                Ended, At
  <2>6. CASE Reconcile \/ Start
    BY <2>6 DEF Reconcile, Start
  <2> QED BY <1>3, <2>1, <2>2, <2>3, <2>4, <2>5, <2>6, Kinds DEF Next, Bar, CloseAll
<1> QED BY <1>1, <1>2, <1>3 DEF Empty

\* A step that leaves the claim of t, or takes threads off it.
LEMMA StaysClaimed ==
    ASSUME NEW t \in Tickers, OneClaim(t), tracked'[t] = tracked[t], stake'[t] = stake[t],
           risk'[t] = risk[t],
           \A x \in Entrants : call'[x] = call[x] \/ x \notin InFlight(t)'
    PROVE  OneClaim(t)'
<1>1. \A x \in InFlight(t)' : x \in InFlight(t) /\ call'[x] = call[x]
  BY DEF InFlight
<1> QED BY <1>1 DEF OneClaim

LEMMA ClaimsNext ==
    ASSUME Typed, Empty, Claims, [Next]_vars
    PROVE  Claims'
<1>0. /\ NoCall.at = "idle" /\ CallsTyped
      /\ \A h \in Bars : h \in Closers
      /\ \A x \in Entrants : x \in Threads /\ x \notin Closers
  BY Kinds DEF NoCall, Typed
<1> SUFFICES ASSUME NEW t \in Tickers, t \notin crossed' PROVE OneClaim(t)'
  BY DEF Claims
<1>a. ASSUME crossed \subseteq crossed' PROVE OneClaim(t)
  BY <1>a DEF Claims
<1>b. ASSUME UNCHANGED <<tracked, stake, risk, crossed>>,
             \A x \in Entrants : call'[x] = call[x] \/ x \notin InFlight(t)'
      PROVE  OneClaim(t)'
  BY <1>a, <1>b, StaysClaimed
\* A thread ends its claim, or another one's: what is left is nothing, or a position.
<1>c. ASSUME \A x \in Entrants : x \notin InFlight(t)',
             tracked'[t] = 0 \/ risk'[t] = stake'[t]
      PROVE  OneClaim(t)'
  <2>1. InFlight(t)' = {}
    BY <1>c DEF InFlight
  <2> QED BY <1>c, <2>1 DEF OneClaim
<1>1. ASSUME NEW s \in Tickers, NEW x \in Ipcs, Signal(x, s) PROVE OneClaim(t)'
  <2>1. UNCHANGED <<tracked, stake, risk, crossed>>
    BY <1>1 DEF Signal, gate, engine, positions
  <2>2. /\ \A y \in Threads \ {x} : call'[y] = call[y]
        /\ call'[x].at = "enter"
    BY <1>0, <1>1, BeginsTyped DEF Signal
  <2>3. \A y \in Entrants : call'[y] = call[y] \/ y \notin InFlight(t)'
    BY <2>2 DEF InFlight
  <2> QED BY <1>b, <2>1, <2>3
<1>2. ASSUME NEW s \in Tickers, NEW h \in Bars, BarComes(h, s) PROVE OneClaim(t)'
  <2>1. UNCHANGED <<tracked, stake, risk, crossed>>
    BY <1>2 DEF BarComes, gate, engine, positions, history
  <2>2. \A y \in Entrants : call'[y] = call[y]
    BY <1>0, <1>2, BarTyped
  <2> QED BY <1>b, <2>1, <2>2
<1>3. ASSUME NEW x \in Threads, NEW s, Touches(x, s), s # t, crossed \subseteq crossed'
      PROVE  OneClaim(t)'
  <2>1. /\ tracked'[t] = tracked[t] /\ stake'[t] = stake[t] /\ risk'[t] = risk[t]
        /\ \A y \in Threads \ {x} : call'[y] = call[y]
        /\ call'[x] = NoCall \/ call'[x].ticker = s
    BY <1>3 DEF Touches
  <2>2. \A y \in Entrants : call'[y] = call[y] \/ y \notin InFlight(t)'
    BY <1>0, <1>3, <2>1 DEF InFlight
  <2> QED BY <1>3, <1>a, <2>1, <2>2, StaysClaimed
<1>4. ASSUME NEW x \in Entrants, Entry(x) PROVE OneClaim(t)'
  <2>1. /\ call[x] \in EntryCalls /\ Touches(x, call[x].ticker)
        /\ \A y \in Threads \ {x} : call'[y] = call[y]
    BY <1>4, EntryTouches DEF Touches
  <2>2. crossed \subseteq crossed'
    BY <1>4 DEF Entry, Enter, KeepRest, Build, AcquireRisk, Execute, Track, history
  <2>3. OneClaim(t)
    BY <1>a, <2>2
  <2>4. CASE call[x].ticker # t
    BY <1>0, <1>3, <2>1, <2>2, <2>4
  <2>5. CASE call[x].ticker = t
    <3>1. CASE Enter(x) \/ Build(x)
      <4>1. UNCHANGED <<tracked, stake, risk>>
        BY <3>1 DEF Enter, Build, KeepRest, engine, positions
      <4>2. call'[x].at \in {"build", "acquire"} \/ call'[x] = NoCall
        BY <1>0, <3>1, <2>1, EntryGoes, CallEnds
           DEF Enter, Build, GiveUp, EntryPlaces, CallsTyped, EntryCalls
      <4>3. \A y \in Entrants : call'[y] = call[y] \/ y \notin InFlight(t)'
        BY <1>0, <2>1, <4>2 DEF InFlight
      <4> QED BY <2>3, <4>1, <4>3, StaysClaimed
    <3>2. CASE AcquireRisk(x)
      <4>1. tracked[t] = 0 /\ InFlight(t) = {}
        BY <2>5, <3>2 DEF AcquireRisk
      <4>2. call'[x].risk = call[x].risk /\ call'[x].at = "send"
        BY <1>0, <2>1, <3>2, EntryGoes DEF AcquireRisk, EntryPlaces
      <4>3. risk'[t] = call[x].risk
        BY <2>5, <3>2 DEF AcquireRisk, Acquire, Typed, GateTyped
      <4>4. tracked'[t] = 0
        BY <3>2, <4>1 DEF AcquireRisk, engine, positions
      <4>5. \A y \in InFlight(t)' : y = x
        BY <2>1, <4>1 DEF InFlight
      <4> QED BY <4>2, <4>3, <4>4, <4>5 DEF OneClaim
    <3>3. CASE Execute(x)
      <4>1. x \in InFlight(t) /\ UNCHANGED <<tracked, stake>>
        BY <2>5, <3>3 DEF Execute, InFlight, engine, positions
      <4>2. tracked[t] = 0 /\ risk[t] = call[x].risk /\ \A y \in InFlight(t) : y = x
        BY <2>3, <4>1 DEF OneClaim
      <4>3. CASE Goto(x, "track") /\ UNCHANGED gate
        <5>1. call'[x].risk = call[x].risk /\ risk' = risk
          BY <1>0, <2>1, <4>3, EntryGoes DEF EntryPlaces, gate
        <5>2. \A y \in InFlight(t)' : y = x
          BY <2>1, <4>2 DEF InFlight
        <5> QED BY <4>1, <4>2, <5>1, <5>2 DEF OneClaim
      <4>4. CASE Ends(x)
        <5>1. call'[x] = NoCall
          BY <1>0, <4>4, CallEnds
        <5>2. \A y \in Entrants : y \notin InFlight(t)'
          BY <1>0, <2>1, <4>2, <5>1 DEF InFlight
        <5> QED BY <1>c, <4>1, <4>2, <5>2
      <4> QED BY <3>3, <4>3, <4>4 DEF Execute, GiveUp
    <3>4. CASE Track(x)
      <4>1. x \in InFlight(t)
        BY <2>5, <3>4 DEF Track, InFlight
      <4>2. tracked[t] = 0 /\ risk[t] = call[x].risk /\ \A y \in InFlight(t) : y = x
        BY <2>3, <4>1 DEF OneClaim
      <4>3. call'[x] = NoCall
        BY <1>0, <3>4, CallEnds DEF Track, GiveUp
      <4>4. \A y \in Entrants : y \notin InFlight(t)'
        BY <1>0, <2>1, <4>2, <4>3 DEF InFlight
      <4>5. CASE stake' = [stake EXCEPT ![t] = call[x].risk] /\ UNCHANGED gate
        <5>1. stake'[t] = call[x].risk /\ risk'[t] = risk[t]
          BY <4>5 DEF Typed, BooksTyped, gate
        <5> QED BY <1>c, <4>2, <4>4, <5>1
      <4>6. CASE UNCHANGED positions
        BY <1>c, <4>2, <4>4, <4>6 DEF positions
      <4> QED BY <2>5, <3>4, <4>5, <4>6 DEF Track
    <3> QED BY <1>4, <3>1, <3>2, <3>3, <3>4 DEF Entry
  <2> QED BY <2>4, <2>5
<1>5. ASSUME NEW x \in Closers, Sell(x) PROVE OneClaim(t)'
  <2>1. /\ UNCHANGED <<tracked, stake, risk, crossed>>
        /\ \A y \in Threads \ {x} : call'[y] = call[y]
    BY <1>5, SellTouches DEF Touches
  <2> QED BY <1>0, <1>b, <2>1
<1>6. ASSUME NEW x \in Closers, Book(x) PROVE OneClaim(t)'
  <2>1. /\ Touches(x, call[x].ticker) /\ tracked'[call[x].ticker] = 0
        /\ \A y \in Threads \ {x} : call'[y] = call[y]
    BY <1>6, BookTouches DEF Touches
  <2>2. crossed \subseteq crossed'
    BY <1>6 DEF Book
  <2>3. CASE call[x].ticker # t
    BY <1>3, <2>1, <2>2, <2>3
  <2>4. CASE call[x].ticker = t
    <3>1. InFlight(t) = {}
      BY <1>6, <2>4 DEF Book
    <3>2. \A y \in Entrants : y \notin InFlight(t)'
      BY <1>0, <2>1, <3>1 DEF InFlight
    <3> QED BY <1>c, <2>1, <2>4, <3>2
  <2> QED BY <2>3, <2>4
<1>7. ASSUME NEW h \in Bars, Decide(h) \/ Test(h) PROVE OneClaim(t)'
  <2>1. UNCHANGED <<tracked, stake, risk, crossed>>
    BY <1>7, LookTouches DEF gate, history
  <2>2. \A y \in Threads \ {h} : call'[y] = call[y]
    BY <1>7, LookTouches DEF Touches
  <2> QED BY <1>0, <1>b, <2>1, <2>2
<1>8. ASSUME NEW h \in Bars, Reserve(h) PROVE OneClaim(t)'
  <2>1. UNCHANGED <<tracked, stake, risk, crossed>>
    BY <1>8 DEF Reserve, engine, positions, history
  <2>2. \A y \in Threads \ {h} : call'[y] = call[y] \/ call'[y].at = "enter"
    BY <1>8, ReserveTyped
  <2>3. \A y \in Entrants : call'[y] = call[y] \/ y \notin InFlight(t)'
    BY <1>0, <2>2 DEF InFlight
  <2> QED BY <1>b, <2>1, <2>3
<1>9. CASE BarsDone \/ Tick \/ Halt \/ EndOfDay \/ Stop
  <2>1. UNCHANGED <<call, tracked, stake, risk, crossed>>
    BY <1>9 DEF BarsDone, Tick, TickHalts, TickFetches, TickSaves, Halt, EndOfDay, Stop,
                gate, engine, positions, history
  <2> QED BY <1>b, <2>1
<1>10. CASE Reconcile
  <2>1. crossed \subseteq crossed'
    BY <1>10 DEF Reconcile
  <2>2. OneClaim(t) /\ UNCHANGED call
    BY <1>10, <1>a, <2>1, Reconciling
  <2>3. CASE InFlight(t) = {} /\ tracked'[t] # 0 /\ risk'[t] = stake'[t]
    BY <1>c, <2>2, <2>3 DEF InFlight
  <2>4. CASE tracked[t] # 0 /\ tracked'[t] = 0
    <3>1. InFlight(t) = {}
      BY <2>2, <2>4 DEF OneClaim
    <3> QED BY <1>c, <2>2, <2>4, <3>1 DEF InFlight
  <2>5. CASE tracked'[t] = tracked[t] /\ stake'[t] = stake[t] /\ risk'[t] = risk[t]
    BY <2>2, <2>5, StaysClaimed
  <2> QED BY <1>10, <2>3, <2>4, <2>5, Reconciling
<1>11. ASSUME NEW s \in Tickers, CloseNext(s) PROVE OneClaim(t)'
  <2>1. UNCHANGED <<tracked, stake, risk, crossed>>
    BY <1>11 DEF CloseNext, gate, engine, positions, history
  <2>2. \A y \in Threads \ {Loop} : call'[y] = call[y]
    BY <1>11 DEF CloseNext, Closes, Typed, CallsTyped
  <2> QED BY <1>0, <1>b, <2>1, <2>2
<1>12. CASE Ended
  <2>1. UNCHANGED <<tracked, stake, risk, crossed>> /\ \A x \in Threads : call'[x] = NoCall
    BY <1>12 DEF Ended, gate, engine, positions, history
  <2>2. \A y \in Entrants : y \notin InFlight(t)'
    BY <1>0, <2>1 DEF InFlight
  <2> QED BY <1>b, <2>1, <2>2
<1>13. CASE Crash
  <2>1. tracked'[t] = 0 /\ \A x \in Threads : call'[x] = NoCall
    BY <1>13 DEF Crash
  <2> QED BY <1>0, <1>c, <2>1 DEF InFlight
<1>14. CASE Start
  <2>1. tracked'[t] = 0 /\ \A x \in Threads : call'[x] = NoCall
    BY <1>14 DEF Start, Empty, positions
  <2> QED BY <1>0, <1>c, <2>1 DEF InFlight
<1>15. CASE UNCHANGED vars
  BY <1>b, <1>15 DEF vars, gate, engine, positions, history
<1> QED BY <1>1, <1>2, <1>4, <1>5, <1>6, <1>7, <1>8, <1>9, <1>10, <1>11, <1>12, <1>13,
           <1>14, <1>15, Kinds
        DEF Next, Bar, Closing, CloseAll

\* What the claim on a ticker can lose is what the gate holds for it.
LEMMA ClaimIsRisk ==
    ASSUME Typed, NEW t \in Tickers, OneClaim(t)
    PROVE  ClaimOn(t) \in Nat /\ ClaimOn(t) <= risk[t]
<1> DEFINE F == InFlight(t)
           f == [x \in F |-> call[x].risk]
           of == IF tracked[t] # 0 THEN stake[t] ELSE 0
<1>1. \A x \in F : x \in Entrants /\ call[x].risk \in Nat /\ f[x] = call[x].risk
  BY EntryAt DEF InFlight, Typed, EntryCalls
<1>2. IsFiniteSet(F) /\ Gives(f, F)
  <2>1. F \subseteq Threads
    BY DEF InFlight
  <2> QED BY <1>1, <2>1, OptionsAssumption, FS_Subset DEF Gives
<1>3. SumOf(f, F) = Total(f, F)
  BY <1>2, SumIsTotal
<1>4. of \in Nat /\ risk[t] \in Nat /\ (tracked[t] # 0 => of = risk[t])
  BY DEF Typed, BooksTyped, GateTyped, OneClaim
<1>5. ClaimOn(t) = of + SumOf(f, F)
  BY DEF ClaimOn
<1> HIDE DEF f, of
<1>6. CASE F = {}
  <2>1. SumOf(f, F) = 0
    BY <1>3, <1>6, TotalOfNone
  <2>2. tracked[t] = 0 => of = 0
    BY DEF of
  <2> QED BY <1>4, <1>5, <2>1, <2>2
<1>7. ASSUME NEW x \in F PROVE ClaimOn(t) \in Nat /\ ClaimOn(t) <= risk[t]
  <2>1. F = {x} /\ tracked[t] = 0 /\ risk[t] = call[x].risk
    BY DEF OneClaim
  <2>2. f[x] = risk[t]
    BY <1>1, <2>1
  <2>3. Total(f, {x}) = f[x]
    BY <1>4, <2>2, OneColumn
  <2>4. SumOf(f, F) = risk[t] /\ of = 0
    BY <1>3, <2>1, <2>2, <2>3 DEF of
  <2> QED BY <1>4, <1>5, <2>4
<1> QED BY <1>6, <1>7

LEMMA CapitalOfClaims ==
    ASSUME Typed, RiskFits, Claims
    PROVE  CapitalCounted
<1> DEFINE T == Tickers \ crossed
<1>1. T \subseteq Tickers /\ IsFiniteSet(T) /\ IsFiniteSet(Tickers)
  BY OptionsAssumption, FS_Subset
<1>2. Gives(risk, Tickers) /\ Gives(risk, T) /\ deployed \in Nat
  BY DEF Typed, GateTyped, Gives
<1>3. \A t \in T : Claim[t] \in Nat /\ Claim[t] <= risk[t]
  BY ClaimIsRisk DEF Claims, Claim
<1> HIDE DEF T
<1>4. Gives(Claim, T)
  BY <1>3 DEF Gives
<1>5. SumOf(Claim, T) = Total(Claim, T) /\ Total(Claim, T) \in Nat
  BY <1>1, <1>4, SumIsTotal, PairsFinite
<1>6. Total(Claim, T) <= Total(risk, T)
  BY <1>1, <1>2, <1>3, <1>4, TotalGrows
<1>7. Total(risk, T) <= Total(risk, Tickers)
  BY <1>1, <1>2, TotalOfMore
<1>8. Total(risk, T) \in Nat /\ Total(risk, Tickers) \in Nat
  BY <1>1, <1>2, PairsFinite
<1>9. Total(risk, Tickers) <= deployed
  BY DEF RiskFits
<1>10. SumOf(Claim, T) <= deployed
  BY <1>2, <1>5, <1>6, <1>7, <1>8, <1>9
<1> QED BY <1>10 DEF CapitalCounted, T

\* The deployed capital covers what every ticker that has not crossed can lose,
\* whatever the spreads risk and however entries, closes, adoptions and restores
\* interleave (options/risk.py, options/engine.py, lifecycle).
THEOREM CapitalIsCounted == Spec => []CapitalCounted
<1> DEFINE Inv == Typed /\ RiskFits /\ SavedFits /\ Empty /\ Claims
<1>1. Init => Inv
  <2> SUFFICES ASSUME Init PROVE Inv
    OBVIOUS
  <2>1. Typed
    BY TypeInit
  <2>2. /\ \A t \in Tickers : tracked[t] = 0 /\ risk[t] = 0
        /\ \A x \in Threads : call[x] = NoCall
        /\ deployed = 0 /\ saved = NoState
    BY DEF Init
  <2>3. Pairs(risk, Tickers) = {}
    <3>1. ASSUME NEW p \in Pairs(risk, Tickers) PROVE FALSE
      <4>1. p[1] \in Tickers /\ p[2] \in Nat /\ 1 <= p[2] /\ p[2] <= risk[p[1]]
        BY DEF Pairs
      <4> QED BY <2>2, <4>1
    <3> QED BY <3>1
  <2>4. RiskFits /\ SavedFits
    BY <2>2, <2>3, FS_EmptySet DEF Total, RiskFits, SavedFits
  <2>5. \A t \in Tickers : InFlight(t) = {}
    BY <2>2 DEF InFlight, NoCall
  <2>6. Claims
    BY <2>2, <2>5 DEF Claims, OneClaim
  <2> QED BY <2>1, <2>2, <2>4, <2>6 DEF Empty
<1>2. Inv /\ [Next]_vars => Inv'
  BY TypeNext, FitsNext, EmptyNext, ClaimsNext
<1>3. Inv => CapitalCounted
  BY CapitalOfClaims
<1> QED BY <1>1, <1>2, <1>3, PTL DEF Spec
=============================================================================
