------------------------ MODULE StrategyEngineProofs ------------------------
(***************************************************************************)
(* What holds of the exits of a position (StrategyEngine, ExitEngine) for    *)
(* every profile, every price the feed shows, any number of holdings, any    *)
(* length of the SIGNAL lane and any number of faults: the types, that a     *)
(* holding is halved once, and that stops and lifecycles only ratchet.       *)
(***************************************************************************)
EXTENDS StrategyEngine, SequenceTheorems, WellFoundedInduction, TLAPS

-----------------------------------------------------------------------------
(* Types                                                                      *)

Lifecycles ==
    [phase : Phases, age : Nat, phaseAge : Nat, entry : Nat, high : Nat, stop : Int,
     trail : Int, below : Nat, R : Nat, key : Int, structure : Int, low : Nat,
     rising : BOOLEAN, lows : Seq(Nat)]
KeptStates ==
    [phase : Phases, age : Nat, high : Nat, trail : Int, below : Nat, low : Nat,
     rising : BOOLEAN, lows : Seq(Nat)]
Positions ==
    [entry : Nat, stop : Int, qty : Nat, halved : BOOLEAN, kept : {None} \cup KeptStates,
     rsi : Nat, vwap : Nat, imported : BOOLEAN]
Inputs ==
    [high : Nat, low : Nat, close : Nat, quote : BOOLEAN, rsi : Nat, vwap : Nat,
     strong : BOOLEAN]
\* Only a stop is handed on with a price.
Decisions ==
    {d \in [act : {"HOLD", "TIGHTEN", "EXIT", "PARTIAL"}, stop : Int] :
        d.act \in {"EXIT", "PARTIAL"} => d.stop = 0}

\* A trail that is raised, or left.
Raised(lc, l) ==
    /\ l \in Lifecycles /\ l.trail >= lc.trail
    /\ l.phase = lc.phase /\ l.entry = lc.entry

\* A lifecycle begins with its trail at the stop.
Begins(l, entry, stop) == l \in Lifecycles /\ l.entry = entry /\ l.trail = stop

\* What the body of a phase makes of a lifecycle and what it decides.
Moves(phase, lc, in, o) ==
    /\ o.lc \in Lifecycles /\ o.d \in Decisions
    /\ o.lc.entry = lc.entry
    /\ o.lc.phase \in {lc.phase, phase + 1}
    /\ phase = 0 => /\ o.lc.trail = lc.trail /\ o.d.act \in {"HOLD", "EXIT"}
                    /\ in.quote => o.lc = lc
    /\ phase = 1 => /\ \/ o.lc.trail = lc.trail
                       \/ o.lc.phase = 2 /\ o.lc.trail = lc.entry
                    /\ o.d.act \in {"HOLD", "TIGHTEN"}
                    /\ o.d.act = "TIGHTEN" => o.d.stop = lc.entry
    /\ phase >= 2 => o.lc.trail >= lc.trail /\ o.d.act # "TIGHTEN"
    /\ o.d.act = "PARTIAL" => phase = 2 /\ o.lc.phase = 3

-----------------------------------------------------------------------------
(* The operators of the exit engine                                           *)

(* What ExitAssumption says of the profile, field by field.                    *)
LEMMA ProfileTyped ==
    /\ Profile.phase1Bars \in Nat /\ Profile.breakeven \in Nat /\ Profile.cushion \in Nat
    /\ Profile.deadBars \in Nat /\ Profile.deadRange \in Nat /\ Profile.rsi2 \in Nat
    /\ Profile.rsi3 \in Nat /\ Profile.vwapWidth \in Nat /\ Profile.partial \in Nat
    /\ Profile.width \in Nat /\ Profile.rsiLimit \in Nat /\ Profile.vwapBars \in Nat
    /\ Profile.maxHold \in Nat
    /\ Profile.impulse \in BOOLEAN /\ Profile.vwapThesis \in BOOLEAN
    /\ Profile.rsiTighten \in BOOLEAN /\ Profile.vwapExit \in BOOLEAN
    /\ Profile.thesis \in {"key", "invalidation", "low", "momentum"}
    /\ Window \in Nat /\ SwingBars \in Nat \ {0} /\ MaxAge \in Nat
BY ExitAssumption DEF Numbers, Switches

(* The greatest and the least of two numbers.                                  *)
LEMMA MaxOfTwo ==
    ASSUME NEW a \in Int, NEW b \in Int
    PROVE  /\ Max({a, b}) = IF a >= b THEN a ELSE b
           /\ Max({a, b}) \in {a, b} /\ Max({a, b}) >= a /\ Max({a, b}) >= b
<1> DEFINE m == IF a >= b THEN a ELSE b
<1>1. m \in {a, b} /\ \A y \in {a, b} : m >= y
  OBVIOUS
<1>2. \A x \in {a, b} : (\A y \in {a, b} : x >= y) => x = m
  OBVIOUS
<1>3. Max({a, b}) = m
  BY <1>1, <1>2 DEF Max
<1> QED BY <1>1, <1>3

LEMMA MinOfTwo ==
    ASSUME NEW a \in Int, NEW b \in Int
    PROVE  /\ Min({a, b}) = IF a <= b THEN a ELSE b
           /\ Min({a, b}) \in {a, b} /\ Min({a, b}) <= a /\ Min({a, b}) <= b
<1> DEFINE m == IF a <= b THEN a ELSE b
<1>1. m \in {a, b} /\ \A y \in {a, b} : m <= y
  OBVIOUS
<1>2. \A x \in {a, b} : (\A y \in {a, b} : x <= y) => x = m
  OBVIOUS
<1>3. Min({a, b}) = m
  BY <1>1, <1>2 DEF Min
<1> QED BY <1>1, <1>3

LEMMA GreaterNat ==
    ASSUME NEW a \in Nat, NEW b \in Nat
    PROVE  Max({a, b}) \in Nat
<1>1. a \in Int /\ b \in Int
  OBVIOUS
<1> QED BY <1>1, MaxOfTwo

LEMMA LesserNat ==
    ASSUME NEW a \in Nat, NEW b \in Nat
    PROVE  Min({a, b}) \in Nat
<1>1. a \in Int /\ b \in Int
  OBVIOUS
<1> QED BY <1>1, MinOfTwo

(* Among four numbers any set has a greatest and a least one.                  *)
HasMax(S) == S = {} \/ \E x \in S : \A y \in S : x >= y
HasMin(S) == S = {} \/ \E x \in S : \A y \in S : x <= y

LEMMA OneMore ==
    ASSUME NEW S \in SUBSET Int, NEW a \in Int, NEW T \in SUBSET {a}
    PROVE  /\ HasMax(S) => HasMax(S \cup T)
           /\ HasMin(S) => HasMin(S \cup T)
<1>1. CASE T = {}
  <2>1. S \cup T = S
    BY <1>1
  <2> QED BY <2>1
<1>2. CASE T = {a} /\ S = {}
  BY <1>2 DEF HasMax, HasMin
<1>3. CASE T = {a} /\ S # {}
  <2>1. ASSUME HasMax(S) PROVE HasMax(S \cup T)
    <3>1. PICK x \in S : \A y \in S : x >= y
      BY <1>3, <2>1 DEF HasMax
    <3>2. CASE a >= x
      BY <1>3, <3>1, <3>2 DEF HasMax
    <3>3. CASE x >= a
      BY <1>3, <3>1, <3>3 DEF HasMax
    <3> QED BY <3>1, <3>2, <3>3
  <2>2. ASSUME HasMin(S) PROVE HasMin(S \cup T)
    <3>1. PICK x \in S : \A y \in S : x <= y
      BY <1>3, <2>2 DEF HasMin
    <3>2. CASE a <= x
      BY <1>3, <3>1, <3>2 DEF HasMin
    <3>3. CASE x <= a
      BY <1>3, <3>1, <3>3 DEF HasMin
    <3> QED BY <3>1, <3>2, <3>3
  <2> QED BY <2>1, <2>2
<1> QED BY <1>1, <1>2, <1>3

LEMMA OfFew ==
    ASSUME NEW a \in Int, NEW b \in Int, NEW c \in Int, NEW d \in Int,
           NEW S \in SUBSET {a, b, c, d}, S # {}
    PROVE  /\ Max(S) \in S /\ \A y \in S : Max(S) >= y
           /\ Min(S) \in S /\ \A y \in S : Min(S) <= y
<1> DEFINE A == S \cap {a}
           B == A \cup (S \cap {b})
           C == B \cup (S \cap {c})
<1>1. S = C \cup (S \cap {d})
  OBVIOUS
<1>2. A \in SUBSET Int /\ B \in SUBSET Int /\ C \in SUBSET Int
  OBVIOUS
<1>3. HasMax({} \cup A) /\ HasMin({} \cup A)
  BY OneMore DEF HasMax, HasMin
<1>4. {} \cup A = A
  OBVIOUS
<1> HIDE DEF A
<1>5. HasMax(B) /\ HasMin(B)
  BY <1>2, <1>3, <1>4, OneMore
<1> HIDE DEF B
<1>6. HasMax(C) /\ HasMin(C)
  BY <1>2, <1>5, OneMore
<1> HIDE DEF C
<1>7. HasMax(S) /\ HasMin(S)
  BY <1>1, <1>2, <1>6, OneMore
<1> QED BY <1>7 DEF HasMax, HasMin, Max, Min

(* The least of the prices of a sequence is a price.                           *)
LEMMA LeastPrice ==
    ASSUME NEW s \in Seq(Nat), s # <<>>
    PROVE  Min({s[i] : i \in DOMAIN s}) \in Nat
<1> DEFINE S == {s[i] : i \in DOMAIN s}
<1>1. S \in SUBSET Nat
  BY ElementOfSeq
<1>2. 1 \in DOMAIN s
  BY EmptySeq
<1>3. S # {}
  BY <1>2
<1> DEFINE L == OpToRel(<, Nat)
<1>4. PICK x \in S : \A y \in S : <<y, x>> \notin L
  <2> HIDE DEF L, S
  <2>1. IsWellFoundedOn(L, Nat)
    BY NatLessThanWellFounded DEF L
  <2> QED BY <1>1, <1>3, <2>1, WFMin
<1>5. \A y \in S : x <= y
  <2> HIDE DEF S
  <2> SUFFICES ASSUME NEW y \in S, y < x PROVE FALSE
    BY <1>1
  <2>1. <<y, x>> \in L
    BY <1>1 DEF OpToRel
  <2> QED BY <1>4, <2>1
<1> HIDE DEF S
<1>6. Min(S) \in S
  BY <1>4, <1>5 DEF Min
<1> QED BY <1>1, <1>6 DEF S

LEMMA OfTyped ==
    ASSUME NEW lc \in Lifecycles, NEW share \in Int
    PROVE  Of(lc, share) \in Int
<1>1. lc.R \in Int
  BY DEF Lifecycles
<1>2. lc.R * share \in Int
  BY <1>1
<1> QED BY <1>2 DEF Of

(* However many floors there are, up to three, the trail is raised or left.     *)
LEMMA RaiseRaises ==
    ASSUME NEW lc \in Lifecycles, NEW a \in Int, NEW b \in Int, NEW c \in Int,
           NEW floors \in SUBSET {a, b, c}
    PROVE  Raised(lc, Raise(lc, floors))
<1> DEFINE S == floors \cup {lc.trail}
           v == Max(S)
<1>1. lc.trail \in Int
  BY DEF Lifecycles
<1>2. S \in SUBSET {a, b, c, lc.trail} /\ S # {} /\ lc.trail \in S
  OBVIOUS
<1> HIDE DEF S
<1>3. v \in S /\ v >= lc.trail
  BY <1>1, <1>2, OfFew
<1>4. v \in Int
  BY <1>1, <1>2, <1>3
<1>5. Raise(lc, floors) = [lc EXCEPT !.trail = v]
  BY DEF Raise, S
<1> HIDE DEF v
<1> QED BY <1>3, <1>4, <1>5 DEF Raised, Lifecycles

(* What the body of a phase may touch beside the trail.                        *)
LEMMA BelowTyped ==
    ASSUME NEW lc \in Lifecycles, NEW in \in Inputs
    PROVE  Below(lc, in) \in Nat
<1>1. lc.below \in Nat /\ in.vwap \in Nat /\ in.close \in Nat
  BY DEF Lifecycles, Inputs
<1>2. Min({lc.below + 1, Profile.vwapBars}) \in Nat
  <2>1. lc.below + 1 \in Nat /\ Profile.vwapBars \in Nat
    BY <1>1, ProfileTyped
  <2> QED BY <2>1, LesserNat
<1> QED BY <1>1, <1>2 DEF Below

(* A position that is seen gets older, and its high higher.                    *)
LEMMA SeenTyped ==
    ASSUME NEW lc \in Lifecycles, NEW in \in Inputs
    PROVE  /\ Seen(lc, in) \in Lifecycles
           /\ Seen(lc, in).phase = lc.phase /\ Seen(lc, in).trail = lc.trail
           /\ Seen(lc, in).entry = lc.entry
<1>1. /\ lc.high \in Nat /\ in.high \in Nat /\ lc.age \in Nat /\ lc.phaseAge \in Nat
      /\ in.quote \in BOOLEAN
  BY DEF Lifecycles, Inputs
<1> DEFINE h == Max({lc.high, in.high})
           l == [lc EXCEPT !.high = h]
<1>2. h \in Nat
  BY <1>1, GreaterNat
<1> HIDE DEF h
<1>3. l \in Lifecycles /\ l.phase = lc.phase /\ l.trail = lc.trail /\ l.entry = lc.entry
      /\ l.age = lc.age /\ l.phaseAge = lc.phaseAge
  BY <1>2 DEF Lifecycles
<1>4. Older(lc.age) \in Nat /\ Older(lc.phaseAge) \in Nat
  <2>1. lc.age + 1 \in Nat /\ lc.phaseAge + 1 \in Nat /\ MaxAge \in Nat
    BY <1>1, ProfileTyped
  <2> QED BY <2>1, LesserNat DEF Older
<1>5. Seen(lc, in) = IF in.quote THEN l
                     ELSE [l EXCEPT !.age = Older(lc.age), !.phaseAge = Older(lc.phaseAge)]
  BY <1>3 DEF Seen, h
<1> HIDE DEF l
<1> QED BY <1>3, <1>4, <1>5 DEF Lifecycles

LEMMA DecisionsTyped ==
    ASSUME NEW price \in Int
    PROVE  /\ Hold \in Decisions /\ Exit \in Decisions /\ Partial \in Decisions
           /\ HoldAt(price) \in Decisions /\ Tighten(price) \in Decisions
           /\ Hold.act = "HOLD" /\ Exit.act = "EXIT" /\ Partial.act = "PARTIAL"
           /\ HoldAt(price).act = "HOLD"
           /\ Tighten(price).act = "TIGHTEN" /\ Tighten(price).stop = price
BY DEF Decisions, Hold, Exit, Partial, HoldAt, Tighten

(* Only one decision halves the position.                                      *)
LEMMA OnePartial ==
    ASSUME NEW d \in Decisions
    PROVE  d = Partial <=> d.act = "PARTIAL"
BY DEF Decisions, Partial

LEMMA AdvanceTyped ==
    ASSUME NEW lc \in Lifecycles, NEW phase \in Phases
    PROVE  /\ Advance(lc, phase) \in Lifecycles
           /\ Advance(lc, phase).phase = phase
           /\ Advance(lc, phase).trail = lc.trail
           /\ Advance(lc, phase).entry = lc.entry
BY DEF Advance, Lifecycles

LEMMA Phase0Moves ==
    ASSUME NEW lc \in Lifecycles, NEW in \in Inputs
    PROVE  Moves(0, lc, in, Phase0(lc, in))
<1>1. Advance(lc, 1) \in Lifecycles /\ Advance(lc, 1).phase = 1
      /\ Advance(lc, 1).trail = lc.trail /\ Advance(lc, 1).entry = lc.entry
  BY AdvanceTyped DEF Phases
<1>2. Hold \in Decisions /\ Exit \in Decisions /\ Hold.act = "HOLD" /\ Exit.act = "EXIT"
  BY DecisionsTyped
<1> QED BY <1>1, <1>2 DEF Moves, Phase0, Outcome

LEMMA Phase1Moves ==
    ASSUME NEW lc \in Lifecycles, NEW in \in Inputs
    PROVE  Moves(1, lc, in, Phase1(lc, in))
<1> DEFINE l == IF in.quote THEN lc
                ELSE [lc EXCEPT !.low = in.low, !.rising = lc.low > 0 /\ in.low > lc.low]
           raised == [Advance(lc, 2) EXCEPT !.trail = lc.entry]
<1>1. in.low \in Nat /\ (lc.low > 0 /\ in.low > lc.low) \in BOOLEAN
  BY DEF Inputs
<1>2. l \in Lifecycles /\ l.phase = lc.phase /\ l.trail = lc.trail /\ l.entry = lc.entry
  BY <1>1 DEF Lifecycles
<1>3. raised \in Lifecycles /\ raised.phase = 2 /\ raised.trail = lc.entry
      /\ raised.entry = lc.entry
  <2> DEFINE a == Advance(lc, 2)
  <2>1. a \in Lifecycles /\ a.phase = 2 /\ a.entry = lc.entry
    BY AdvanceTyped DEF Phases
  <2> HIDE DEF a
  <2>2. lc.entry \in Int
    BY DEF Lifecycles
  <2>3. [a EXCEPT !.trail = lc.entry] \in Lifecycles
    BY <2>1, <2>2 DEF Lifecycles
  <2> QED BY <2>1, <2>3 DEF a, Lifecycles
<1>4. Phase1(lc, in) \in {Outcome(raised, Tighten(lc.entry)), Outcome(Advance(l, 2), Hold),
                          Outcome(l, Hold)}
  BY DEF Phase1
<1> HIDE DEF l, raised
<1>5. Advance(l, 2) \in Lifecycles /\ Advance(l, 2).phase = 2
      /\ Advance(l, 2).trail = lc.trail /\ Advance(l, 2).entry = lc.entry
  BY <1>2, AdvanceTyped DEF Phases
<1>6. /\ Hold \in Decisions /\ Hold.act = "HOLD" /\ lc.entry \in Int
      /\ Tighten(lc.entry) \in Decisions /\ Tighten(lc.entry).act = "TIGHTEN"
      /\ Tighten(lc.entry).stop = lc.entry
  <2>1. lc.entry \in Int
    BY DEF Lifecycles
  <2> QED BY <2>1, DecisionsTyped
<1>7. CASE Phase1(lc, in) = Outcome(raised, Tighten(lc.entry))
  BY <1>3, <1>6, <1>7 DEF Moves, Outcome
<1>8. CASE Phase1(lc, in) = Outcome(Advance(l, 2), Hold)
  BY <1>5, <1>6, <1>8 DEF Moves, Outcome
<1>9. CASE Phase1(lc, in) = Outcome(l, Hold)
  BY <1>2, <1>6, <1>9 DEF Moves, Outcome
<1> QED BY <1>4, <1>7, <1>8, <1>9

(* What the later phases do with a trail that is raised: hold it, exit, or go   *)
(* on to the next phase.                                                      *)
LEMMA RaisedMoves ==
    ASSUME NEW lc \in Lifecycles, NEW in, NEW t, Raised(lc, t), NEW phase \in 2..4
    PROVE  /\ Moves(phase, lc, in, Outcome(t, Exit))
           /\ Moves(phase, lc, in, Outcome(t, HoldAt(t.trail)))
           /\ phase = 2 => Moves(phase, lc, in, Outcome(Advance(t, 3), Partial))
           /\ phase = 3 => Moves(phase, lc, in, Outcome(Advance(t, 4), HoldAt(t.trail)))
<1>1. /\ t \in Lifecycles /\ t.trail >= lc.trail /\ t.phase = lc.phase
      /\ t.entry = lc.entry /\ t.trail \in Int
  BY DEF Raised, Lifecycles
<1>2. /\ HoldAt(t.trail) \in Decisions /\ HoldAt(t.trail).act = "HOLD"
      /\ Exit \in Decisions /\ Exit.act = "EXIT"
      /\ Partial \in Decisions /\ Partial.act = "PARTIAL"
  BY <1>1, DecisionsTyped
<1>3. \A p \in {3, 4} :
        /\ Advance(t, p) \in Lifecycles /\ Advance(t, p).phase = p
        /\ Advance(t, p).trail = t.trail /\ Advance(t, p).entry = t.entry
  BY <1>1, AdvanceTyped DEF Phases
<1>4. Moves(phase, lc, in, Outcome(t, Exit))
  BY <1>1, <1>2 DEF Moves, Outcome
<1>5. Moves(phase, lc, in, Outcome(t, HoldAt(t.trail)))
  BY <1>1, <1>2 DEF Moves, Outcome
<1>6. ASSUME phase = 2 PROVE Moves(phase, lc, in, Outcome(Advance(t, 3), Partial))
  BY <1>1, <1>2, <1>3, <1>6 DEF Moves, Outcome
<1>7. ASSUME phase = 3 PROVE Moves(phase, lc, in, Outcome(Advance(t, 4), HoldAt(t.trail)))
  BY <1>1, <1>2, <1>3, <1>7 DEF Moves, Outcome
<1> QED BY <1>4, <1>5, <1>6, <1>7

LEMMA Phase2Moves ==
    ASSUME NEW lc \in Lifecycles, NEW in \in Inputs
    PROVE  Moves(2, lc, in, Phase2(lc, in))
<1> DEFINE tightened == Broken(lc, in) /\ ~Profile.vwapThesis
           a == lc.entry - Of(lc, Profile.cushion)
           b == lc.high - Of(lc, Profile.rsi2)
           c == in.close - Of(lc, Profile.vwapWidth)
           floors == Given(Reached(lc, in.close, Profile.breakeven), a)
                       \cup Given(Profile.rsiTighten /\ in.rsi > Profile.rsiLimit, b)
                       \cup Given(tightened, c)
           r == Raise(lc, floors)
           t == [r EXCEPT !.below = IF tightened THEN 0 ELSE Below(lc, in)]
<1>1. a \in Int /\ b \in Int /\ c \in Int
  <2>1. lc.entry \in Int /\ lc.high \in Int /\ in.close \in Int
    BY DEF Lifecycles, Inputs
  <2>2. /\ Of(lc, Profile.cushion) \in Int /\ Of(lc, Profile.rsi2) \in Int
        /\ Of(lc, Profile.vwapWidth) \in Int
    BY OfTyped, ProfileTyped
  <2> QED BY <2>1, <2>2
<1>2. floors \in SUBSET {a, b, c}
  BY DEF Given
<1>3. Raised(lc, r)
  <2> HIDE DEF a, b, c, floors
  <2> QED BY <1>1, <1>2, RaiseRaises
<1>4. Raised(lc, t)
  <2>1. (IF tightened THEN 0 ELSE Below(lc, in)) \in Nat
    BY BelowTyped
  <2> HIDE DEF r, tightened
  <2> QED BY <1>3, <2>1 DEF Raised, Lifecycles
<1>5. Phase2(lc, in) \in {Outcome(t, Exit), Outcome(Advance(t, 3), Partial),
                          Outcome(t, HoldAt(t.trail))}
  BY DEF Phase2
<1> HIDE DEF t
<1>6. /\ Moves(2, lc, in, Outcome(t, Exit))
      /\ Moves(2, lc, in, Outcome(t, HoldAt(t.trail)))
      /\ Moves(2, lc, in, Outcome(Advance(t, 3), Partial))
  BY <1>4, RaisedMoves
<1> QED BY <1>5, <1>6

LEMMA WidestTyped == Max({70, Profile.width}) \in Int
<1>1. 70 \in Nat /\ Profile.width \in Nat
  BY ProfileTyped
<1>2. Max({70, Profile.width}) \in Nat
  BY <1>1, GreaterNat
<1> QED BY <1>2

LEMMA Phase3Moves ==
    ASSUME NEW lc \in Lifecycles, NEW in \in Inputs
    PROVE  Moves(3, lc, in, Phase3(lc, in))
<1> DEFINE rsi == IF in.rsi > 75 THEN Profile.rsi3 ELSE Profile.rsi3 + 10
           a == lc.high - Of(lc, Width3)
           b == lc.structure
           c == lc.high - Of(lc, rsi)
           tight == Profile.rsiTighten /\ in.rsi > Min({75, Profile.rsiLimit})
           floors == {a, b} \cup Given(tight, c)
           r == Raise(lc, floors)
           t == [r EXCEPT !.below = Below(lc, in)]
<1>1. a \in Int /\ b \in Int /\ c \in Int
  <2>1. lc.high \in Int /\ lc.structure \in Int
    BY DEF Lifecycles
  <2>2. Width3 \in Int
    BY ProfileTyped, WidestTyped DEF Width3
  <2>3. rsi \in Int
    BY ProfileTyped
  <2> HIDE DEF rsi
  <2>4. Of(lc, Width3) \in Int /\ Of(lc, rsi) \in Int
    BY <2>2, <2>3, OfTyped
  <2> QED BY <2>1, <2>4
<1>2. floors \in SUBSET {a, b, c}
  BY DEF Given
<1>3. Raised(lc, r)
  <2> HIDE DEF a, b, c, floors
  <2> QED BY <1>1, <1>2, RaiseRaises
<1>4. Raised(lc, t)
  <2>1. Below(lc, in) \in Nat
    BY BelowTyped
  <2> HIDE DEF r
  <2> QED BY <1>3, <2>1 DEF Raised, Lifecycles
<1>5. Phase3(lc, in) \in {Outcome(t, Exit), Outcome(Advance(t, 4), HoldAt(t.trail)),
                          Outcome(t, HoldAt(t.trail))}
  BY DEF Phase3
<1> HIDE DEF t
<1>6. /\ Moves(3, lc, in, Outcome(t, Exit))
      /\ Moves(3, lc, in, Outcome(t, HoldAt(t.trail)))
      /\ Moves(3, lc, in, Outcome(Advance(t, 4), HoldAt(t.trail)))
  BY <1>4, RaisedMoves
<1> QED BY <1>5, <1>6

(* The closes a runner remembers are the latest, at most SwingBars of them.     *)
LEMMA LowsTyped ==
    ASSUME NEW s \in Seq(Nat)
    PROVE  LastOf(s, SwingBars) \in Seq(Nat)
<1> DEFINE n == Len(s) - SwingBars + 1
           from == Max({1, n})
<1>1. Len(s) \in Nat /\ SwingBars \in Nat \ {0}
  BY ProfileTyped, LenProperties
<1>2. 1 \in Int /\ n \in Int
  BY <1>1
<1> HIDE DEF n
<1>3. from >= 1 /\ from \in Int
  BY <1>2, MaxOfTwo
<1> HIDE DEF from
<1>4. SubSeq(s, from, Len(s)) \in Seq(Nat)
  BY <1>1, <1>3, SubSeqProperties
<1> QED BY <1>4 DEF LastOf, from, n

LEMMA Phase4Moves ==
    ASSUME NEW lc \in Lifecycles, NEW in \in Inputs
    PROVE  Moves(4, lc, in, Phase4(lc, in))
<1> DEFINE lows == IF in.quote THEN lc.lows ELSE LastOf(Append(lc.lows, in.close), SwingBars)
           swing == IF lows = <<>> THEN in.close ELSE Min({lows[i] : i \in DOMAIN lows})
           b == lc.high - Of(lc, Max({70, Profile.width}))
           candidates == {swing, b} \cup Given(in.vwap > swing, in.vwap)
                           \cup Given(lc.structure > 0, lc.structure)
           widest == Min(candidates)
           c == lc.high - Of(lc, 50)
           tight == Profile.impulse /\ in.rsi > 80
           floors == {widest} \cup Given(tight, c)
           r == Raise(lc, floors)
           t == [r EXCEPT !.lows = lows]
<1>1. /\ lc.lows \in Seq(Nat) /\ lc.high \in Int /\ lc.structure \in Int
      /\ in.close \in Nat /\ in.vwap \in Int
  BY DEF Lifecycles, Inputs
<1>2. lows \in Seq(Nat)
  <2>1. Append(lc.lows, in.close) \in Seq(Nat)
    BY <1>1, AppendProperties
  <2> QED BY <1>1, <2>1, LowsTyped
<1> HIDE DEF lows
<1>3. swing \in Int
  BY <1>1, <1>2, LeastPrice
<1> HIDE DEF swing
<1>4. b \in Int /\ c \in Int
  <2>1. Max({70, Profile.width}) \in Int
    BY WidestTyped
  <2>2. Of(lc, Max({70, Profile.width})) \in Int /\ Of(lc, 50) \in Int
    BY <2>1, OfTyped
  <2> QED BY <1>1, <2>2
<1>5. widest \in Int
  <2>1. candidates \in SUBSET {swing, b, in.vwap, lc.structure} /\ candidates # {}
    BY DEF Given
  <2> HIDE DEF candidates, b
  <2>2. Min(candidates) \in candidates
    BY <1>1, <1>3, <1>4, <2>1, OfFew
  <2> QED BY <1>1, <1>3, <1>4, <2>1, <2>2
<1> HIDE DEF widest, b, c
<1>6. floors \in SUBSET {widest, widest, c}
  BY DEF Given
<1>7. Raised(lc, r)
  <2> HIDE DEF floors
  <2> QED BY <1>4, <1>5, <1>6, RaiseRaises
<1>8. Raised(lc, t)
  <2> HIDE DEF r
  <2> QED BY <1>2, <1>7 DEF Raised, Lifecycles
<1>9. Phase4(lc, in) = Outcome(t, HoldAt(t.trail))
  BY DEF Phase4, lows, swing, b, widest, c
<1> HIDE DEF t
<1> QED BY <1>8, <1>9, RaisedMoves

LEMMA BodyMoves ==
    ASSUME NEW lc \in Lifecycles, NEW in \in Inputs, NEW phase \in Phases
    PROVE  Moves(phase, lc, in, Body(phase, lc, in))
<1>1. /\ phase = 0 => Body(phase, lc, in) = Phase0(lc, in)
      /\ phase = 1 => Body(phase, lc, in) = Phase1(lc, in)
      /\ phase = 2 => Body(phase, lc, in) = Phase2(lc, in)
      /\ phase = 3 => Body(phase, lc, in) = Phase3(lc, in)
      /\ phase = 4 => Body(phase, lc, in) = Phase4(lc, in)
  BY DEF Body
<1>2. phase \in {0, 1, 2, 3, 4}
  BY DEF Phases
<1> QED BY <1>1, <1>2, Phase0Moves, Phase1Moves, Phase2Moves, Phase3Moves, Phase4Moves

-----------------------------------------------------------------------------
(* The invariant                                                              *)

(* A thread is idle, has a bar, has looked the position up, is about to run the *)
(* body of a phase, or about to act on a decision.                             *)
ThreadOK(t, isQuote) ==
    \/ t.at = "idle" /\ t.pos = NoId /\ t.lc = NoId
    \/ t.at = "came" /\ ~isQuote /\ t.pos = NoId /\ t.lc = NoId
    \/ t.at = "seen" /\ ~isQuote /\ t.pos \in Ids /\ t.lc = NoId
    \/ /\ t.at = "body" /\ t.pos \in Ids /\ t.lc \in Ids
       /\ t.phase \in Phases /\ t.in \in Inputs /\ t.in.quote = isQuote
    \/ t.at = "act" /\ t.pos \in Ids /\ t.lc \in Ids /\ t.d \in Decisions

HeapsTyped ==
    /\ pos \in [Ids -> {None} \cup Positions] /\ cur \in Ids \cup {NoId}
    /\ lcs \in [Ids -> {None} \cup Lifecycles] /\ reg \in Ids \cup {NoId}
ThreadsTyped == ThreadOK(bar, FALSE) /\ ThreadOK(quote, TRUE)
RestTyped ==
    /\ fallen \in BOOLEAN /\ eod \in {"open"} \cup Styles
    /\ signals \in Seq({"EXIT", "PARTIAL"}) /\ Len(signals) <= Lane
    /\ closings \in Nat /\ shares \in 0..Qty /\ disk \in {None} \cup Positions
    /\ opens \in 0..Len(Entries) /\ faults \in Nat

(* The heaps hold what the books or a thread refer to, and nothing else.        *)
Referred ==
    /\ \A i \in Ids : pos[i] # None <=> i \in {cur, bar.pos, quote.pos}
    /\ \A i \in Ids : lcs[i] # None <=> i \in {reg, bar.lc, quote.lc}

(* Every position that is open or has been closed since the start was opened.   *)
Counted ==
    /\ closings + (IF cur = NoId THEN 0 ELSE 1) <= opens
    /\ shares > 0 \/ disk # None => opens >= 1

(* A lifecycle leaves its first two phases for good, whichever thread moves it:  *)
(* the bar thread alone leaves the validation, and by no stale phase.            *)
Reaches(t) ==
    t.at = "body" => /\ t.phase >= 1 => lcs[t.lc].phase >= 1
                     /\ t.phase >= 2 => lcs[t.lc].phase >= 2
Phased ==
    /\ Reaches(bar) /\ Reaches(quote)
    /\ bar.at = "body" /\ bar.phase = 0 => lcs[bar.lc].phase = 0

(* Everything there is belongs to one holding, unless it met what the one        *)
(* before had left; and until a lifecycle has reached its third phase, no trail   *)
(* is above the entry.                                                           *)
Entry == Entries[opens]
OfHolding(p, entry) ==
    p # None => /\ p.entry = entry
                /\ p.kept = None => p.stop <= entry
                /\ p.kept # None /\ p.kept.phase <= 1 => p.kept.trail <= entry
LivesIn(l, entry) == l # None => l.entry = entry /\ (l.phase <= 1 => l.trail <= entry)
Tightens(t, entry) == t.at = "act" /\ t.d.act = "TIGHTEN" => t.d.stop <= entry
OneHolding ==
    ~mixed => /\ \A i \in Ids : OfHolding(pos[i], Entry) /\ LivesIn(lcs[i], Entry)
              /\ OfHolding(disk, Entry)
              /\ Tightens(bar, Entry) /\ Tightens(quote, Entry)

(* How many PARTIAL_SELLs are under way, and that a lifecycle that has asked for  *)
(* one never asks again.                                                         *)
NoAsk(s)  == \A i \in DOMAIN s : s[i] # "PARTIAL"
OneAsk(s) == \A i, j \in DOMAIN s : s[i] = "PARTIAL" /\ s[j] = "PARTIAL" => i = j
Asks(t)   == t.at = "act" /\ t.d.act = "PARTIAL"
Asking ==
    /\ halving \in {"none", "asked", "filled", "excused"}
    /\ halving \in {"none", "filled"} => NoAsk(signals) /\ ~Asks(bar) /\ ~Asks(quote)
    /\ halving = "asked" => /\ OneAsk(signals) /\ ~(Asks(bar) /\ Asks(quote))
                            /\ Asks(bar) \/ Asks(quote) => NoAsk(signals)
Harvesting ==
    eod = "open" /\ halving \in {"asked", "filled"} /\ reg # NoId => lcs[reg].phase >= 3

IInv ==
    /\ HeapsTyped /\ ThreadsTyped /\ RestTyped
    /\ Referred /\ Counted /\ Phased /\ OneHolding /\ Asking /\ Harvesting

-----------------------------------------------------------------------------
(* The heaps, the lane and the lifecycles of the state                        *)

(* What the assumption says of the constants.                                  *)
LEMMA ConstantsTyped ==
    /\ Bars \subseteq [high : Nat, low : Nat, close : Nat]
    /\ Bids \subseteq Nat /\ Bottom \in Nat /\ Rsis \subseteq Nat /\ Vwaps \subseteq Nat
    /\ Qty \in Nat \ {0} /\ Lane \in Nat \ {0} /\ Atr \in Nat \ {0} /\ Risk \in Nat \ {0}
    /\ OrphanRisk \in Nat \ {0} /\ Entries \in Seq(Nat) /\ ByStop \in BOOLEAN
BY StrategyAssumption

(* An object is not the absence of one.                                        *)
LEMMA NotNone ==
    /\ \A p \in Positions : p # None
    /\ \A l \in Lifecycles : l # None
    /\ \A k \in KeptStates : k # None
<1>1. ASSUME NEW p \in Positions PROVE "stop" \in DOMAIN p
  BY DEF Positions
<1>2. ASSUME NEW l \in Lifecycles PROVE "stop" \in DOMAIN l
  BY DEF Lifecycles
<1>3. ASSUME NEW k \in KeptStates PROVE "trail" \in DOMAIN k
  BY DEF KeptStates
<1>4. "stop" \notin DOMAIN None /\ "trail" \notin DOMAIN None
  BY DEF None
<1> QED BY <1>1, <1>2, <1>3, <1>4

LEMMA UnusedIsFree ==
    ASSUME NEW heap, \E i \in Ids : heap[i] = None
    PROVE  Unused(heap) \in Ids /\ heap[Unused(heap)] = None
<1>1. \E i \in Ids : heap[i] = None /\ \A j \in Ids : heap[j] = None => i <= j
  <2>1. CASE heap[1] = None
    BY <2>1 DEF Ids
  <2>2. CASE heap[1] # None /\ heap[2] = None
    BY <2>2 DEF Ids
  <2>3. CASE heap[1] # None /\ heap[2] # None
    BY <2>3 DEF Ids
  <2> QED BY <2>1, <2>2, <2>3
<1> QED BY <1>1 DEF Unused

LEMMA OnlyTyped ==
    ASSUME NEW S, NEW heap \in [Ids -> {None} \cup S], NEW live
    PROVE  /\ Only(heap, live) \in [Ids -> {None} \cup S]
           /\ \A i \in Ids : Only(heap, live)[i] = IF i \in live THEN heap[i] ELSE None
BY DEF Only

(* The lane keeps its length, and at most one more PARTIAL_SELL comes in.        *)
LEMMA EmitAsks ==
    ASSUME RestTyped, NEW kind \in {"EXIT", "PARTIAL"}, Emit(kind)
    PROVE  /\ signals' \in Seq({"EXIT", "PARTIAL"}) /\ Len(signals') <= Lane
           /\ kind = "EXIT" /\ NoAsk(signals) => NoAsk(signals')
           /\ kind = "EXIT" /\ OneAsk(signals) => OneAsk(signals')
           /\ NoAsk(signals) => OneAsk(signals')
<1> DEFINE s == IF Len(signals) < Lane THEN signals ELSE Tail(signals)
<1>1. signals \in Seq({"EXIT", "PARTIAL"}) /\ Len(signals) \in Nat /\ Len(signals) <= Lane
      /\ Lane \in Nat \ {0}
  BY LenProperties, ConstantsTyped DEF RestTyped
<1>2. /\ s \in Seq({"EXIT", "PARTIAL"}) /\ Len(s) < Lane /\ Len(s) \in Nat
      /\ NoAsk(signals) => NoAsk(s)
      /\ OneAsk(signals) => OneAsk(s)
  <2>1. CASE Len(signals) < Lane
    BY <1>1, <2>1
  <2>2. CASE ~(Len(signals) < Lane)
    <3>1. signals # <<>> /\ s = Tail(signals)
      BY <1>1, <2>2, EmptySeq
    <3>2. /\ s \in Seq({"EXIT", "PARTIAL"}) /\ Len(s) = Len(signals) - 1
          /\ \A i \in 1..Len(s) : s[i] = signals[i + 1]
      BY <1>1, <3>1, HeadTailProperties
    <3>3. DOMAIN s = 1..Len(s) /\ DOMAIN signals = 1..Len(signals)
      BY <1>1, <3>2, LenProperties
    <3> HIDE DEF s
    <3>4. \A i \in DOMAIN s : i + 1 \in DOMAIN signals /\ s[i] = signals[i + 1]
      <4> DEFINE m == Len(s)
                 n == Len(signals)
      <4>1. m \in Int /\ n \in Nat /\ m = n - 1
        BY <1>1, <3>2
      <4>2. DOMAIN s = 1..m /\ DOMAIN signals = 1..n /\ \A i \in 1..m : s[i] = signals[i + 1]
        BY <3>2, <3>3
      <4> HIDE DEF m, n
      <4>3. \A i \in 1..m : i + 1 \in 1..n
        BY <4>1
      <4> QED BY <4>2, <4>3
    <3>5. NoAsk(signals) => NoAsk(s)
      BY <3>4 DEF NoAsk
    <3>6. OneAsk(signals) => OneAsk(s)
      <4> SUFFICES ASSUME OneAsk(signals), NEW i \in DOMAIN s, NEW j \in DOMAIN s,
                          s[i] = "PARTIAL", s[j] = "PARTIAL"
                   PROVE  i = j
        BY DEF OneAsk
      <4>1. i + 1 = j + 1
        BY <3>4 DEF OneAsk
      <4> QED BY <3>3, <4>1
    <3> QED BY <1>1, <3>2, <3>5, <3>6
  <2> QED BY <2>1, <2>2
<1>3. signals' = Append(s, kind)
  BY DEF Emit
<1> HIDE DEF s
<1>4. /\ signals' \in Seq({"EXIT", "PARTIAL"}) /\ Len(signals') = Len(s) + 1
      /\ DOMAIN signals' = 1..(Len(s) + 1) /\ DOMAIN s = 1..Len(s)
      /\ \A i \in 1..Len(s) : signals'[i] = s[i]
      /\ signals'[Len(s) + 1] = kind
  BY <1>2, <1>3, AppendProperties, LenProperties
<1>5. Len(signals') <= Lane
  BY <1>1, <1>2, <1>4
<1>6. \A i \in DOMAIN signals' : (i \in DOMAIN s /\ signals'[i] = s[i]) \/ i = Len(s) + 1
  BY <1>2, <1>4
<1>7. kind = "EXIT" => \A i \in DOMAIN signals' :
                         signals'[i] = "PARTIAL" => i \in DOMAIN s /\ s[i] = "PARTIAL"
  BY <1>4, <1>6
<1>8. kind = "EXIT" /\ NoAsk(s) => NoAsk(signals')
  BY <1>7 DEF NoAsk
<1>9. kind = "EXIT" /\ OneAsk(s) => OneAsk(signals')
  BY <1>7 DEF OneAsk
<1>10. NoAsk(s) => OneAsk(signals')
  BY <1>6 DEF NoAsk, OneAsk
<1> QED BY <1>2, <1>4, <1>5, <1>8, <1>9, <1>10

LEMMA TailAsks ==
    ASSUME RestTyped, signals # <<>>
    PROVE  /\ Tail(signals) \in Seq({"EXIT", "PARTIAL"}) /\ Len(Tail(signals)) <= Lane
           /\ Head(signals) \in {"EXIT", "PARTIAL"}
           /\ NoAsk(signals) => NoAsk(Tail(signals)) /\ Head(signals) # "PARTIAL"
           /\ OneAsk(signals) => OneAsk(Tail(signals))
           /\ OneAsk(signals) /\ Head(signals) = "PARTIAL" => NoAsk(Tail(signals))
<1> DEFINE s == Tail(signals)
<1>1. /\ signals \in Seq({"EXIT", "PARTIAL"}) /\ Len(signals) \in Nat /\ Len(signals) <= Lane
      /\ DOMAIN signals = 1..Len(signals) /\ Len(signals) # 0 /\ Lane \in Nat
  BY LenProperties, EmptySeq, ConstantsTyped DEF RestTyped
<1>2. /\ s \in Seq({"EXIT", "PARTIAL"}) /\ Len(s) = Len(signals) - 1
      /\ \A i \in 1..Len(s) : s[i] = signals[i + 1]
      /\ Head(signals) = signals[1] /\ Head(signals) \in {"EXIT", "PARTIAL"}
  BY <1>1, HeadTailProperties
<1>3. DOMAIN s = 1..Len(s)
  BY <1>2, LenProperties
<1> HIDE DEF s
<1>4. /\ 1 \in DOMAIN signals
      /\ \A i \in DOMAIN s : i + 1 \in DOMAIN signals /\ i + 1 # 1 /\ s[i] = signals[i + 1]
                           /\ i \in Nat
  <2> DEFINE m == Len(s)
             n == Len(signals)
  <2>1. m \in Int /\ n \in Nat /\ n # 0 /\ m = n - 1
    BY <1>1, <1>2
  <2>2. DOMAIN s = 1..m /\ DOMAIN signals = 1..n /\ \A i \in 1..m : s[i] = signals[i + 1]
    BY <1>1, <1>2, <1>3
  <2> HIDE DEF m, n
  <2>3. 1 \in 1..n /\ \A i \in 1..m : i + 1 \in 1..n /\ i + 1 # 1 /\ i \in Nat
    BY <2>1
  <2>4. 1 \in DOMAIN signals
    BY <2>2, <2>3
  <2>5. ASSUME NEW i \in DOMAIN s
        PROVE  i + 1 \in DOMAIN signals /\ i + 1 # 1 /\ s[i] = signals[i + 1] /\ i \in Nat
    <3>1. i \in 1..m
      BY <2>2
    <3> QED BY <2>2, <2>3, <3>1
  <2> QED BY <2>4, <2>5
<1>5. NoAsk(signals) => NoAsk(s) /\ Head(signals) # "PARTIAL"
  BY <1>2, <1>4 DEF NoAsk
<1>6. OneAsk(signals) => OneAsk(s)
  <2> SUFFICES ASSUME OneAsk(signals), NEW i \in DOMAIN s, NEW j \in DOMAIN s,
                      s[i] = "PARTIAL", s[j] = "PARTIAL"
               PROVE  i = j
    BY DEF OneAsk
  <2>1. i + 1 = j + 1
    BY <1>4 DEF OneAsk
  <2> QED BY <1>4, <2>1
<1>7. OneAsk(signals) /\ Head(signals) = "PARTIAL" => NoAsk(s)
  BY <1>2, <1>4 DEF OneAsk, NoAsk
<1>8. Len(s) <= Lane
  BY <1>1, <1>2
<1> QED BY <1>2, <1>5, <1>6, <1>7, <1>8 DEF s

(* A lifecycle that is made now belongs to the holding of its position, and has  *)
(* the phase that is kept there.                                              *)
LEMMA FreshTyped ==
    ASSUME NEW entry \in Nat, NEW stop \in Int, NEW key \in Int, NEW structure \in Int
    PROVE  Begins(Fresh(entry, stop, key, structure), entry, stop)
<1> DEFINE R == Max({entry - stop, stop - entry})
<1>1. entry - stop \in Int /\ stop - entry \in Int
  OBVIOUS
<1>2. R \in {entry - stop, stop - entry} /\ R >= entry - stop /\ R >= stop - entry
  BY <1>1, MaxOfTwo
<1>3. R \in Nat
  BY <1>2
<1>4. << >> \in Seq(Nat)
  OBVIOUS
<1> HIDE DEF R
<1>5. Fresh(entry, stop, key, structure) =
        [phase |-> 0, age |-> 0, phaseAge |-> 0, entry |-> entry, high |-> entry,
         stop |-> stop, trail |-> stop, below |-> 0, R |-> R,
         key |-> key, structure |-> structure, low |-> 0, rising |-> FALSE, lows |-> <<>>]
  BY DEF Fresh, R
<1> QED BY <1>3, <1>4, <1>5 DEF Begins, Lifecycles, Phases

LEMMA RestoredTyped ==
    ASSUME NEW l \in Lifecycles, NEW k \in KeptStates
    PROVE  /\ Restored(l, k) \in Lifecycles
           /\ Restored(l, k).entry = l.entry /\ Restored(l, k).phase = k.phase
           /\ Restored(l, k).trail = k.trail
BY DEF Restored, Lifecycles, KeptStates

LEMMA KeptTyped ==
    ASSUME NEW l \in Lifecycles
    PROVE  /\ Kept(l) \in KeptStates
           /\ Kept(l).phase = l.phase /\ Kept(l).trail = l.trail
BY DEF Kept, Lifecycles, KeptStates

LEMMA CreatedTyped ==
    ASSUME NEW p \in Positions, NEW close \in Nat
    PROVE  /\ Created(p, close) \in Lifecycles
           /\ p.kept # None => Created(p, close).phase = p.kept.phase
           /\ OfHolding(p, p.entry) => LivesIn(Created(p, close), p.entry)
<1> DEFINE invalidation == IF ByStop THEN p.stop ELSE p.entry - 2 * Atr
           key == p.entry - (Atr * 30) \div 100
           structure == p.entry - (Atr * 50) \div 100
           l == Fresh(p.entry, invalidation, key, structure)
           stop == Max({p.stop, p.entry})
           fresh == [l EXCEPT !.phase = 1]
           ahead == [l EXCEPT !.phase = 2, !.trail = p.entry]
           halved == [l EXCEPT !.phase = 3, !.trail = stop]
<1>1. /\ p.entry \in Nat /\ p.stop \in Int /\ p.kept \in {None} \cup KeptStates
      /\ Atr \in Nat
  BY ConstantsTyped DEF Positions
<1>2. /\ invalidation \in Int /\ key \in Int /\ structure \in Int
      /\ p.stop <= p.entry => invalidation <= p.entry
  <2>1. 2 * Atr \in Nat /\ (Atr * 30) \div 100 \in Int /\ (Atr * 50) \div 100 \in Int
    BY <1>1
  <2> QED BY <1>1, <2>1
<1> HIDE DEF invalidation, key, structure
<1>3. l \in Lifecycles /\ l.entry = p.entry /\ l.trail = invalidation
  <2>1. Begins(l, p.entry, invalidation)
    BY <1>1, <1>2, FreshTyped
  <2> QED BY <2>1 DEF Begins
<1> HIDE DEF l
<1>4. stop \in Int
  <2>1. p.entry \in Int /\ p.stop \in Int
    BY <1>1
  <2>2. stop \in {p.stop, p.entry}
    BY <2>1, MaxOfTwo
  <2> QED BY <2>1, <2>2
<1> HIDE DEF stop
<1>5. /\ fresh \in Lifecycles /\ fresh.entry = p.entry /\ fresh.trail = invalidation
      /\ ahead \in Lifecycles /\ ahead.entry = p.entry /\ ahead.phase = 2
      /\ halved \in Lifecycles /\ halved.entry = p.entry /\ halved.phase = 3
  <2>1. p.entry \in Int /\ {1, 2, 3} \subseteq Phases
    BY <1>1 DEF Phases
  <2>2. fresh \in Lifecycles /\ fresh.entry = p.entry /\ fresh.trail = invalidation
    BY <1>3, <2>1 DEF Lifecycles
  <2>3. ahead \in Lifecycles /\ ahead.entry = p.entry /\ ahead.phase = 2
    BY <1>3, <2>1 DEF Lifecycles
  <2>4. halved \in Lifecycles /\ halved.entry = p.entry /\ halved.phase = 3
    BY <1>3, <1>4, <2>1 DEF Lifecycles
  <2> QED BY <2>2, <2>3, <2>4
<1>6. CASE p.kept # None
  <2>1. p.kept \in KeptStates
    BY <1>1, <1>6
  <2>2. Created(p, close) = Restored(l, p.kept)
    BY <1>6 DEF Created, l, invalidation, key, structure
  <2>3. /\ Created(p, close) \in Lifecycles /\ Created(p, close).entry = p.entry
        /\ Created(p, close).phase = p.kept.phase /\ Created(p, close).trail = p.kept.trail
    BY <1>3, <2>1, <2>2, RestoredTyped
  <2> QED BY <1>6, <2>3, NotNone DEF OfHolding, LivesIn
<1>7. CASE p.kept = None
  <2>1. Created(p, close) \in {l, halved, ahead, fresh}
    BY <1>7 DEF Created, l, stop, invalidation, key, structure
  <2> HIDE DEF fresh, ahead, halved
  <2>2. OfHolding(p, p.entry) => invalidation <= p.entry
    BY <1>2, <1>7, NotNone DEF OfHolding
  <2> QED BY <1>3, <1>5, <1>7, <2>1, <2>2 DEF LivesIn
<1> QED BY <1>6, <1>7
(* What is referred to is there, and a thread that is idle refers to nothing.    *)
LEMMA Objects ==
    ASSUME HeapsTyped, ThreadsTyped, Referred
    PROVE  /\ NoId \notin Ids
           /\ {bar.pos, quote.pos, bar.lc, quote.lc} \subseteq Ids \cup {NoId}
           /\ \A i \in {cur, bar.pos, quote.pos} \ {NoId} : i \in Ids /\ pos[i] \in Positions
           /\ \A i \in {reg, bar.lc, quote.lc} \ {NoId} : i \in Ids /\ lcs[i] \in Lifecycles
<1>1. NoId \notin Ids
  BY DEF NoId, Ids
<1>2. {bar.pos, quote.pos, bar.lc, quote.lc} \subseteq Ids \cup {NoId}
  BY DEF ThreadsTyped, ThreadOK
<1>3. cur \in Ids \cup {NoId} /\ reg \in Ids \cup {NoId}
  BY DEF HeapsTyped
<1>4. ASSUME NEW i \in {cur, bar.pos, quote.pos} \ {NoId}
      PROVE  i \in Ids /\ pos[i] \in Positions
  <2>1. i \in Ids
    BY <1>2, <1>3
  <2> QED BY <2>1 DEF HeapsTyped, Referred
<1>5. ASSUME NEW i \in {reg, bar.lc, quote.lc} \ {NoId}
      PROVE  i \in Ids /\ lcs[i] \in Lifecycles
  <2>1. i \in Ids
    BY <1>2, <1>3
  <2> QED BY <2>1 DEF HeapsTyped, Referred
<1> QED BY <1>1, <1>2, <1>4, <1>5

-----------------------------------------------------------------------------
(* Every action keeps the invariant                                           *)

(* In the first state there is nothing.                                        *)
LEMMA InitHolds == ASSUME Init PROVE IInv
<1>1. HeapsTyped
  BY DEF Init, HeapsTyped, NoId
<1>2. ThreadsTyped
  BY DEF Init, ThreadsTyped, ThreadOK, Idle
<1>3. RestTyped
  <2>1. Len(Entries) \in Nat
    BY ConstantsTyped, LenProperties
  <2>2. <<>> \in Seq({"EXIT", "PARTIAL"}) /\ Len(<<>>) = 0
    OBVIOUS
  <2>3. 0 <= Lane /\ 0 \in 0..Qty /\ 0 \in 0..Len(Entries)
    BY <2>1, ConstantsTyped
  <2> QED BY <2>2, <2>3 DEF Init, RestTyped
<1>4. Referred
  BY DEF Init, Referred, Idle, NoId, Ids
<1>5. Counted
  BY DEF Init, Counted, None, NoId
<1>6. Phased
  BY DEF Init, Phased, Reaches, Idle
<1>7. OneHolding
  BY DEF Init, OneHolding, OfHolding, LivesIn, Tightens, Idle
<1>8. Asking
  <2>1. DOMAIN signals = {}
    BY DEF Init
  <2> QED BY <2>1 DEF Init, Asking, NoAsk, Asks, Idle
<1>9. Harvesting
  BY DEF Init, Harvesting
<1> QED BY <1>1, <1>2, <1>3, <1>4, <1>5, <1>6, <1>7, <1>8, <1>9 DEF IInv

(* A bar that comes, or is dropped before the position is looked up.             *)
LEMMA BarCounts == ASSUME IInv, BarComes \/ BarDropped PROVE IInv'
<1> USE DEF IInv
<1>0. /\ bar'.at \in {"idle", "came"} /\ bar.at \in {"idle", "came"}
      /\ bar.pos = NoId /\ bar.lc = NoId /\ bar'.pos = NoId /\ bar'.lc = NoId
      /\ UNCHANGED <<world, book, objects, quote, lanes, broker, faults, past>>
  BY DEF BarComes, BarDropped, ThreadsTyped, ThreadOK, Came, Idle
<1> USE DEF world, book, objects, lanes, broker, past
<1>1. HeapsTyped' /\ ThreadsTyped' /\ RestTyped' /\ Counted'
  BY <1>0 DEF HeapsTyped, ThreadsTyped, ThreadOK, RestTyped, Counted
<1>2. Referred'
  BY <1>0 DEF Referred
<1>3. Phased' /\ Harvesting'
  BY <1>0 DEF Phased, Reaches, Harvesting
<1>4. OneHolding'
  BY <1>0 DEF OneHolding, Tightens, Entry
<1>5. Asking'
  BY <1>0 DEF Asking, Asks
<1> QED BY <1>1, <1>2, <1>3, <1>4, <1>5

(* Without an analysis the bar thread lets go of the position it looked up.      *)
LEMMA BarNotAnalysedKeeps == ASSUME IInv, BarNotAnalysed PROVE IInv'
<1> USE DEF IInv
<1>0. /\ bar' = Idle /\ bar.at = "seen" /\ bar.lc = NoId
      /\ pos' = Only(pos, {cur, quote.pos})
      /\ UNCHANGED <<world, cur, objects, quote, lanes, broker, faults, past>>
  BY DEF BarNotAnalysed, ThreadsTyped, ThreadOK
<1>1. /\ pos' \in [Ids -> {None} \cup Positions]
      /\ \A i \in Ids : pos'[i] = IF i \in {cur, quote.pos} THEN pos[i] ELSE None
  <2>1. pos \in [Ids -> {None} \cup Positions]
    BY DEF HeapsTyped
  <2> QED BY <1>0, <2>1, OnlyTyped
<1>2. bar'.at = "idle" /\ bar'.pos = NoId /\ bar'.lc = NoId /\ NoId \notin Ids
  BY <1>0, Objects DEF Idle
<1> USE DEF world, objects, lanes, broker, past
<1>3. HeapsTyped' /\ ThreadsTyped' /\ RestTyped' /\ Counted'
  BY <1>0, <1>1, <1>2 DEF HeapsTyped, ThreadsTyped, ThreadOK, RestTyped, Counted
<1>4. Referred'
  BY <1>0, <1>1, <1>2 DEF Referred
<1>5. Phased' /\ Harvesting'
  BY <1>0, <1>2 DEF Phased, Reaches, Harvesting
<1>6. OneHolding'
  BY <1>0, <1>1, <1>2 DEF OneHolding, OfHolding, Tightens, Entry
<1>7. Asking'
  BY <1>0, <1>2 DEF Asking, Asks
<1> QED BY <1>3, <1>4, <1>5, <1>6, <1>7

LEMMA BarSeenKeeps == ASSUME IInv, BarSeen PROVE IInv'
<1> USE DEF IInv
<1>0. /\ bar' = [at |-> "seen", pos |-> cur, lc |-> NoId] /\ bar.at = "came"
      /\ cur # NoId /\ cur \in Ids /\ bar.pos = NoId /\ bar.lc = NoId
      /\ UNCHANGED <<world, book, objects, quote, lanes, broker, faults, past>>
  BY Objects DEF BarSeen, ThreadsTyped, ThreadOK
<1> USE DEF world, book, objects, lanes, broker, past
<1>1. HeapsTyped'
  BY <1>0 DEF HeapsTyped
<1>2. ThreadsTyped'
  BY <1>0 DEF ThreadsTyped, ThreadOK
<1>3. RestTyped'
  BY <1>0 DEF RestTyped
<1>4. Referred'
  BY <1>0 DEF Referred, Ids, NoId
<1>5. Counted'
  BY <1>0 DEF Counted
<1>6. Phased'
  BY <1>0 DEF Phased, Reaches
<1>7. OneHolding'
  BY <1>0 DEF OneHolding, Tightens, Entry
<1>8. Asking'
  BY <1>0 DEF Asking, Asks
<1>9. Harvesting'
  BY <1>0 DEF Harvesting
<1> QED BY <1>1, <1>2, <1>3, <1>4, <1>5, <1>6, <1>7, <1>8, <1>9
(* The force close: the bars of a position ask for its sale, once and again.     *)
LEMMA BarLateKeeps == ASSUME IInv, BarLate PROVE IInv'
<1> USE DEF IInv
<1>0. /\ bar.at = "came" /\ eod # "open" /\ bar.pos = NoId /\ bar.lc = NoId
      /\ bar'.at = "idle" /\ bar'.pos = NoId /\ bar'.lc = NoId
      /\ UNCHANGED <<world, book, quote, closings, broker, faults, mixed>>
  BY DEF BarLate, Idle, ThreadsTyped, ThreadOK
<1> DEFINE Close == /\ Emit("EXIT") /\ halving' = halving
                    /\ \/ lcs' = lcs /\ reg' = reg
                       \/ lcs' = Only(lcs, {quote.lc}) /\ reg' = NoId
           Halve == /\ Emit("PARTIAL") /\ UNCHANGED objects
                    /\ halving' = IF halving = "none" THEN "asked" ELSE "excused"
<1>3. Close \/ Halve
  BY DEF BarLate, objects
<1> USE DEF world, book, objects, broker
<1>1. CASE Close
  <2>1. /\ signals' \in Seq({"EXIT", "PARTIAL"}) /\ Len(signals') <= Lane
        /\ NoAsk(signals) => NoAsk(signals')
        /\ OneAsk(signals) => OneAsk(signals')
    BY <1>1, EmitAsks
  <2>2. /\ lcs' \in [Ids -> {None} \cup Lifecycles]
        /\ \A i \in Ids : lcs'[i] \in {lcs[i], None}
        /\ \A i \in Ids : lcs'[i] # None <=> i \in {reg', bar.lc, quote.lc}
        /\ quote.lc \in Ids => lcs'[quote.lc] = lcs[quote.lc]
    <3>1. CASE lcs' = lcs /\ reg' = reg
      BY <3>1 DEF HeapsTyped, Referred
    <3>2. CASE lcs' = Only(lcs, {quote.lc}) /\ reg' = NoId
      <4>1. bar.lc = NoId /\ NoId \notin Ids
        BY <1>0, Objects DEF ThreadsTyped, ThreadOK
      <4>2. lcs \in [Ids -> {None} \cup Lifecycles]
        BY DEF HeapsTyped
      <4>3. /\ lcs' \in [Ids -> {None} \cup Lifecycles]
            /\ \A i \in Ids : lcs'[i] = IF i \in {quote.lc} THEN lcs[i] ELSE None
        BY <3>2, <4>2, OnlyTyped
      <4> QED BY <3>2, <4>1, <4>3 DEF Referred
    <3> QED BY <1>1, <3>1, <3>2
  <2>3. HeapsTyped' /\ ThreadsTyped' /\ RestTyped' /\ Counted'
    BY <1>0, <1>1, <2>1, <2>2 DEF HeapsTyped, ThreadsTyped, ThreadOK, RestTyped, Counted
  <2>4. Referred'
    BY <1>0, <2>2 DEF Referred
  <2>5. Phased'
    BY <1>0, <2>2 DEF Phased, Reaches, ThreadsTyped, ThreadOK
  <2>6. OneHolding'
    BY <1>0, <2>2 DEF OneHolding, LivesIn, Tightens, Entry
  <2>7. Asking'
    BY <1>0, <1>1, <2>1 DEF Asking, Asks
  <2>8. Harvesting'
    BY <1>0 DEF Harvesting
  <2> QED BY <2>3, <2>4, <2>5, <2>6, <2>7, <2>8
<1>2. CASE Halve
  <2>1. /\ signals' \in Seq({"EXIT", "PARTIAL"}) /\ Len(signals') <= Lane
        /\ NoAsk(signals) => OneAsk(signals')
    BY <1>2, EmitAsks
  <2>2. HeapsTyped' /\ ThreadsTyped' /\ RestTyped' /\ Counted'
    BY <1>0, <1>2, <2>1 DEF HeapsTyped, ThreadsTyped, ThreadOK, RestTyped, Counted
  <2>3. Referred' /\ Phased' /\ OneHolding'
    BY <1>0, <1>2 DEF Referred, Phased, Reaches, OneHolding, Tightens, Entry
  <2>4. Asking'
    BY <1>0, <1>2, <2>1 DEF Asking, Asks
  <2>5. Harvesting'
    BY <1>0 DEF Harvesting
  <2> QED BY <2>2, <2>3, <2>4, <2>5
<1> HIDE DEF Close, Halve
<1> QED BY <1>1, <1>2, <1>3

(* The actions that neither ask for a PARTIAL_SELL nor fill one, and leave what   *)
(* the threads refer to alone, keep the invariant if they keep the types.        *)
LEMMA QuietKeeps ==
    ASSUME IInv, UNCHANGED <<eod, book, objects, threads, opens, past>>,
           RestTyped', Counted', OfHolding(disk, Entry) => OfHolding(disk', Entry),
           NoAsk(signals) => NoAsk(signals'), OneAsk(signals) => OneAsk(signals')
    PROVE  IInv'
<1> USE DEF IInv, book, objects, threads, past
<1>1. HeapsTyped' /\ ThreadsTyped' /\ Referred' /\ Phased' /\ Harvesting'
  BY DEF HeapsTyped, ThreadsTyped, Referred, Phased, Reaches, Harvesting
<1>2. OneHolding'
  BY DEF OneHolding, Entry
<1>3. Asking'
  BY DEF Asking
<1> QED BY <1>1, <1>2, <1>3

LEMMA QuoteWithoutLifecycleKeeps == ASSUME IInv, QuoteWithoutLifecycle PROVE IInv'
<1>1. /\ Emit("EXIT")
      /\ UNCHANGED <<world, book, objects, threads, closings, broker, faults, past>>
  BY DEF QuoteWithoutLifecycle
<1>2. /\ signals' \in Seq({"EXIT", "PARTIAL"}) /\ Len(signals') <= Lane
      /\ NoAsk(signals) => NoAsk(signals')
      /\ OneAsk(signals) => OneAsk(signals')
  BY <1>1, EmitAsks DEF IInv
<1>3. RestTyped' /\ Counted' /\ disk' = disk /\ eod' = eod /\ opens' = opens
  BY <1>1, <1>2 DEF IInv, RestTyped, Counted, world, book, broker
<1> QED BY <1>1, <1>2, <1>3, QuietKeeps

LEMMA SignalIgnoredKeeps == ASSUME IInv, SignalIgnored PROVE IInv'
<1>1. /\ signals # <<>> /\ signals' = Tail(signals)
      /\ UNCHANGED <<world, book, objects, threads, closings, broker, faults, past>>
  BY DEF SignalIgnored
<1>2. /\ signals' \in Seq({"EXIT", "PARTIAL"}) /\ Len(signals') <= Lane
      /\ NoAsk(signals) => NoAsk(signals')
      /\ OneAsk(signals) => OneAsk(signals')
  BY <1>1, TailAsks DEF IInv
<1>3. RestTyped' /\ Counted' /\ disk' = disk /\ eod' = eod /\ opens' = opens
  BY <1>1, <1>2 DEF IInv, RestTyped, Counted, world, book, broker
<1> QED BY <1>1, <1>2, <1>3, QuietKeeps

LEMMA SellFailsKeeps == ASSUME IInv, SellFails PROVE IInv'
<1>1. /\ signals # <<>> /\ signals' = Tail(signals) /\ faults' = faults + 1
      /\ UNCHANGED <<world, book, objects, threads, closings, broker, past>>
  BY DEF SellFails
<1>2. /\ signals' \in Seq({"EXIT", "PARTIAL"}) /\ Len(signals') <= Lane
      /\ NoAsk(signals) => NoAsk(signals')
      /\ OneAsk(signals) => OneAsk(signals')
  BY <1>1, TailAsks DEF IInv
<1>3. RestTyped' /\ Counted' /\ disk' = disk /\ eod' = eod /\ opens' = opens
  BY <1>1, <1>2 DEF IInv, RestTyped, Counted, world, book, broker
<1> QED BY <1>1, <1>2, <1>3, QuietKeeps

(* The cycle saves the position of the present holding.                        *)
LEMMA SaveCycleKeeps == ASSUME IInv, SaveCycle PROVE IInv'
<1>1. /\ cur # NoId /\ disk' = pos[cur]
      /\ UNCHANGED <<world, book, objects, threads, lanes, shares, opens, faults, past>>
  BY DEF SaveCycle
<1>2. cur \in Ids /\ pos[cur] \in Positions
  BY <1>1, Objects DEF IInv
<1>3. RestTyped' /\ eod' = eod /\ signals' = signals
  BY <1>1, <1>2 DEF IInv, RestTyped, world, lanes
<1>4. Counted'
  <2>1. opens >= 1
    BY <1>1 DEF IInv, Counted, RestTyped
  <2> QED BY <1>1, <2>1 DEF IInv, Counted, book, lanes
<1>5. ~mixed => OfHolding(disk', Entry)
  BY <1>1, <1>2 DEF IInv, OneHolding
<1> USE DEF IInv, book, objects, threads, past
<1>6. HeapsTyped' /\ ThreadsTyped' /\ Referred' /\ Phased' /\ Harvesting'
  BY <1>1, <1>3 DEF HeapsTyped, ThreadsTyped, Referred, Phased, Reaches, Harvesting
<1>7. OneHolding'
  BY <1>1, <1>5 DEF OneHolding, Entry
<1>8. Asking'
  BY <1>1, <1>3 DEF Asking
<1> QED BY <1>3, <1>4, <1>6, <1>7, <1>8

LEMMA FallsKeeps == ASSUME IInv, Falls PROVE IInv'
<1>1. /\ fallen' = TRUE
      /\ UNCHANGED <<eod, book, objects, threads, lanes, broker, faults, past>>
  BY DEF Falls
<1>2. RestTyped' /\ Counted' /\ disk' = disk /\ signals' = signals /\ opens' = opens
  BY <1>1 DEF IInv, RestTyped, Counted, book, lanes, broker
<1> QED BY <1>1, <1>2, QuietKeeps

(* After the force close lifecycles no longer ask.                             *)
LEMMA ForceCloseKeeps == ASSUME IInv, ForceClose PROVE IInv'
<1>1. /\ eod' \in Styles
      /\ UNCHANGED <<fallen, book, objects, threads, lanes, broker, faults, past>>
  BY DEF ForceClose
<1>2. eod' # "open"
  BY <1>1, StrategyAssumption
<1> USE DEF IInv, book, objects, threads, lanes, broker, past
<1>3. HeapsTyped' /\ ThreadsTyped' /\ RestTyped' /\ Referred' /\ Counted' /\ Phased'
  <2>1. HeapsTyped' /\ RestTyped'
    BY <1>1 DEF HeapsTyped, RestTyped
  <2>2. ThreadsTyped'
    BY <1>1 DEF ThreadsTyped
  <2>3. Referred' /\ Counted'
    BY <1>1 DEF Referred, Counted
  <2>4. Phased'
    BY <1>1 DEF Phased, Reaches
  <2> QED BY <2>1, <2>2, <2>3, <2>4
<1>4. OneHolding' /\ Asking'
  BY <1>1 DEF OneHolding, Entry, Asking
<1>5. Harvesting'
  BY <1>2 DEF Harvesting
<1> QED BY <1>3, <1>4, <1>5
(* The lifecycle that is registered goes, whichever holding it belongs to.       *)
LEMMA CleanupKeeps == ASSUME IInv, Cleanup PROVE IInv'
<1> USE DEF IInv
<1>0. /\ closings > 0 /\ closings' = closings - 1 /\ reg' = NoId
      /\ lcs' = Only(lcs, {bar.lc, quote.lc})
      /\ UNCHANGED <<world, book, threads, signals, broker, faults, past>>
  BY DEF Cleanup
<1>1. /\ lcs' \in [Ids -> {None} \cup Lifecycles]
      /\ \A i \in Ids : lcs'[i] = IF i \in {bar.lc, quote.lc} THEN lcs[i] ELSE None
  <2>1. lcs \in [Ids -> {None} \cup Lifecycles]
    BY DEF HeapsTyped
  <2> DEFINE only == Only(lcs, {bar.lc, quote.lc})
  <2>2. /\ only \in [Ids -> {None} \cup Lifecycles]
        /\ \A i \in Ids : only[i] = IF i \in {bar.lc, quote.lc} THEN lcs[i] ELSE None
    BY <2>1, OnlyTyped
  <2> HIDE DEF only
  <2>3. lcs' = only
    BY <1>0 DEF only
  <2> QED BY <2>2, <2>3
<1>2. NoId \notin Ids
  BY Objects
<1> USE DEF world, book, threads, broker, past
<1>3. HeapsTyped' /\ ThreadsTyped'
  BY <1>0, <1>1 DEF HeapsTyped, ThreadsTyped
<1>4. RestTyped' /\ Counted'
  BY <1>0 DEF RestTyped, Counted
<1>5. Referred'
  BY <1>0, <1>1, <1>2 DEF Referred
<1>6. Phased'
  BY <1>0, <1>1 DEF Phased, Reaches, ThreadsTyped, ThreadOK
<1>7. OneHolding'
  BY <1>0, <1>1 DEF OneHolding, LivesIn, Entry
<1>8. Asking' /\ Harvesting'
  BY <1>0 DEF Asking, Harvesting
<1> QED BY <1>3, <1>4, <1>5, <1>6, <1>7, <1>8

(* A new holding has a PARTIAL_SELL under way only if it is excused, and meets a  *)
(* lifecycle or a thread only if it is mixed.                                  *)
LEMMA OpenedKeeps == ASSUME IInv, Opened PROVE IInv'
<1> USE DEF IInv
<1> DEFINE entry == Entries[opens + 1]
           p == Position(entry, entry - Risk, Qty, FALSE)
           u == Unused(pos)
<1>0. /\ opens < Len(Entries) /\ cur = NoId /\ shares = 0
      /\ cur' = u /\ pos' = [pos EXCEPT ![u] = p] /\ disk' = p
      /\ shares' = Qty /\ opens' = opens + 1
      /\ halving' = (IF PartialUnderWay THEN "excused" ELSE "none")
      /\ mixed' = Leftover
      /\ UNCHANGED <<world, objects, threads, lanes, faults>>
  BY DEF Opened
<1>1. NoId \notin Ids /\ {bar.pos, quote.pos} \subseteq Ids \cup {NoId}
  BY Objects
<1>2. u \in Ids /\ pos[u] = None
  <2>1. \E i \in Ids : i \notin {bar.pos, quote.pos}
    BY DEF Ids
  <2>2. \E i \in Ids : pos[i] = None
    BY <1>0, <1>1, <2>1 DEF Referred
  <2> QED BY <2>2, UnusedIsFree
<1>3. entry \in Nat /\ opens + 1 \in 0..Len(Entries)
  <2>1. Entries \in Seq(Nat) /\ opens \in Nat /\ Len(Entries) \in Nat
    BY ConstantsTyped, LenProperties DEF RestTyped
  <2>2. opens + 1 \in 1..Len(Entries)
    BY <1>0, <2>1
  <2> QED BY <2>1, <2>2, ElementOfSeq
<1> HIDE DEF u
<1>4. p \in Positions /\ p.entry = entry /\ p.kept = None /\ p.stop <= entry
  <2>1. entry - Risk \in Int /\ entry - Risk <= entry /\ Qty \in Nat /\ 50 \in Nat
    BY <1>3, ConstantsTyped
  <2> HIDE DEF entry
  <2> QED BY <1>3, <2>1 DEF Position, Positions
<1> HIDE DEF p
<1>5. /\ pos' \in [Ids -> {None} \cup Positions]
      /\ \A i \in Ids : pos'[i] = IF i = u THEN p ELSE pos[i]
  BY <1>0, <1>2, <1>4 DEF HeapsTyped
<1> USE DEF world, objects, threads, lanes
<1>6. HeapsTyped' /\ ThreadsTyped'
  BY <1>0, <1>2, <1>5 DEF HeapsTyped, ThreadsTyped
<1>7. RestTyped'
  BY <1>0, <1>3, <1>4, ConstantsTyped DEF RestTyped
<1>8. Referred'
  BY <1>0, <1>1, <1>2, <1>4, <1>5, NotNone DEF Referred
<1>9. Counted'
  BY <1>0, <1>1, <1>2 DEF Counted, RestTyped
<1>10. Phased'
  BY <1>0 DEF Phased, Reaches
<1>11. OneHolding'
  <2> SUFFICES ASSUME ~Leftover
               PROVE  /\ \A i \in Ids : OfHolding(pos'[i], entry) /\ LivesIn(lcs'[i], entry)
                      /\ OfHolding(disk', entry)
                      /\ Tightens(bar', entry) /\ Tightens(quote', entry)
    <3>1. Entry' = entry
      BY <1>0 DEF Entry
    <3> HIDE DEF entry
    <3> QED BY <1>0, <3>1 DEF OneHolding
  <2>1. /\ reg = NoId /\ bar.at \in {"idle", "came"} /\ quote.at = "idle"
        /\ bar.pos = NoId /\ quote.pos = NoId /\ bar.lc = NoId /\ quote.lc = NoId
    BY DEF Leftover, ThreadsTyped, ThreadOK, Ids, NoId
  <2>2. OfHolding(p, entry)
    BY <1>4 DEF OfHolding
  <2>3. \A i \in Ids : pos[i] = None /\ lcs[i] = None
    BY <1>0, <1>1, <2>1 DEF Referred
  <2>4. \A i \in Ids : OfHolding(pos'[i], entry) /\ LivesIn(lcs'[i], entry)
    BY <1>0, <1>5, <2>2, <2>3 DEF OfHolding, LivesIn
  <2>5. Tightens(bar', entry) /\ Tightens(quote', entry)
    BY <1>0, <2>1 DEF Tightens
  <2> QED BY <1>0, <2>2, <2>4, <2>5
<1>12. Asking'
  <2>1. CASE PartialUnderWay
    BY <1>0, <2>1 DEF Asking
  <2>2. CASE ~PartialUnderWay
    <3>1. NoAsk(signals)
      BY <2>2 DEF PartialUnderWay, NoAsk
    <3>2. ~Asks(bar) /\ ~Asks(quote)
      BY <2>2, OnePartial DEF PartialUnderWay, Asks, ThreadsTyped, ThreadOK
    <3> QED BY <1>0, <2>2, <3>1, <3>2 DEF Asking, Asks
  <2> QED BY <2>1, <2>2
<1>13. Harvesting'
  BY <1>0 DEF Harvesting
<1> QED BY <1>6, <1>7, <1>8, <1>9, <1>10, <1>11, <1>12, <1>13
(* What a sale does to the books: it keeps the invariant if it keeps the types,    *)
(* the positions of the holding and the count of what is asked for.             *)
BookMoves ==
    /\ HeapsTyped' /\ RestTyped' /\ Counted' /\ Asking'
    /\ \A i \in Ids : pos'[i] # None <=> i \in {cur', bar.pos, quote.pos}
    /\ ~mixed => /\ \A i \in Ids : OfHolding(pos'[i], Entry)
                 /\ OfHolding(disk', Entry)

LEMMA BookKeeps ==
    ASSUME IInv, BookMoves, UNCHANGED <<world, objects, threads, opens, mixed>>,
           halving' = halving \/ (halving = "asked" /\ halving' = "filled")
    PROVE  IInv'
<1> USE DEF IInv, BookMoves, world, objects, threads
<1>1. ThreadsTyped' /\ Referred' /\ Phased'
  BY DEF ThreadsTyped, Referred, Phased, Reaches
<1>2. OneHolding'
  BY DEF OneHolding, Entry
<1>3. Harvesting'
  BY DEF Harvesting
<1> QED BY <1>1, <1>2, <1>3

(* A closed position is kept only for the threads that hold it.                 *)
LEMMA BookCloses ==
    ASSUME IInv, cur # NoId, CloseBook
    PROVE  /\ pos' \in [Ids -> {None} \cup Positions] /\ cur' = NoId
           /\ \A i \in Ids : pos'[i] \in {pos[i], None}
           /\ \A i \in Ids : pos'[i] # None <=> i \in {cur', bar.pos, quote.pos}
           /\ closings' \in Nat /\ closings' + 0 <= opens
           /\ disk' = None /\ opens \in Nat /\ opens >= 1
<1>0. /\ cur' = NoId /\ pos' = Only(pos, {bar.pos, quote.pos})
      /\ closings' = closings + 1 /\ disk' = None
  BY DEF CloseBook
<1>1. /\ pos' \in [Ids -> {None} \cup Positions]
      /\ \A i \in Ids : pos'[i] = IF i \in {bar.pos, quote.pos} THEN pos[i] ELSE None
  <2> DEFINE only == Only(pos, {bar.pos, quote.pos})
  <2>1. pos \in [Ids -> {None} \cup Positions]
    BY DEF IInv, HeapsTyped
  <2>2. /\ only \in [Ids -> {None} \cup Positions]
        /\ \A i \in Ids : only[i] = IF i \in {bar.pos, quote.pos} THEN pos[i] ELSE None
    BY <2>1, OnlyTyped
  <2> HIDE DEF only
  <2>3. pos' = only
    BY <1>0 DEF only
  <2> QED BY <2>2, <2>3
<1>2. NoId \notin Ids
  BY Objects DEF IInv
<1>3. \A i \in Ids : pos'[i] # None <=> i \in {cur', bar.pos, quote.pos}
  BY <1>0, <1>1, <1>2 DEF IInv, Referred
<1>4. closings' \in Nat /\ closings' + 0 <= opens /\ opens \in Nat /\ opens >= 1
  BY <1>0 DEF IInv, RestTyped, Counted
<1> QED BY <1>0, <1>1, <1>3, <1>4

(* ORDER_FAIL: the broker has nothing, the phantom is removed.                   *)
LEMMA SellFindsNothingKeeps == ASSUME IInv, SellFindsNothing PROVE IInv'
<1>0. /\ signals # <<>> /\ signals' = Tail(signals) /\ CloseBook /\ Wanted > 0
      /\ UNCHANGED <<world, objects, threads, shares, opens, faults, past>>
  BY DEF SellFindsNothing
<1>1. cur # NoId
  BY <1>0 DEF Wanted
<1>2. /\ signals' \in Seq({"EXIT", "PARTIAL"}) /\ Len(signals') <= Lane
      /\ NoAsk(signals) => NoAsk(signals')
      /\ OneAsk(signals) => OneAsk(signals')
  BY <1>0, TailAsks DEF IInv
<1>3. /\ pos' \in [Ids -> {None} \cup Positions] /\ cur' = NoId
      /\ \A i \in Ids : pos'[i] \in {pos[i], None}
      /\ \A i \in Ids : pos'[i] # None <=> i \in {cur', bar.pos, quote.pos}
      /\ closings' \in Nat /\ closings' + 0 <= opens
      /\ disk' = None /\ opens \in Nat /\ opens >= 1
  BY <1>0, <1>1, BookCloses
<1>4. HeapsTyped' /\ RestTyped' /\ Counted'
  BY <1>0, <1>2, <1>3 DEF IInv, HeapsTyped, RestTyped, Counted, objects, world
<1>5. Asking'
  BY <1>0, <1>2 DEF IInv, Asking, past, threads
<1>6. ~mixed => /\ \A i \in Ids : OfHolding(pos'[i], Entry)
                /\ OfHolding(disk', Entry)
  BY <1>3 DEF IInv, OneHolding, OfHolding
<1>7. BookMoves
  BY <1>3, <1>4, <1>5, <1>6 DEF BookMoves
<1> QED BY <1>0, <1>7, BookKeeps DEF past

(* A fill raises the stop to the entry at most; the PARTIAL_SELL that fills is the *)
(* only one there is, or excused.                                              *)
LEMMA SellFilledKeeps == ASSUME IInv, SellFilled PROVE IInv'
<1> DEFINE sold == Min({Wanted, shares})
           stop == Max({pos[cur].stop, pos[cur].entry})
           p == [pos[cur] EXCEPT !.qty = @ - sold, !.halved = TRUE,
                                 !.stop = Max({@, pos[cur].entry})]
<1>0. /\ signals # <<>> /\ signals' = Tail(signals) /\ Wanted > 0 /\ shares > 0
      /\ shares' = shares - sold
      /\ \/ /\ p.qty > 0 /\ pos' = [pos EXCEPT ![cur] = p]
            /\ disk' = p /\ UNCHANGED <<cur, closings>>
         \/ CloseBook
      /\ halving' = (IF Head(signals) = "PARTIAL" THEN Halved ELSE halving)
      /\ UNCHANGED <<world, objects, threads, opens, faults, mixed>>
  BY DEF SellFilled
<1>1. cur # NoId /\ cur \in Ids /\ pos[cur] \in Positions
  <2>1. cur # NoId
    BY <1>0 DEF Wanted
  <2> QED BY <2>1, Objects DEF IInv
<1>2. Wanted \in Nat /\ Wanted <= pos[cur].qty
  <2>1. pos[cur].qty \in Nat
    BY <1>1 DEF Positions
  <2>2. pos[cur].qty \div 2 \in Nat /\ pos[cur].qty \div 2 <= pos[cur].qty
    BY <2>1
  <2> QED BY <1>1, <2>1, <2>2 DEF Wanted
<1>3. sold \in Nat /\ sold <= Wanted /\ sold <= shares /\ shares \in 0..Qty /\ Qty \in Nat
  <2>1. Wanted \in Int /\ shares \in Int /\ shares \in 0..Qty /\ Qty \in Nat
    BY <1>2, ConstantsTyped DEF IInv, RestTyped
  <2>2. sold \in {Wanted, shares} /\ sold <= Wanted /\ sold <= shares
    BY <2>1, MinOfTwo
  <2> HIDE DEF sold
  <2> QED BY <1>2, <2>1, <2>2
<1> HIDE DEF sold
<1>4. stop \in Int /\ (pos[cur].stop <= pos[cur].entry => stop = pos[cur].entry)
  <2>1. pos[cur].stop \in Int /\ pos[cur].entry \in Int
    BY <1>1 DEF Positions
  <2>2. stop \in {pos[cur].stop, pos[cur].entry} /\ stop >= pos[cur].entry
    BY <2>1, MaxOfTwo
  <2> HIDE DEF stop
  <2> QED BY <2>1, <2>2
<1>5. /\ p \in Positions /\ p.entry = pos[cur].entry /\ p.kept = pos[cur].kept
      /\ pos[cur].stop <= pos[cur].entry => p.stop <= pos[cur].entry
  <2>1. p = [pos[cur] EXCEPT !.qty = @ - sold, !.halved = TRUE, !.stop = stop]
    OBVIOUS
  <2> HIDE DEF stop
  <2>2. pos[cur].qty - sold \in Nat /\ pos[cur].entry \in Nat
    <3>1. pos[cur].qty \in Nat /\ pos[cur].entry \in Nat
      BY <1>1 DEF Positions
    <3> QED BY <1>2, <1>3, <3>1
  <2>3. /\ p \in Positions /\ p.entry = pos[cur].entry /\ p.kept = pos[cur].kept
        /\ p.stop = stop
    BY <1>1, <1>4, <2>1, <2>2 DEF Positions
  <2> HIDE DEF p
  <2> QED BY <1>4, <2>2, <2>3
<1> HIDE DEF p, stop
<1>6. /\ signals' \in Seq({"EXIT", "PARTIAL"}) /\ Len(signals') <= Lane
      /\ NoAsk(signals) => NoAsk(signals') /\ Head(signals) # "PARTIAL"
      /\ OneAsk(signals) => OneAsk(signals')
      /\ OneAsk(signals) /\ Head(signals) = "PARTIAL" => NoAsk(signals')
  BY <1>0, TailAsks DEF IInv
<1>7. shares' \in 0..Qty
  BY <1>0, <1>3
<1>8. Asking' /\ (halving' = halving \/ (halving = "asked" /\ halving' = "filled"))
  <2>1. CASE Head(signals) # "PARTIAL"
    BY <1>0, <1>6, <2>1 DEF IInv, Asking, threads
  <2>2. CASE Head(signals) = "PARTIAL"
    <3>1. ~NoAsk(signals)
      BY <1>6, <2>2
    <3>2. halving \in {"asked", "excused"} /\ halving' = Halved
      BY <1>0, <2>2, <3>1 DEF IInv, Asking
    <3>3. CASE halving = "excused"
      BY <1>0, <3>2, <3>3 DEF Halved, Asking
    <3>4. CASE halving = "asked"
      <4>1. halving' = "filled"
        BY <3>2, <3>4 DEF Halved
      <4>2. OneAsk(signals) /\ ~Asks(bar) /\ ~Asks(quote)
        BY <3>1, <3>4 DEF IInv, Asking
      <4> QED BY <1>0, <1>6, <2>2, <3>4, <4>1, <4>2 DEF Asking, Asks, threads
    <3> QED BY <3>2, <3>3, <3>4
  <2> QED BY <2>1, <2>2
<1>9. BookMoves
  <2>1. CASE /\ pos' = [pos EXCEPT ![cur] = p] /\ disk' = p
             /\ UNCHANGED <<cur, closings>>
    <3>1. /\ pos' \in [Ids -> {None} \cup Positions]
          /\ \A i \in Ids : pos'[i] = IF i = cur THEN p ELSE pos[i]
      BY <1>1, <1>5, <2>1 DEF IInv, HeapsTyped
    <3>2. HeapsTyped' /\ RestTyped'
      BY <1>0, <1>5, <1>6, <1>7, <2>1, <3>1 DEF IInv, HeapsTyped, RestTyped, objects, world
    <3>3. Counted'
      <4>1. opens >= 1
        BY <1>1 DEF IInv, Counted, RestTyped
      <4> QED BY <1>0, <2>1, <4>1 DEF IInv, Counted
    <3>4. \A i \in Ids : pos'[i] # None <=> i \in {cur', bar.pos, quote.pos}
      BY <1>5, <2>1, <3>1, NotNone DEF IInv, Referred
    <3>5. OfHolding(pos[cur], Entry) => OfHolding(p, Entry)
      BY <1>1, <1>5, NotNone DEF OfHolding
    <3>6. ~mixed => /\ \A i \in Ids : OfHolding(pos'[i], Entry)
                    /\ OfHolding(disk', Entry)
      BY <1>1, <2>1, <3>1, <3>5 DEF IInv, OneHolding
    <3> QED BY <1>8, <3>2, <3>3, <3>4, <3>6 DEF BookMoves
  <2>2. CASE CloseBook
    <3>1. /\ pos' \in [Ids -> {None} \cup Positions] /\ cur' = NoId
          /\ \A i \in Ids : pos'[i] \in {pos[i], None}
          /\ \A i \in Ids : pos'[i] # None <=> i \in {cur', bar.pos, quote.pos}
          /\ closings' \in Nat /\ closings' + 0 <= opens
          /\ disk' = None /\ opens \in Nat /\ opens >= 1
      BY <1>1, <2>2, BookCloses
    <3>2. HeapsTyped' /\ RestTyped' /\ Counted'
      BY <1>0, <1>6, <1>7, <3>1 DEF IInv, HeapsTyped, RestTyped, Counted, objects, world
    <3>3. ~mixed => /\ \A i \in Ids : OfHolding(pos'[i], Entry)
                    /\ OfHolding(disk', Entry)
      BY <3>1 DEF IInv, OneHolding, OfHolding
    <3> QED BY <1>8, <3>1, <3>2, <3>3 DEF BookMoves
  <2> QED BY <1>0, <2>1, <2>2
<1> QED BY <1>0, <1>8, <1>9, BookKeeps
(* A start takes the position from the file or makes it anew, for what the broker *)
(* still holds; no thread, lifecycle or signal outlives it.                     *)
LEMMA RestartKeeps == ASSUME IInv, Restart PROVE IInv'
<1> DEFINE Sold == {0} \cup (IF signals = <<>> THEN {} ELSE {Min({Wanted, shares})})
           Found(left, lost, imported) ==
               IF disk # None /\ ~lost
               THEN [disk EXCEPT !.qty = IF left > 0 THEN left ELSE @]
               ELSE IF left = 0 THEN None
               ELSE Position(Entry, Entry - (IF imported THEN OrphanRisk ELSE Risk), left, imported)
<1>1. PICK sold \in Sold, lost \in BOOLEAN, imported \in BOOLEAN :
          /\ shares' = shares - sold
          /\ cur' = IF Found(shares - sold, lost, imported) = None THEN NoId ELSE 1
          /\ pos' = [i \in Ids |-> IF i = 1 THEN Found(shares - sold, lost, imported) ELSE None]
          /\ disk' = Found(shares - sold, lost, imported)
          /\ halving' = IF sold > 0 /\ Head(signals) = "PARTIAL" THEN Halved ELSE halving
  BY DEF Restart, Entry
<1>2. /\ lcs' = [i \in Ids |-> None] /\ reg' = NoId /\ faults' = faults + 1
      /\ bar' = Idle /\ quote' = Idle
      /\ signals' = <<>> /\ closings' = 0
      /\ UNCHANGED <<world, opens, mixed>>
  BY DEF Restart
<1> DEFINE left == shares - sold
           p == Found(left, lost, imported)
<1>3. shares \in Nat /\ shares \in 0..Qty /\ Qty \in Nat
  BY ConstantsTyped DEF IInv, RestTyped
<1>4. sold \in Nat /\ sold <= shares /\ (sold > 0 => signals # <<>>)
  <2>1. CASE sold = 0
    BY <1>3, <2>1
  <2>2. CASE signals # <<>> /\ sold = Min({Wanted, shares})
    <3>1. Wanted \in Nat
      <4>1. CASE cur = NoId
        BY <4>1 DEF Wanted
      <4>2. CASE cur # NoId
        <5>1. pos[cur].qty \in Nat
          BY <4>2, Objects DEF IInv, Positions
        <5> QED BY <4>2, <5>1 DEF Wanted
      <4> QED BY <4>1, <4>2
    <3>2. Wanted \in Int /\ shares \in Int
      BY <1>3, <3>1
    <3>3. sold \in {Wanted, shares} /\ sold <= shares
      BY <2>2, <3>2, MinOfTwo
    <3> QED BY <1>3, <2>2, <3>1, <3>3
  <2> QED BY <2>1, <2>2
<1> HIDE DEF Sold
<1>5. left \in Nat /\ left \in 0..Qty /\ left <= shares
  BY <1>3, <1>4
<1>6. /\ shares' = left /\ cur' = (IF p = None THEN NoId ELSE 1)
      /\ pos' = [i \in Ids |-> IF i = 1 THEN p ELSE None] /\ disk' = p
  BY <1>1
<1> HIDE DEF left
<1>7. opens \in 0..Len(Entries) /\ Len(Entries) \in Nat /\ (opens >= 1 => Entry \in Nat)
  <2>1. Entries \in Seq(Nat) /\ Len(Entries) \in Nat
    BY ConstantsTyped, LenProperties
  <2>2. opens \in 0..Len(Entries)
    BY DEF IInv, RestTyped
  <2>3. opens >= 1 => opens \in 1..Len(Entries)
    BY <2>1, <2>2
  <2> QED BY <2>1, <2>2, <2>3, ElementOfSeq DEF Entry
<1>8. /\ p \in {None} \cup Positions
      /\ p # None => opens >= 1
      /\ ~mixed => OfHolding(p, Entry)
  <2>1. CASE disk # None /\ ~lost
    <3>1. disk \in Positions /\ disk.qty \in Nat
      BY <2>1 DEF IInv, RestTyped, Positions
    <3>2. p = [disk EXCEPT !.qty = IF left > 0 THEN left ELSE @]
      BY <2>1
    <3> HIDE DEF p
    <3>3. /\ p \in Positions /\ p.entry = disk.entry /\ p.kept = disk.kept
          /\ p.stop = disk.stop
      BY <1>5, <3>1, <3>2 DEF Positions
    <3>4. ~mixed => OfHolding(p, Entry)
      BY <2>1, <3>3 DEF IInv, OneHolding, OfHolding
    <3> QED BY <2>1, <3>3, <3>4 DEF IInv, Counted
  <2>2. CASE ~(disk # None /\ ~lost) /\ left = 0
    <3>1. p = None
      BY <2>2
    <3> QED BY <3>1 DEF OfHolding
  <2>3. CASE ~(disk # None /\ ~lost) /\ left # 0
    <3> DEFINE risk == IF imported THEN OrphanRisk ELSE Risk
    <3>1. p = Position(Entry, Entry - risk, left, imported)
      BY <2>3
    <3> HIDE DEF p
    <3>2. opens >= 1
      BY <1>3, <1>5, <2>3 DEF IInv, Counted
    <3>3. risk \in Nat
      BY ConstantsTyped
    <3> HIDE DEF risk
    <3>4. Entry \in Nat /\ Entry - risk \in Int /\ Entry - risk <= Entry
      BY <1>7, <3>2, <3>3
    <3>5. p \in Positions /\ p.entry = Entry /\ p.kept = None /\ p.stop = Entry - risk
      BY <1>5, <3>1, <3>4 DEF Position, Positions
    <3> QED BY <3>2, <3>4, <3>5 DEF OfHolding
  <2> QED BY <2>1, <2>2, <2>3
<1> HIDE DEF p
<1>9. NoId \notin Ids /\ 1 \in Ids
  BY DEF NoId, Ids
<1>10. HeapsTyped' /\ ThreadsTyped'
  BY <1>2, <1>6, <1>8, <1>9 DEF HeapsTyped, ThreadsTyped, ThreadOK, Idle
<1>11. RestTyped'
  <2>1. signals' \in Seq({"EXIT", "PARTIAL"}) /\ Len(signals') = 0
    BY <1>2
  <2> QED BY <1>2, <1>5, <1>6, <1>8, <2>1, ConstantsTyped DEF IInv, RestTyped, world
<1>12. Referred'
  <2>1. \A i \in Ids : pos'[i] # None <=> i \in {cur', bar'.pos, quote'.pos}
    BY <1>2, <1>6, <1>9 DEF Idle
  <2>2. \A i \in Ids : lcs'[i] # None <=> i \in {reg', bar'.lc, quote'.lc}
    BY <1>2, <1>9 DEF Idle
  <2> QED BY <2>1, <2>2 DEF Referred
<1>13. Counted'
  <2>1. shares' > 0 => shares > 0
    BY <1>3, <1>5, <1>6
  <2>2. disk' # None => opens >= 1
    BY <1>6, <1>8
  <2>3. cur' # NoId => opens >= 1
    BY <1>6, <1>8
  <2> QED BY <1>2, <1>7, <2>1, <2>2, <2>3 DEF IInv, Counted
<1>14. Phased'
  BY <1>2 DEF Phased, Reaches, Idle
<1>15. OneHolding'
  <2>1. Entry' = Entry /\ mixed' = mixed
    BY <1>2 DEF Entry
  <2>2. ~mixed => \A i \in Ids : OfHolding(pos'[i], Entry) /\ LivesIn(lcs'[i], Entry)
    BY <1>2, <1>6, <1>8 DEF OfHolding, LivesIn
  <2>3. Tightens(bar', Entry) /\ Tightens(quote', Entry)
    BY <1>2 DEF Tightens, Idle
  <2> QED BY <1>6, <1>8, <2>1, <2>2, <2>3 DEF OneHolding
<1>16. Asking'
  <2>1. halving' \in {"none", "asked", "filled", "excused"}
    <3>1. CASE sold > 0 /\ Head(signals) = "PARTIAL"
      <4>1. ~NoAsk(signals)
        BY <1>4, <3>1, TailAsks DEF IInv
      <4>2. halving \in {"asked", "excused"}
        BY <4>1 DEF IInv, Asking
      <4> QED BY <1>1, <3>1, <4>2 DEF Halved
    <3>2. CASE ~(sold > 0 /\ Head(signals) = "PARTIAL")
      BY <1>1, <3>2 DEF IInv, Asking
    <3> QED BY <3>1, <3>2
  <2>2. DOMAIN signals' = {}
    BY <1>2
  <2> QED BY <1>2, <2>1, <2>2 DEF Asking, NoAsk, OneAsk, Asks, Idle
<1>17. Harvesting'
  BY <1>2 DEF Harvesting
<1> QED BY <1>10, <1>11, <1>12, <1>13, <1>14, <1>15, <1>16, <1>17 DEF IInv
(* A thread that has looked is about to exit, or to run the body of the phase the *)
(* lifecycle is in.                                                           *)
LEMMA LookedTyped ==
    ASSUME NEW p \in Ids, NEW i \in Ids, NEW l \in Lifecycles, NEW in \in Inputs,
           NEW t, t = Looked(p, i, l, in)
    PROVE  /\ ThreadOK(t, in.quote) /\ t.pos = p /\ t.lc = i
           /\ ~Asks(t) /\ \A entry : Tightens(t, entry)
           /\ t.at = "body" => t.phase = l.phase
<1>1. /\ l.phase \in Phases /\ Exit \in Decisions /\ Exit.act = "EXIT"
  BY DecisionsTyped DEF Lifecycles
<1> QED BY <1>1 DEF Looked, ThreadOK, Asks, Tightens

LEMMA BarInputsTyped ==
    ASSUME RestTyped, NEW in \in BarInputs
    PROVE  in \in Inputs /\ in.quote = FALSE /\ in.close \in Nat
<1>1. PICK b \in ShownBars, rsi \in Rsis, vwap \in Vwaps, strong \in Strengths :
          in = BarInput(b, rsi, vwap, strong)
  BY DEF BarInputs
<1>2. b \in [high : Nat, low : Nat, close : Nat] /\ rsi \in Nat /\ vwap \in Nat
  BY ConstantsTyped DEF ShownBars
<1>3. strong \in BOOLEAN
  BY DEF Strengths
<1> QED BY <1>1, <1>2, <1>3 DEF BarInput, Input, Inputs

(* A lifecycle that is made for a bar excuses a second PARTIAL_SELL, unless it is  *)
(* past asking.                                                               *)
LEMMA BarLooksKeeps == ASSUME IInv, BarLooks PROVE IInv'
<1> DEFINE Made(in) == Seen(IF reg = NoId THEN Created(pos[bar.pos], in.close) ELSE lcs[reg], in)
           i == IF reg = NoId THEN Unused(lcs) ELSE reg
<1>1. PICK in \in BarInputs :
          /\ pos' = [pos EXCEPT ![bar.pos].rsi = in.rsi, ![bar.pos].vwap = in.vwap]
          /\ lcs' = [lcs EXCEPT ![i] = Made(in)]
          /\ reg' = i
          /\ bar' = Looked(bar.pos, i, Made(in), in)
          /\ halving' = IF /\ reg = NoId /\ halving # "none"
                           /\ pos[bar.pos].kept = None \/ pos[bar.pos].kept.phase < 3
                        THEN "excused" ELSE halving
  BY DEF BarLooks
<1>2. bar.at = "seen" /\ UNCHANGED <<world, cur, quote, lanes, broker, faults, mixed>>
  BY DEF BarLooks
<1>3. in \in Inputs /\ in.quote = FALSE /\ in.close \in Nat /\ in.rsi \in Nat /\ in.vwap \in Nat
  BY BarInputsTyped DEF IInv, Inputs
<1> DEFINE p == pos[bar.pos]
           l == Made(in)
<1>4. /\ bar.pos \in Ids /\ bar.lc = NoId /\ p \in Positions /\ NoId \notin Ids
      /\ reg \in Ids \cup {NoId} /\ quote.lc \in Ids \cup {NoId}
      /\ reg # NoId => reg \in Ids /\ lcs[reg] \in Lifecycles
  <2>1. bar.pos \in Ids /\ bar.lc = NoId
    BY <1>2 DEF IInv, ThreadsTyped, ThreadOK
  <2> QED BY <2>1, Objects DEF IInv, HeapsTyped
<1>5. i \in Ids /\ (reg = NoId => lcs[i] = None)
  <2>1. CASE reg = NoId
    <3>1. \E j \in Ids : j # quote.lc
      BY DEF Ids
    <3>2. \E j \in Ids : lcs[j] = None
      BY <1>4, <2>1, <3>1 DEF IInv, Referred
    <3> QED BY <2>1, <3>2, UnusedIsFree
  <2> QED BY <1>4, <2>1
<1>6. /\ l \in Lifecycles
      /\ reg # NoId => l.phase = lcs[reg].phase
      /\ reg = NoId /\ p.kept # None => l.phase = p.kept.phase
      /\ ~mixed => LivesIn(l, Entry)
  <2>1. CASE reg = NoId
    <3> DEFINE c == Created(p, in.close)
    <3>1. /\ c \in Lifecycles /\ (p.kept # None => c.phase = p.kept.phase)
          /\ OfHolding(p, p.entry) => LivesIn(c, p.entry)
      BY <1>3, <1>4, CreatedTyped
    <3>2. l = Seen(c, in)
      BY <2>1
    <3> HIDE DEF c, l, p
    <3>3. l \in Lifecycles /\ l.phase = c.phase /\ l.trail = c.trail /\ l.entry = c.entry
      BY <1>3, <3>1, <3>2, SeenTyped
    <3>4. ~mixed => OfHolding(p, Entry) /\ p.entry = Entry
      BY <1>4, NotNone DEF IInv, OneHolding, OfHolding, p
    <3>5. ~mixed => LivesIn(l, Entry)
      BY <3>1, <3>3, <3>4, NotNone DEF LivesIn
    <3> QED BY <2>1, <3>1, <3>3, <3>5
  <2>2. CASE reg # NoId
    <3>1. l = Seen(lcs[reg], in)
      BY <2>2
    <3> HIDE DEF l
    <3>2. l \in Lifecycles /\ l.phase = lcs[reg].phase /\ l.trail = lcs[reg].trail
          /\ l.entry = lcs[reg].entry
      BY <1>3, <1>4, <2>2, <3>1, SeenTyped
    <3>3. ~mixed => LivesIn(l, Entry)
      BY <1>4, <2>2, <3>2, NotNone DEF IInv, OneHolding, LivesIn
    <3> QED BY <2>2, <3>2, <3>3
  <2> QED BY <2>1, <2>2
<1>7. /\ ThreadOK(bar', FALSE) /\ bar'.pos = bar.pos /\ bar'.lc = i
      /\ ~Asks(bar') /\ \A entry : Tightens(bar', entry)
      /\ bar'.at = "body" => bar'.phase = l.phase
  <2>1. bar' = Looked(bar.pos, i, l, in)
    BY <1>1
  <2> HIDE DEF i, l
  <2>2. /\ ThreadOK(bar', in.quote) /\ bar'.pos = bar.pos /\ bar'.lc = i
        /\ ~Asks(bar') /\ \A entry : Tightens(bar', entry)
        /\ bar'.at = "body" => bar'.phase = l.phase
    BY <1>3, <1>4, <1>5, <1>6, <2>1, LookedTyped
  <2>3. ThreadOK(bar', FALSE)
    BY <1>3, <2>2 DEF ThreadOK
  <2> QED BY <2>2, <2>3
<1> DEFINE q == [p EXCEPT !.rsi = in.rsi, !.vwap = in.vwap]
<1>8. /\ q \in Positions
      /\ \A entry : OfHolding(p, entry) => OfHolding(q, entry)
  <2>1. /\ q \in Positions /\ q.entry = p.entry /\ q.kept = p.kept /\ q.stop = p.stop
    BY <1>3, <1>4 DEF Positions
  <2> HIDE DEF p, q
  <2> QED BY <1>4, <2>1, NotNone DEF OfHolding
<1>9. /\ pos' \in [Ids -> {None} \cup Positions]
      /\ \A j \in Ids : pos'[j] = IF j = bar.pos THEN q ELSE pos[j]
  BY <1>1, <1>4, <1>8 DEF IInv, HeapsTyped
<1>10. /\ lcs' \in [Ids -> {None} \cup Lifecycles] /\ reg' = i
       /\ \A j \in Ids : lcs'[j] = IF j = i THEN l ELSE lcs[j]
  <2>1. lcs' = [lcs EXCEPT ![i] = l] /\ reg' = i
    BY <1>1
  <2> HIDE DEF l, i
  <2> QED BY <1>5, <1>6, <2>1 DEF IInv, HeapsTyped
<1>11. halving' = (IF /\ reg = NoId /\ halving # "none"
                      /\ p.kept = None \/ p.kept.phase < 3
                   THEN "excused" ELSE halving)
  BY <1>1
<1>12. quote.lc = i => reg # NoId
  BY <1>4, <1>5 DEF IInv, Referred
<1> HIDE DEF l, p, q
<1>13. HeapsTyped' /\ ThreadsTyped'
  BY <1>2, <1>5, <1>7, <1>9, <1>10 DEF IInv, HeapsTyped, ThreadsTyped
<1>14. RestTyped' /\ Counted'
  BY <1>2 DEF IInv, RestTyped, Counted, world, lanes, broker
<1>15. Referred'
  <2>1. \A j \in Ids : pos'[j] # None <=> j \in {cur', bar'.pos, quote'.pos}
    BY <1>2, <1>4, <1>7, <1>8, <1>9, NotNone DEF IInv, Referred
  <2>2. \A j \in Ids : lcs'[j] # None <=> j \in {reg', bar'.lc, quote'.lc}
    <3>1. \A j \in Ids : j # i => (lcs[j] # None <=> j = quote.lc)
      BY <1>4 DEF IInv, Referred
    <3> HIDE DEF i
    <3> QED BY <1>2, <1>5, <1>6, <1>7, <1>10, <3>1, NotNone
  <2> QED BY <2>1, <2>2 DEF Referred
<1>16. Phased'
  <2>1. bar'.at = "body" => bar'.phase = lcs'[bar'.lc].phase
    BY <1>5, <1>7, <1>10
  <2>2. quote.at = "body" => quote.lc \in Ids /\ lcs'[quote.lc].phase = lcs[quote.lc].phase
    <3>1. quote.at = "body" => quote.lc \in Ids
      BY DEF IInv, ThreadsTyped, ThreadOK
    <3>2. quote.lc = i => l.phase = lcs[quote.lc].phase
      BY <1>6, <1>12
    <3> QED BY <1>10, <3>1, <3>2
  <2>3. Reaches(quote)'
    BY <1>2, <2>2 DEF IInv, Phased, Reaches
  <2> QED BY <2>1, <2>3 DEF Phased, Reaches
<1>17. OneHolding'
  <2>1. mixed' = mixed /\ Entry' = Entry /\ disk' = disk /\ quote' = quote
    BY <1>2 DEF broker, Entry
  <2>2. ASSUME ~mixed
        PROVE  \A j \in Ids : OfHolding(pos'[j], Entry) /\ LivesIn(lcs'[j], Entry)
    BY <1>4, <1>6, <1>8, <1>9, <1>10, <2>2 DEF IInv, OneHolding, p
  <2> QED BY <1>7, <2>1, <2>2 DEF IInv, OneHolding
<1>18. Asking'
  BY <1>2, <1>7, <1>11 DEF IInv, Asking, lanes, Asks, ThreadsTyped, ThreadOK
<1>19. Harvesting'
  <2> SUFFICES ASSUME eod' = "open", halving' \in {"asked", "filled"}
               PROVE  lcs'[reg'].phase >= 3
    BY DEF Harvesting
  <2>1. halving' = halving /\ eod = "open" /\ lcs'[reg'] = l
    BY <1>2, <1>5, <1>10, <1>11 DEF world
  <2>2. CASE reg # NoId
    BY <1>6, <2>1, <2>2 DEF IInv, Harvesting
  <2>3. CASE reg = NoId
    <3>1. p.kept # None /\ ~(p.kept.phase < 3)
      BY <1>11, <2>1, <2>3
    <3>2. p.kept.phase \in Nat
      BY <1>4, <3>1 DEF Positions, KeptStates, Phases
    <3> QED BY <1>6, <2>1, <2>3, <3>1, <3>2
  <2> QED BY <2>2, <2>3
<1> QED BY <1>13, <1>14, <1>15, <1>16, <1>17, <1>18, <1>19 DEF IInv
(* A quote evaluates the lifecycle that is registered.                          *)
LEMMA QuoteLooksKeeps == ASSUME IInv, QuoteLooks PROVE IInv'
<1> DEFINE In(bid) == Input(bid, bid, bid, TRUE, pos[cur].rsi, pos[cur].vwap, TRUE)
<1>1. PICK bid \in ShownBids :
          /\ lcs' = [lcs EXCEPT ![reg] = Seen(lcs[reg], In(bid))]
          /\ quote' = Looked(cur, reg, Seen(lcs[reg], In(bid)), In(bid))
  BY DEF QuoteLooks
<1>2. /\ quote.at = "idle" /\ cur # NoId /\ reg # NoId
      /\ UNCHANGED <<world, book, reg, bar, lanes, broker, faults, past>>
  BY DEF QuoteLooks
<1>3. /\ cur \in Ids /\ pos[cur] \in Positions /\ reg \in Ids /\ lcs[reg] \in Lifecycles
      /\ quote.pos = NoId /\ quote.lc = NoId /\ NoId \notin Ids
  BY <1>2, Objects DEF IInv, ThreadsTyped, ThreadOK
<1> DEFINE in == In(bid)
           l == Seen(lcs[reg], in)
<1>4. in \in Inputs /\ in.quote = TRUE
  <2>1. bid \in Nat
    BY ConstantsTyped DEF ShownBids
  <2>2. pos[cur].rsi \in Nat /\ pos[cur].vwap \in Nat
    BY <1>3 DEF Positions
  <2> QED BY <2>1, <2>2 DEF Input, Inputs
<1>5. lcs' = [lcs EXCEPT ![reg] = l] /\ quote' = Looked(cur, reg, l, in)
  BY <1>1
<1> HIDE DEF in
<1>6. /\ l \in Lifecycles /\ l.phase = lcs[reg].phase
      /\ l.trail = lcs[reg].trail /\ l.entry = lcs[reg].entry
  BY <1>3, <1>4, SeenTyped
<1> HIDE DEF l
<1>7. /\ ThreadOK(quote', TRUE) /\ quote'.pos = cur /\ quote'.lc = reg
      /\ ~Asks(quote') /\ \A entry : Tightens(quote', entry)
      /\ quote'.at = "body" => quote'.phase = l.phase
  <2>1. /\ ThreadOK(quote', in.quote) /\ quote'.pos = cur /\ quote'.lc = reg
        /\ ~Asks(quote') /\ \A entry : Tightens(quote', entry)
        /\ quote'.at = "body" => quote'.phase = l.phase
    BY <1>3, <1>4, <1>5, <1>6, LookedTyped
  <2>2. ThreadOK(quote', TRUE)
    BY <1>4, <2>1 DEF ThreadOK
  <2> QED BY <2>1, <2>2
<1>8. /\ lcs' \in [Ids -> {None} \cup Lifecycles]
      /\ \A j \in Ids : lcs'[j] = IF j = reg THEN l ELSE lcs[j]
  BY <1>3, <1>5, <1>6 DEF IInv, HeapsTyped
<1>9. HeapsTyped' /\ ThreadsTyped'
  BY <1>2, <1>7, <1>8 DEF IInv, HeapsTyped, ThreadsTyped, book
<1>10. RestTyped' /\ Counted'
  BY <1>2 DEF IInv, RestTyped, Counted, world, book, lanes, broker
<1>11. Referred'
  BY <1>2, <1>3, <1>6, <1>7, <1>8, NotNone DEF IInv, Referred, book
<1>12. Phased'
  <2>1. quote'.at = "body" => quote'.phase = lcs'[quote'.lc].phase
    BY <1>3, <1>7, <1>8
  <2>2. bar.at = "body" => lcs'[bar.lc].phase = lcs[bar.lc].phase
    <3>1. bar.at = "body" => bar.lc \in Ids
      BY DEF IInv, ThreadsTyped, ThreadOK
    <3> QED BY <1>6, <1>8, <3>1
  <2> QED BY <1>2, <2>1, <2>2 DEF IInv, Phased, Reaches
<1>13. OneHolding'
  <2>1. LivesIn(lcs[reg], Entry) => LivesIn(l, Entry)
    BY <1>3, <1>6, NotNone DEF LivesIn
  <2>2. Entry' = Entry
    BY <1>2 DEF Entry, broker
  <2> QED BY <1>2, <1>3, <1>7, <1>8, <2>1, <2>2 DEF IInv, OneHolding, book, broker, past
<1>14. Asking'
  BY <1>2, <1>7 DEF IInv, Asking, lanes, past
<1>15. Harvesting'
  BY <1>2, <1>3, <1>6, <1>8 DEF IInv, Harvesting, world, past
<1> QED BY <1>9, <1>10, <1>11, <1>12, <1>13, <1>14, <1>15 DEF IInv

(* What a thread decides: no lifecycle goes back to a phase the other thread has   *)
(* not yet read, and a PARTIAL_SELL is asked for once or excused.                *)
Decides(t, o) ==
    /\ t.pos \in Ids /\ t.lc \in Ids /\ lcs[t.lc] \in Lifecycles
    /\ o.lc \in Lifecycles /\ o.d \in Decisions
    /\ lcs[t.lc].phase >= 1 => o.lc.phase >= 1
    /\ lcs[t.lc].phase >= 2 => o.lc.phase >= 2
    /\ t.in.quote /\ lcs[t.lc].phase = 0 => o.lc = lcs[t.lc]
    /\ ~mixed => LivesIn(o.lc, Entry) /\ (o.d.act = "TIGHTEN" => o.d.stop <= Entry)
Asked(t, o) ==
    \/ halving' = "excused"
    \/ /\ halving = "none" /\ halving' = "asked" /\ t.lc = reg
       /\ eod = "open" /\ o.lc.phase = 3
    \/ /\ halving' = halving /\ o.d.act # "PARTIAL" /\ t.lc = reg
       /\ eod = "open" /\ halving \in {"asked", "filled"} => o.lc.phase >= 3

LEMMA Decision ==
    ASSUME IInv, NEW t, t \in {bar, quote}, t.at = "body",
           NEW o, o = Body(t.phase, lcs[t.lc], t.in), halving' = Halving(t, o)
    PROVE  Decides(t, o) /\ Asked(t, o)
<1> DEFINE lc == lcs[t.lc]
<1>1. /\ t.pos \in Ids /\ t.lc \in Ids /\ lc \in Lifecycles
      /\ t.phase \in Phases /\ t.in \in Inputs
      /\ t.phase = 0 => t.in.quote \/ lc.phase = 0
      /\ t.phase >= 1 => lc.phase >= 1
      /\ t.phase >= 2 => lc.phase >= 2
  <2>1. CASE t = bar
    BY <2>1, Objects DEF IInv, ThreadsTyped, ThreadOK, Phased, Reaches
  <2>2. CASE t = quote
    BY <2>2, Objects DEF IInv, ThreadsTyped, ThreadOK, Phased, Reaches
  <2> QED BY <2>1, <2>2
<1>2. Moves(t.phase, lc, t.in, o)
  BY <1>1, BodyMoves
<1>3. ~mixed => LivesIn(lc, Entry)
  BY <1>1 DEF IInv, OneHolding
<1>4. /\ lc.phase \in 0..4 /\ t.phase \in 0..4 /\ o.lc.phase \in 0..4
      /\ lc.trail \in Int /\ o.lc.trail \in Int /\ lc.entry \in Nat /\ lc # None
  BY <1>1, <1>2, NotNone DEF Moves, Lifecycles, Phases
<1>5. halving' = IF Stale(t) \/ (o.d = Partial /\ eod # "open") THEN "excused"
                 ELSE IF o.d = Partial /\ halving = "none" THEN "asked" ELSE halving
  BY DEF Halving
<1>6. Stale(t) <=> (t.phase # lc.phase \/ t.lc # reg)
  BY DEF Stale
<1>7. o.d \in Decisions /\ (o.d = Partial <=> o.d.act = "PARTIAL")
  BY <1>2, OnePartial DEF Moves
<1>8. Harvesting /\ reg \in Ids \cup {NoId} /\ NoId \notin Ids
  BY Objects DEF IInv, HeapsTyped
<1>9. t.lc = reg => lc = lcs[reg]
  OBVIOUS
<1> HIDE DEF lc
<1>10. /\ lc.phase >= 1 => o.lc.phase >= 1
       /\ lc.phase >= 2 => o.lc.phase >= 2
  BY <1>1, <1>2, <1>4 DEF Moves
<1>11. ~mixed => LivesIn(o.lc, Entry)
  <2> SUFFICES ASSUME ~mixed PROVE LivesIn(o.lc, Entry)
    OBVIOUS
  <2>1. lc.entry = Entry /\ (lc.phase <= 1 => lc.trail <= Entry)
    BY <1>3, <1>4 DEF LivesIn
  <2>2. o.lc.entry = Entry
    BY <1>2, <2>1 DEF Moves
  <2>3. ASSUME o.lc.phase <= 1 PROVE o.lc.trail <= Entry
    <3>1. lc.phase <= 1
      BY <1>1, <1>2, <1>4, <2>3 DEF Moves
    <3>2. t.phase <= 1
      BY <1>1, <1>4, <3>1
    <3>3. o.lc.trail = lc.trail
      BY <1>2, <1>4, <2>3, <3>2 DEF Moves
    <3> QED BY <2>1, <3>1, <3>3
  <2> QED BY <2>2, <2>3 DEF LivesIn
<1>12. ~mixed /\ o.d.act = "TIGHTEN" => o.d.stop <= Entry
  <2> SUFFICES ASSUME ~mixed, o.d.act = "TIGHTEN" PROVE o.d.stop <= Entry
    OBVIOUS
  <2>1. lc.entry = Entry
    BY <1>3, <1>4 DEF LivesIn
  <2>2. t.phase = 1
    BY <1>2, <1>4 DEF Moves
  <2>3. o.d.stop = lc.entry
    BY <1>2, <2>2 DEF Moves
  <2> QED BY <1>4, <2>1, <2>3
<1>13. Decides(t, o)
  <2>1. o.lc \in Lifecycles /\ o.d \in Decisions
    BY <1>2 DEF Moves
  <2>2. t.in.quote /\ lc.phase = 0 => o.lc = lc
    BY <1>1, <1>2, <1>4 DEF Moves
  <2> QED BY <1>1, <1>10, <1>11, <1>12, <2>1, <2>2 DEF Decides, lc
<1>14. Asked(t, o)
  <2>1. CASE Stale(t) \/ (o.d = Partial /\ eod # "open")
    BY <1>5, <2>1 DEF Asked
  <2>2. CASE ~Stale(t) /\ o.d = Partial /\ eod = "open" /\ halving = "none"
    <3>1. halving' = "asked" /\ t.lc = reg
      BY <1>5, <1>6, <2>2
    <3>2. o.lc.phase = 3
      BY <1>2, <1>7, <2>2 DEF Moves
    <3> QED BY <2>2, <3>1, <3>2 DEF Asked
  <2>3. CASE ~Stale(t) /\ ~(o.d = Partial /\ eod # "open") /\ ~(o.d = Partial /\ halving = "none")
    <3>1. halving' = halving /\ t.lc = reg /\ t.phase = lc.phase
      BY <1>5, <1>6, <2>3
    <3>2. CASE eod = "open" /\ halving \in {"asked", "filled"}
      <4>1. lc.phase >= 3
        BY <1>1, <1>8, <1>9, <3>1, <3>2 DEF Harvesting
      <4>2. o.lc.phase >= 3 /\ o.d.act # "PARTIAL"
        BY <1>2, <1>4, <3>1, <4>1 DEF Moves
      <4> QED BY <3>1, <4>2 DEF Asked
    <3>3. CASE halving = "excused"
      BY <3>1, <3>3 DEF Asked
    <3>4. CASE halving = "none" \/ eod # "open"
      <4>1. o.d.act # "PARTIAL"
        BY <1>7, <2>3, <3>4
      <4> QED BY <3>1, <3>2, <4>1 DEF Asked
    <3>5. halving \in {"none", "asked", "filled", "excused"}
      BY DEF IInv, Asking
    <3> QED BY <3>2, <3>3, <3>4, <3>5
  <2> QED BY <2>1, <2>2, <2>3
<1> QED BY <1>13, <1>14
LEMMA BarDecidesKeeps == ASSUME IInv, BarDecides PROVE IInv'
<1>1. PICK o :
          /\ o = Body(bar.phase, lcs[bar.lc], bar.in)
          /\ lcs' = [lcs EXCEPT ![bar.lc] = o.lc]
          /\ bar' = Decided(bar, o)
          /\ halving' = Halving(bar, o)
  BY DEF BarDecides
<1>2. bar.at = "body" /\ UNCHANGED <<world, book, reg, quote, lanes, broker, faults, mixed>>
  BY DEF BarDecides
<1>3. Decides(bar, o) /\ Asked(bar, o)
  BY <1>1, <1>2, Decision
<1>4. /\ bar'.at = "act" /\ bar'.pos = bar.pos /\ bar'.lc = bar.lc /\ bar'.d = o.d
  BY <1>1 DEF Decided
<1>5. /\ bar.lc \in Ids /\ o.lc \in Lifecycles /\ NoId \notin Ids
      /\ lcs' \in [Ids -> {None} \cup Lifecycles]
      /\ \A j \in Ids : lcs'[j] = IF j = bar.lc THEN o.lc ELSE lcs[j]
  BY <1>1, <1>3, Objects DEF Decides, IInv, HeapsTyped
<1>6. HeapsTyped' /\ ThreadsTyped'
  BY <1>2, <1>3, <1>4, <1>5 DEF Decides, IInv, HeapsTyped, ThreadsTyped, ThreadOK, book
<1>7. RestTyped' /\ Counted'
  BY <1>2 DEF IInv, RestTyped, Counted, world, book, lanes, broker
<1>8. Referred'
  BY <1>2, <1>4, <1>5, NotNone DEF IInv, Referred, book
<1>9. Phased'
  <2>1. quote.at = "body" => quote.lc \in Ids
    BY DEF IInv, ThreadsTyped, ThreadOK
  <2> QED BY <1>2, <1>3, <1>4, <1>5, <2>1 DEF Decides, IInv, Phased, Reaches
<1>10. OneHolding'
  <2>1. Entry' = Entry
    BY <1>2 DEF Entry, broker
  <2>2. ~mixed => \A j \in Ids : LivesIn(lcs'[j], Entry)
    BY <1>3, <1>5 DEF Decides, IInv, OneHolding
  <2>3. ~mixed => Tightens(bar', Entry)
    BY <1>3, <1>4 DEF Decides, Tightens
  <2> QED BY <1>2, <2>1, <2>2, <2>3 DEF IInv, OneHolding, book, broker
<1>11. Asking'
  <2>1. NoAsk(signals) => OneAsk(signals)
    BY DEF NoAsk, OneAsk
  <2>2. Asks(bar') <=> o.d.act = "PARTIAL"
    BY <1>4 DEF Asks
  <2> QED BY <1>2, <1>3, <2>1, <2>2 DEF Asked, IInv, Asking, lanes
<1>12. Harvesting'
  <2> SUFFICES ASSUME eod' = "open", halving' \in {"asked", "filled"}
               PROVE  lcs'[reg'].phase >= 3
    BY DEF Harvesting
  <2>1. eod = "open" /\ bar.lc = reg /\ o.lc.phase >= 3
    BY <1>2, <1>3 DEF Asked, world
  <2> QED BY <1>2, <1>5, <2>1
<1> QED BY <1>6, <1>7, <1>8, <1>9, <1>10, <1>11, <1>12 DEF IInv

(* On a HOLD a quote lets go of what it held.                                   *)
LEMMA QuoteDecidesKeeps == ASSUME IInv, QuoteDecides PROVE IInv'
<1> DEFINE Held(o) == [lcs EXCEPT ![quote.lc] = o.lc]
<1>1. PICK o :
          /\ o = Body(quote.phase, lcs[quote.lc], quote.in)
          /\ \/ /\ quote' = Idle
                /\ lcs' = Only(Held(o), {reg, bar.lc})
                /\ pos' = Only(pos, {cur, bar.pos})
             \/ quote' = Decided(quote, o) /\ lcs' = Held(o) /\ UNCHANGED pos
          /\ halving' = Halving(quote, o)
          /\ quote' = Idle => o.d.act = "HOLD"
  <2>1. PICK o \in {Body(quote.phase, lcs[quote.lc], quote.in)} :
          /\ IF o.d.act = "HOLD"
             THEN /\ quote' = Idle
                  /\ lcs' = Only(Held(o), {reg, bar.lc})
                  /\ pos' = Only(pos, {cur, bar.pos})
             ELSE quote' = Decided(quote, o) /\ lcs' = Held(o) /\ UNCHANGED pos
          /\ halving' = Halving(quote, o)
    BY DEF QuoteDecides
  <2>2. Decided(quote, o) # Idle
    BY DEF Decided, Idle
  <2> QED BY <2>1, <2>2
<1>2. quote.at = "body" /\ UNCHANGED <<world, cur, reg, bar, lanes, broker, faults, mixed>>
  BY DEF QuoteDecides
<1>3. Decides(quote, o) /\ Asked(quote, o)
  BY <1>1, <1>2, Decision
<1> DEFINE held == Held(o)
<1>4. /\ quote.lc \in Ids /\ quote.pos \in Ids /\ o.lc \in Lifecycles /\ NoId \notin Ids
      /\ quote.in.quote
      /\ held \in [Ids -> {None} \cup Lifecycles]
      /\ \A j \in Ids : held[j] = IF j = quote.lc THEN o.lc ELSE lcs[j]
  <2>1. quote.in.quote
    BY <1>2 DEF IInv, ThreadsTyped, ThreadOK
  <2> QED BY <1>3, <2>1, Objects DEF Decides, IInv, HeapsTyped
<1>5. /\ quote' = Idle
         \/ (quote'.at = "act" /\ quote'.pos = quote.pos /\ quote'.lc = quote.lc
              /\ quote'.d = o.d)
      /\ quote'.at # "body" /\ quote'.pos \in {quote.pos, NoId}
      /\ Asks(quote') <=> o.d.act = "PARTIAL"
  BY <1>1, DecisionsTyped DEF Decided, Idle, Asks
<1>6. /\ lcs' \in [Ids -> {None} \cup Lifecycles]
      /\ \A j \in Ids : lcs'[j] = IF j \in {reg, bar.lc, quote'.lc} THEN held[j] ELSE None
  <2>1. CASE quote' = Idle /\ lcs' = Only(Held(o), {reg, bar.lc})
    <3> DEFINE only == Only(held, {reg, bar.lc})
    <3> HIDE DEF held
    <3>1. /\ only \in [Ids -> {None} \cup Lifecycles]
          /\ \A j \in Ids : only[j] = IF j \in {reg, bar.lc} THEN held[j] ELSE None
      BY <1>4, OnlyTyped
    <3>2. lcs' = only
      BY <2>1 DEF held
    <3> HIDE DEF only
    <3> QED BY <1>4, <2>1, <3>1, <3>2 DEF Idle
  <2>2. CASE quote' = Decided(quote, o) /\ lcs' = Held(o)
    <3>1. lcs' = held /\ quote'.lc = quote.lc
      BY <2>2 DEF Decided
    <3> HIDE DEF held
    <3> QED BY <1>4, <3>1 DEF IInv, Referred
  <2> QED BY <1>1, <2>1, <2>2
<1>7. /\ pos' \in [Ids -> {None} \cup Positions]
      /\ \A j \in Ids : pos'[j] = IF j \in {cur, bar.pos, quote'.pos} THEN pos[j] ELSE None
  <2>0. pos \in [Ids -> {None} \cup Positions]
    BY DEF IInv, HeapsTyped
  <2>1. CASE quote' = Idle /\ pos' = Only(pos, {cur, bar.pos})
    <3> DEFINE only == Only(pos, {cur, bar.pos})
    <3>1. /\ only \in [Ids -> {None} \cup Positions]
          /\ \A j \in Ids : only[j] = IF j \in {cur, bar.pos} THEN pos[j] ELSE None
      BY <2>0, OnlyTyped
    <3>2. pos' = only
      BY <2>1
    <3> HIDE DEF only
    <3> QED BY <1>4, <2>1, <3>1, <3>2 DEF Idle
  <2>2. CASE quote' = Decided(quote, o) /\ pos' = pos
    <3>1. quote'.pos = quote.pos
      BY <2>2 DEF Decided
    <3> QED BY <2>0, <2>2, <3>1 DEF IInv, Referred
  <2> QED BY <1>1, <2>1, <2>2
<1> HIDE DEF held
<1>8. HeapsTyped' /\ ThreadsTyped'
  <2>1. ThreadOK(quote', TRUE)
    BY <1>3, <1>5 DEF Decides, ThreadOK, Idle
  <2> QED BY <1>2, <1>6, <1>7, <2>1 DEF IInv, HeapsTyped, ThreadsTyped
<1>9. RestTyped' /\ Counted'
  BY <1>2 DEF IInv, RestTyped, Counted, world, lanes, broker
<1>10. Referred'
  <2>1. \A j \in Ids : pos'[j] # None <=> j \in {cur, bar.pos, quote'.pos}
    BY <1>5, <1>7, <1>4 DEF IInv, Referred, Idle
  <2>2. \A j \in Ids : lcs'[j] # None <=> j \in {reg, bar.lc, quote'.lc}
    <3>1. \A j \in {reg, bar.lc, quote.lc} : j \in Ids => held[j] # None
      BY <1>4, NotNone DEF IInv, Referred
    <3>2. quote'.lc \in {quote.lc, NoId}
      BY <1>5 DEF Idle
    <3> QED BY <1>4, <1>6, <3>1, <3>2
  <2> QED BY <1>2, <2>1, <2>2 DEF Referred
<1>11. Phased'
  <2>1. bar.at = "body" => bar.lc \in Ids /\ lcs'[bar.lc] = held[bar.lc]
    BY <1>6 DEF IInv, ThreadsTyped, ThreadOK
  <2>2. bar.at = "body" =>
          /\ bar.phase >= 1 => held[bar.lc].phase >= 1
          /\ bar.phase >= 2 => held[bar.lc].phase >= 2
          /\ bar.phase = 0 => held[bar.lc].phase = 0
    BY <1>3, <1>4, <2>1 DEF Decides, IInv, Phased, Reaches
  <2> QED BY <1>2, <1>5, <2>1, <2>2 DEF Phased, Reaches
<1>12. OneHolding'
  <2>1. Entry' = Entry /\ mixed' = mixed /\ disk' = disk /\ bar' = bar
    BY <1>2 DEF Entry, broker
  <2>2. ~mixed => \A j \in Ids : LivesIn(lcs'[j], Entry)
    BY <1>3, <1>4, <1>6 DEF Decides, IInv, OneHolding, LivesIn
  <2>3. ~mixed => \A j \in Ids : OfHolding(pos'[j], Entry)
    BY <1>7 DEF IInv, OneHolding, OfHolding
  <2>4. ~mixed => Tightens(quote', Entry)
    BY <1>3, <1>5 DEF Decides, Tightens, Idle
  <2> QED BY <2>1, <2>2, <2>3, <2>4 DEF IInv, OneHolding
<1>13. Asking'
  <2>1. NoAsk(signals) => OneAsk(signals)
    BY DEF NoAsk, OneAsk
  <2> QED BY <1>2, <1>3, <1>5, <2>1 DEF Asked, IInv, Asking, lanes
<1>14. Harvesting'
  <2> SUFFICES ASSUME eod' = "open", halving' \in {"asked", "filled"}
               PROVE  lcs'[reg'].phase >= 3
    BY DEF Harvesting
  <2>1. eod = "open" /\ quote.lc = reg /\ o.lc.phase >= 3
    BY <1>2, <1>3 DEF Asked, world
  <2> QED BY <1>2, <1>4, <1>6, <2>1
<1> QED BY <1>8, <1>9, <1>10, <1>11, <1>12, <1>13, <1>14 DEF IInv
(* Acting on a decision: what was decided comes into the lane.                   *)
LEMMA ActAsks ==
    ASSUME IInv, NEW t, NEW other, t.at = "act", t.d \in Decisions,
           <<t, other>> \in {<<bar, quote>>, <<quote, bar>>},
           IF t.d.act \in {"EXIT", "PARTIAL"} THEN Emit(t.d.act) ELSE UNCHANGED signals
    PROVE  /\ signals' \in Seq({"EXIT", "PARTIAL"}) /\ Len(signals') <= Lane
           /\ halving \in {"none", "filled"} => NoAsk(signals') /\ ~Asks(other)
           /\ halving = "asked" => /\ OneAsk(signals')
                                   /\ Asks(other) => NoAsk(signals')
<1>1. RestTyped /\ Asking
  BY DEF IInv
<1>2. /\ halving \in {"none", "filled"} => NoAsk(signals) /\ ~Asks(t) /\ ~Asks(other)
      /\ halving = "asked" => /\ OneAsk(signals) /\ ~(Asks(t) /\ Asks(other))
                              /\ Asks(t) \/ Asks(other) => NoAsk(signals)
  BY <1>1 DEF Asking
<1>3. CASE t.d.act = "EXIT"
  <2>1. Emit("EXIT")
    BY <1>3
  <2>2. /\ signals' \in Seq({"EXIT", "PARTIAL"}) /\ Len(signals') <= Lane
        /\ NoAsk(signals) => NoAsk(signals')
        /\ OneAsk(signals) => OneAsk(signals')
    BY <1>1, <2>1, EmitAsks
  <2> QED BY <1>2, <2>2
<1>4. CASE t.d.act = "PARTIAL"
  <2>1. Emit("PARTIAL") /\ Asks(t)
    BY <1>4 DEF Asks
  <2>2. /\ signals' \in Seq({"EXIT", "PARTIAL"}) /\ Len(signals') <= Lane
        /\ NoAsk(signals) => OneAsk(signals')
    BY <1>1, <2>1, EmitAsks
  <2> QED BY <1>2, <2>1, <2>2
<1>5. CASE t.d.act \notin {"EXIT", "PARTIAL"}
  <2>1. signals' = signals
    BY <1>5
  <2> QED BY <1>1, <1>2, <2>1 DEF RestTyped
<1> QED BY <1>3, <1>4, <1>5

(* A bar keeps the lifecycle's state on the position it holds, and raises its stop. *)
LEMMA BarActsKeeps == ASSUME IInv, BarActs PROVE IInv'
<1> DEFINE lc == lcs[bar.lc]
           d == bar.d
           stop == IF d.act \in {"HOLD", "TIGHTEN"} THEN Max({pos[bar.pos].stop, d.stop})
                   ELSE pos[bar.pos].stop
           p == [pos[bar.pos] EXCEPT !.kept = Kept(lc), !.stop = stop]
           left == IF d.act = "EXIT" THEN NoId ELSE reg
           put == [pos EXCEPT ![bar.pos] = p]
<1>1. /\ pos' = Only(put, {cur, quote.pos}) /\ reg' = left
      /\ lcs' = Only(lcs, {left, quote.lc})
  BY DEF BarActs
<1>2. /\ bar.at = "act" /\ bar' = Idle
      /\ IF d.act \in {"EXIT", "PARTIAL"} THEN Emit(d.act) ELSE UNCHANGED signals
      /\ UNCHANGED <<world, cur, quote, closings, broker, faults, past>>
  BY DEF BarActs
<1>3. /\ bar.pos \in Ids /\ bar.lc \in Ids /\ d \in Decisions /\ NoId \notin Ids
      /\ pos[bar.pos] \in Positions /\ lc \in Lifecycles /\ reg \in Ids \cup {NoId}
  BY <1>2, Objects DEF IInv, ThreadsTyped, ThreadOK, HeapsTyped
<1>4. stop \in Int
  <2>1. pos[bar.pos].stop \in Int /\ d.stop \in Int
    BY <1>3 DEF Positions, Decisions
  <2>2. Max({pos[bar.pos].stop, d.stop}) \in {pos[bar.pos].stop, d.stop}
    BY <2>1, MaxOfTwo
  <2> QED BY <2>1, <2>2
<1>5. /\ Kept(lc) \in KeptStates /\ Kept(lc).phase = lc.phase /\ Kept(lc).trail = lc.trail
  BY <1>3, KeptTyped
<1> HIDE DEF stop
<1>6. p \in Positions /\ p.entry = pos[bar.pos].entry /\ p.kept = Kept(lc)
  BY <1>3, <1>4, <1>5 DEF Positions
<1>7. ~mixed => OfHolding(p, Entry)
  <2> HIDE DEF p, lc
  <2>1. ~mixed => OfHolding(pos[bar.pos], Entry) /\ LivesIn(lc, Entry)
    BY <1>3 DEF IInv, OneHolding, lc
  <2> QED BY <1>3, <1>5, <1>6, <2>1, NotNone DEF OfHolding, LivesIn
<1> HIDE DEF p
<1>8. /\ put \in [Ids -> {None} \cup Positions]
      /\ \A j \in Ids : put[j] = IF j = bar.pos THEN p ELSE pos[j]
  BY <1>3, <1>6 DEF IInv, HeapsTyped
<1>9. /\ pos' \in [Ids -> {None} \cup Positions]
      /\ \A j \in Ids : pos'[j] = IF j \in {cur, quote.pos} THEN put[j] ELSE None
  <2> DEFINE only == Only(put, {cur, quote.pos})
  <2>1. pos' = only
    BY <1>1
  <2> HIDE DEF put
  <2>2. /\ only \in [Ids -> {None} \cup Positions]
        /\ \A j \in Ids : only[j] = IF j \in {cur, quote.pos} THEN put[j] ELSE None
    BY <1>8, OnlyTyped
  <2> HIDE DEF only
  <2> QED BY <2>1, <2>2
<1>10. /\ lcs' \in [Ids -> {None} \cup Lifecycles]
       /\ \A j \in Ids : lcs'[j] = IF j \in {left, quote.lc} THEN lcs[j] ELSE None
  <2> DEFINE only == Only(lcs, {left, quote.lc})
  <2>1. lcs' = only
    BY <1>1
  <2>2. lcs \in [Ids -> {None} \cup Lifecycles]
    BY DEF IInv, HeapsTyped
  <2> HIDE DEF left
  <2>3. /\ only \in [Ids -> {None} \cup Lifecycles]
        /\ \A j \in Ids : only[j] = IF j \in {left, quote.lc} THEN lcs[j] ELSE None
    BY <2>2, OnlyTyped, SMTT(20)
  <2> HIDE DEF only
  <2> QED BY <2>1, <2>3
<1>11. reg' = left /\ left \in {reg, NoId}
  BY <1>1
<1> HIDE DEF put, left
<1>12. /\ signals' \in Seq({"EXIT", "PARTIAL"}) /\ Len(signals') <= Lane
       /\ halving \in {"none", "filled"} => NoAsk(signals') /\ ~Asks(quote)
       /\ halving = "asked" => /\ OneAsk(signals')
                               /\ Asks(quote) => NoAsk(signals')
  <2>1. /\ bar.d \in Decisions
        /\ IF bar.d.act \in {"EXIT", "PARTIAL"} THEN Emit(bar.d.act) ELSE UNCHANGED signals
    BY <1>2, <1>3
  <2> HIDE DEF d, lc
  <2> QED BY <1>2, <2>1, ActAsks
<1>13. HeapsTyped' /\ ThreadsTyped'
  BY <1>2, <1>3, <1>9, <1>10, <1>11 DEF IInv, HeapsTyped, ThreadsTyped, ThreadOK, Idle
<1>14. RestTyped' /\ Counted'
  BY <1>2, <1>12 DEF IInv, RestTyped, Counted, world, broker
<1>15. Referred'
  <2>1. \A j \in Ids : pos'[j] # None <=> j \in {cur, quote.pos}
    BY <1>3, <1>6, <1>8, <1>9, NotNone DEF IInv, Referred
  <2>2. \A j \in Ids : lcs'[j] # None <=> j \in {left, quote.lc}
    BY <1>3, <1>10, <1>11 DEF IInv, Referred
  <2> QED BY <1>2, <1>3, <1>11, <2>1, <2>2 DEF Referred, Idle
<1>16. Phased'
  <2>1. quote.at = "body" => lcs'[quote.lc] = lcs[quote.lc]
    BY <1>10 DEF IInv, ThreadsTyped, ThreadOK
  <2> QED BY <1>2, <2>1 DEF IInv, Phased, Reaches, Idle
<1>17. OneHolding'
  <2>1. Entry' = Entry /\ mixed' = mixed /\ disk' = disk /\ quote' = quote
    BY <1>2 DEF Entry, broker, past
  <2>2. ~mixed => \A j \in Ids : LivesIn(lcs'[j], Entry)
    BY <1>10 DEF IInv, OneHolding, LivesIn
  <2>3. ~mixed => \A j \in Ids : OfHolding(pos'[j], Entry)
    BY <1>7, <1>8, <1>9 DEF IInv, OneHolding, OfHolding
  <2>4. Tightens(bar', Entry)
    BY <1>2 DEF Tightens, Idle
  <2> QED BY <2>1, <2>2, <2>3, <2>4 DEF IInv, OneHolding
<1>18. Asking'
  <2>1. ~Asks(bar')
    BY <1>2 DEF Asks, Idle
  <2> QED BY <1>2, <1>12, <2>1 DEF IInv, Asking, past
<1>19. Harvesting'
  BY <1>2, <1>3, <1>10, <1>11 DEF IInv, Harvesting, world, past
<1> QED BY <1>13, <1>14, <1>15, <1>16, <1>17, <1>18, <1>19 DEF IInv

(* A quote raises the stop at most, and never above the entry of the holding.     *)
LEMMA QuoteActsKeeps == ASSUME IInv, QuoteActs PROVE IInv'
<1> DEFINE d == quote.d
           old == pos[quote.pos]
           stop == Max({old.stop, d.stop})
           raised == [old EXCEPT !.stop = stop]
           p == IF d.act = "TIGHTEN" THEN raised ELSE old
           left == IF d.act = "EXIT" THEN NoId ELSE reg
           put == [pos EXCEPT ![quote.pos] = p]
<1>1. /\ pos' = Only(put, {cur, bar.pos}) /\ reg' = left
      /\ lcs' = Only(lcs, {left, bar.lc})
  BY DEF QuoteActs
<1>2. /\ quote.at = "act" /\ quote' = Idle
      /\ IF d.act \in {"EXIT", "PARTIAL"} THEN Emit(d.act) ELSE UNCHANGED signals
      /\ UNCHANGED <<world, cur, bar, closings, broker, faults, past>>
  BY DEF QuoteActs
<1>3. /\ quote.pos \in Ids /\ quote.lc \in Ids /\ d \in Decisions /\ NoId \notin Ids
      /\ old \in Positions /\ reg \in Ids \cup {NoId}
  BY <1>2, Objects DEF IInv, ThreadsTyped, ThreadOK, HeapsTyped
<1>4. stop \in Int /\ stop \in {old.stop, d.stop}
  <2>1. old.stop \in Int /\ d.stop \in Int
    BY <1>3 DEF Positions, Decisions
  <2>2. Max({old.stop, d.stop}) \in {old.stop, d.stop}
    BY <2>1, MaxOfTwo
  <2> QED BY <2>1, <2>2
<1> HIDE DEF stop
<1>5. /\ p \in Positions /\ p.entry = old.entry /\ p.kept = old.kept
      /\ p.stop # old.stop => d.act = "TIGHTEN" /\ p.stop = d.stop
  <2>1. /\ raised \in Positions /\ raised.entry = old.entry /\ raised.kept = old.kept
        /\ raised.stop = stop
    BY <1>3, <1>4 DEF Positions
  <2>2. CASE d.act = "TIGHTEN"
    <3>1. p = raised
      BY <2>2
    <3> HIDE DEF raised, p
    <3> QED BY <1>4, <2>1, <2>2, <3>1
  <2>3. CASE d.act # "TIGHTEN"
    <3>1. p = old
      BY <2>3
    <3> HIDE DEF p
    <3> QED BY <1>3, <3>1
  <2> QED BY <2>2, <2>3
<1>6. ~mixed => OfHolding(p, Entry)
  <2> HIDE DEF p, d
  <2>1. ~mixed => OfHolding(old, Entry)
    BY <1>3 DEF IInv, OneHolding
  <2> HIDE DEF old
  <2>2. ~mixed /\ d.act = "TIGHTEN" => d.stop <= Entry
    BY <1>2 DEF IInv, OneHolding, Tightens, d
  <2> QED BY <1>3, <1>5, <2>1, <2>2, NotNone DEF OfHolding
<1> HIDE DEF p
<1>7. /\ put \in [Ids -> {None} \cup Positions]
      /\ \A j \in Ids : put[j] = IF j = quote.pos THEN p ELSE pos[j]
  BY <1>3, <1>5 DEF IInv, HeapsTyped
<1>8. /\ pos' \in [Ids -> {None} \cup Positions]
      /\ \A j \in Ids : pos'[j] = IF j \in {cur, bar.pos} THEN put[j] ELSE None
  <2> DEFINE only == Only(put, {cur, bar.pos})
  <2>1. pos' = only
    BY <1>1
  <2> HIDE DEF put
  <2>2. /\ only \in [Ids -> {None} \cup Positions]
        /\ \A j \in Ids : only[j] = IF j \in {cur, bar.pos} THEN put[j] ELSE None
    BY <1>7, OnlyTyped
  <2> HIDE DEF only
  <2> QED BY <2>1, <2>2
<1>9. /\ lcs' \in [Ids -> {None} \cup Lifecycles]
      /\ \A j \in Ids : lcs'[j] = IF j \in {left, bar.lc} THEN lcs[j] ELSE None
  <2> DEFINE only == Only(lcs, {left, bar.lc})
  <2>1. lcs' = only
    BY <1>1
  <2>2. lcs \in [Ids -> {None} \cup Lifecycles]
    BY DEF IInv, HeapsTyped
  <2> HIDE DEF left
  <2>3. /\ only \in [Ids -> {None} \cup Lifecycles]
        /\ \A j \in Ids : only[j] = IF j \in {left, bar.lc} THEN lcs[j] ELSE None
    BY <2>2, OnlyTyped, SMTT(20)
  <2> HIDE DEF only
  <2> QED BY <2>1, <2>3
<1>10. reg' = left /\ left \in {reg, NoId}
  BY <1>1
<1> HIDE DEF put, left
<1>11. /\ signals' \in Seq({"EXIT", "PARTIAL"}) /\ Len(signals') <= Lane
       /\ halving \in {"none", "filled"} => NoAsk(signals') /\ ~Asks(bar)
       /\ halving = "asked" => /\ OneAsk(signals')
                               /\ Asks(bar) => NoAsk(signals')
  BY <1>2, <1>3, ActAsks
<1>12. HeapsTyped' /\ ThreadsTyped'
  BY <1>2, <1>3, <1>8, <1>9, <1>10 DEF IInv, HeapsTyped, ThreadsTyped, ThreadOK, Idle
<1>13. RestTyped' /\ Counted'
  BY <1>2, <1>11 DEF IInv, RestTyped, Counted, world, broker
<1>14. Referred'
  <2>1. \A j \in Ids : pos'[j] # None <=> j \in {cur, bar.pos}
    BY <1>3, <1>5, <1>7, <1>8, NotNone DEF IInv, Referred
  <2>2. \A j \in Ids : lcs'[j] # None <=> j \in {left, bar.lc}
    BY <1>3, <1>9, <1>10 DEF IInv, Referred
  <2> QED BY <1>2, <1>3, <1>10, <2>1, <2>2 DEF Referred, Idle
<1>15. Phased'
  <2>1. bar.at = "body" => lcs'[bar.lc] = lcs[bar.lc]
    BY <1>9 DEF IInv, ThreadsTyped, ThreadOK
  <2> QED BY <1>2, <2>1 DEF IInv, Phased, Reaches, Idle
<1>16. OneHolding'
  <2>1. Entry' = Entry /\ mixed' = mixed /\ disk' = disk /\ bar' = bar
    BY <1>2 DEF Entry, broker, past
  <2>2. ~mixed => \A j \in Ids : LivesIn(lcs'[j], Entry)
    BY <1>9 DEF IInv, OneHolding, LivesIn
  <2>3. ~mixed => \A j \in Ids : OfHolding(pos'[j], Entry)
    BY <1>6, <1>7, <1>8 DEF IInv, OneHolding, OfHolding
  <2>4. Tightens(quote', Entry)
    BY <1>2 DEF Tightens, Idle
  <2> QED BY <2>1, <2>2, <2>3, <2>4 DEF IInv, OneHolding
<1>17. Asking'
  <2>1. ~Asks(quote')
    BY <1>2 DEF Asks, Idle
  <2> QED BY <1>2, <1>11, <2>1 DEF IInv, Asking, past
<1>18. Harvesting'
  BY <1>2, <1>3, <1>9, <1>10 DEF IInv, Harvesting, world, past
<1> QED BY <1>12, <1>13, <1>14, <1>15, <1>16, <1>17, <1>18 DEF IInv
-----------------------------------------------------------------------------
(* The theorems                                                               *)

LEMMA NextKeeps == ASSUME IInv, [Next]_vars PROVE IInv'
<1>1. CASE BarThread
  BY <1>1, BarCounts, BarNotAnalysedKeeps, BarSeenKeeps, BarLateKeeps, BarLooksKeeps,
     BarDecidesKeeps, BarActsKeeps DEF BarThread
<1>2. CASE QuoteThread
  BY <1>2, QuoteLooksKeeps, QuoteDecidesKeeps, QuoteActsKeeps, QuoteWithoutLifecycleKeeps
     DEF QuoteThread
<1>3. CASE Delivery
  BY <1>3, SignalIgnoredKeeps, SellFilledKeeps, SellFindsNothingKeeps, CleanupKeeps
     DEF Delivery
<1>4. CASE Environment
  BY <1>4, OpenedKeeps, SellFailsKeeps, SaveCycleKeeps, RestartKeeps, FallsKeeps,
     ForceCloseKeeps DEF Environment
<1>5. CASE UNCHANGED vars
  <2>1. /\ UNCHANGED <<eod, book, objects, threads, opens, past>>
        /\ UNCHANGED <<fallen, signals, closings, shares, disk, faults>>
    BY <1>5 DEF vars, world, lanes, broker
  <2>2. RestTyped' /\ Counted'
    BY <2>1 DEF IInv, RestTyped, Counted, book
  <2> QED BY <2>1, <2>2, QuietKeeps
<1> QED BY <1>1, <1>2, <1>3, <1>4, <1>5 DEF Next

(* The inductive invariant holds of every behaviour.                            *)
THEOREM Invariant == Spec => []IInv
<1>1. Init => IInv
  BY InitHolds
<1>2. IInv /\ [Next]_vars => IInv'
  BY NextKeeps
<1> QED BY <1>1, <1>2, PTL DEF Spec

(* The books, the registry and the threads refer to objects that are there, the   *)
(* lane is never longer than it may be, and the broker never holds more than was *)
(* bought (strategy_engine.py, position_manager.py).                            *)
THEOREM TypeCorrect == Spec => []TypeOK
<1>1. IInv => TypeOK
  <2> SUFFICES ASSUME IInv PROVE TypeOK
    OBVIOUS
  <2>1. /\ cur # NoId => pos[cur] # None
        /\ reg # NoId => lcs[reg] # None /\ lcs[reg].phase \in Phases
    BY Objects, NotNone DEF IInv, Lifecycles
  <2>2. \A t \in {bar, quote} :
           /\ t.at \in {"idle", "came", "seen", "body", "act"}
           /\ t.pos # NoId => pos[t.pos] # None
           /\ t.lc # NoId => lcs[t.lc] # None
    BY Objects, NotNone DEF IInv, ThreadsTyped, ThreadOK
  <2>3. closings \in 0..Len(Entries)
    <3>1. Len(Entries) \in Nat
      BY ConstantsTyped, LenProperties
    <3> QED BY <3>1 DEF IInv, RestTyped, Counted
  <2> QED BY <2>1, <2>2, <2>3 DEF IInv, HeapsTyped, RestTyped, TypeOK
<1> QED BY <1>1, Invariant, PTL

(* A holding is halved once, however bars, quotes, fills, crashes and force close *)
(* interleave (exit_engine.py, strategy_engine.py, risk_engine.py), except for the *)
(* reasons that HalvedOnce names.                                              *)
THEOREM HalvesOnce == Spec => []HalvedOnce
<1>1. IInv => HalvedOnce
  BY DEF IInv, Asking, HalvedOnce
<1> QED BY <1>1, Invariant, PTL

(* The stop a position shows never goes down in a step, whoever takes it.        *)
StopsKept == cur # NoId /\ cur' = cur => pos'[cur].stop >= pos[cur].stop

(* A lifecycle is moved on by the phase it is in, or by a stale one.              *)
LifecyclesKept ==
    \A i \in Ids :
        lcs[i] # None /\ lcs'[i] # None =>
            \/ lcs'[i].phase >= lcs[i].phase /\ lcs'[i].trail >= lcs[i].trail
            \/ mixed
            \/ \E t \in {bar, quote} : t.lc = i /\ Stale(t)

(* A step that leaves the position keeps its stop, one that only lets go of         *)
(* lifecycles keeps the others.                                                *)
LEMMA SameStop ==
    ASSUME IInv, cur # NoId /\ cur' = cur => pos'[cur] = pos[cur]
    PROVE  StopsKept
<1>1. cur # NoId => pos[cur].stop \in Int
  BY Objects DEF IInv, Positions
<1> QED BY <1>1 DEF StopsKept

LEMMA Comparable ==
    ASSUME IInv
    PROVE  \A i \in Ids : lcs[i] # None => lcs[i].phase \in Int /\ lcs[i].trail \in Int
<1> SUFFICES ASSUME NEW i \in Ids, lcs[i] # None
             PROVE  lcs[i].phase \in Int /\ lcs[i].trail \in Int
  OBVIOUS
<1>1. lcs[i] \in Lifecycles
  BY DEF IInv, HeapsTyped
<1> QED BY <1>1 DEF Lifecycles, Phases

LEMMA SameLifecycles ==
    ASSUME IInv, \A i \in Ids : lcs'[i] \in {lcs[i], None}
    PROVE  LifecyclesKept
BY Comparable DEF LifecyclesKept

(* A thread that runs a body acts by a stale phase, or moves the lifecycle on.    *)
LEMMA BodyKeepsLifecycles ==
    ASSUME IInv, NEW t, t \in {bar, quote}, t.at = "body",
           NEW o, o = Body(t.phase, lcs[t.lc], t.in),
           \A i \in Ids : lcs'[i] \in {IF i = t.lc THEN o.lc ELSE lcs[i], None}
    PROVE  LifecyclesKept
<1> DEFINE lc == lcs[t.lc]
<1>1. /\ t.lc \in Ids /\ lc \in Lifecycles /\ t.phase \in Phases /\ t.in \in Inputs
  <2>1. CASE t = bar
    BY <2>1, Objects DEF IInv, ThreadsTyped, ThreadOK
  <2>2. CASE t = quote
    BY <2>2, Objects DEF IInv, ThreadsTyped, ThreadOK
  <2> QED BY <2>1, <2>2
<1>2. Moves(t.phase, lc, t.in, o)
  BY <1>1, BodyMoves
<1>3. /\ lc.phase \in 0..4 /\ o.lc.phase \in 0..4 /\ lc.trail \in Int /\ o.lc.trail \in Int
      /\ lc # None
  BY <1>1, <1>2, NotNone DEF Moves, Lifecycles, Phases
<1>4. ~mixed => lc.entry \in Int /\ (lc.phase <= 1 => lc.trail <= lc.entry)
  <2>1. ~mixed => LivesIn(lc, Entry)
    BY <1>1 DEF IInv, OneHolding
  <2>2. lc.entry \in Int /\ lc # None
    BY <1>1, <1>3 DEF Lifecycles
  <2> QED BY <2>1, <2>2 DEF LivesIn
<1>5. \/ o.lc.phase >= lc.phase /\ o.lc.trail >= lc.trail
      \/ mixed \/ Stale(t)
  <2> SUFFICES ASSUME ~mixed, ~Stale(t)
               PROVE  o.lc.phase >= lc.phase /\ o.lc.trail >= lc.trail
    OBVIOUS
  <2>1. t.phase = lc.phase
    BY DEF Stale
  <2> HIDE DEF lc
  <2>2. o.lc.phase \in {lc.phase, lc.phase + 1}
    BY <1>2, <2>1 DEF Moves
  <2>3. CASE lc.phase = 0
    BY <1>2, <1>3, <2>1, <2>2, <2>3 DEF Moves
  <2>4. CASE lc.phase = 1
    <3>1. o.lc.trail = lc.trail \/ o.lc.trail = lc.entry
      BY <1>2, <2>1, <2>4 DEF Moves
    <3> QED BY <1>3, <1>4, <2>2, <2>4, <3>1
  <2>5. CASE lc.phase >= 2
    BY <1>2, <1>3, <2>1, <2>2, <2>5 DEF Moves
  <2> QED BY <1>3, <2>3, <2>4, <2>5
<1>6. \A i \in Ids : lcs[i] # None => lcs[i].phase \in Int /\ lcs[i].trail \in Int
  BY Comparable
<1>7. ASSUME NEW i \in Ids, lcs[i] # None, lcs'[i] # None
      PROVE  \/ lcs'[i].phase >= lcs[i].phase /\ lcs'[i].trail >= lcs[i].trail
             \/ mixed
             \/ \E u \in {bar, quote} : u.lc = i /\ Stale(u)
  <2>1. CASE i = t.lc
    <3>1. lcs'[i] = o.lc /\ lcs[i] = lc
      BY <1>7, <2>1
    <3> HIDE DEF lc
    <3> QED BY <1>5, <2>1, <3>1
  <2>2. CASE i # t.lc
    BY <1>6, <1>7, <2>2
  <2> QED BY <2>1, <2>2
<1> QED BY <1>7 DEF LifecyclesKept

(* What a look leaves of a lifecycle.                                           *)
LEMMA SeenKeepsLifecycles ==
    ASSUME IInv, NEW i \in Ids, NEW l, lcs' = [lcs EXCEPT ![i] = l],
           lcs[i] # None => l.phase = lcs[i].phase /\ l.trail = lcs[i].trail
    PROVE  LifecyclesKept
<1>1. \A j \in Ids : lcs[j] # None => lcs[j].phase \in Int /\ lcs[j].trail \in Int
  BY Comparable
<1>2. \A j \in Ids : lcs'[j] = IF j = i THEN l ELSE lcs[j]
  BY DEF IInv, HeapsTyped
<1> QED BY <1>1, <1>2 DEF LifecyclesKept

LEMMA BarRatchets == ASSUME IInv, BarThread PROVE StopsKept /\ LifecyclesKept
<1>1. CASE BarComes \/ BarDropped \/ BarSeen
  <2>1. pos' = pos /\ lcs' = lcs
    BY <1>1 DEF BarComes, BarDropped, BarSeen, book, objects
  <2> QED BY <2>1, SameStop, SameLifecycles
<1>6. CASE BarNotAnalysed
  <2>1. /\ lcs' = lcs /\ pos' = Only(pos, {cur, quote.pos})
        /\ pos \in [Ids -> {None} \cup Positions] /\ cur \in Ids \cup {NoId}
    BY <1>6 DEF BarNotAnalysed, objects, IInv, HeapsTyped
  <2>2. cur # NoId => pos'[cur] = pos[cur]
    BY <2>1 DEF Only
  <2>3. LifecyclesKept
    BY <2>1, SameLifecycles
  <2>4. StopsKept
    <3>1. cur # NoId => pos[cur].stop \in Int
      BY Objects DEF IInv, Positions
    <3> QED BY <2>2, <3>1 DEF StopsKept
  <2> QED BY <2>3, <2>4
<1>2. CASE BarLate
  <2>1. pos' = pos
    BY <1>2 DEF BarLate, book
  <2>2. \A i \in Ids : lcs'[i] \in {lcs[i], None}
    BY <1>2 DEF BarLate, objects, Only
  <2> QED BY <2>1, <2>2, SameStop, SameLifecycles
<1>3. CASE BarLooks
  <2>0. bar.pos \in Ids /\ reg \in Ids \cup {NoId} /\ NoId \notin Ids
    BY <1>3, Objects DEF IInv, BarLooks, ThreadsTyped, ThreadOK, HeapsTyped
  <2>1. pos \in [Ids -> {None} \cup Positions] /\ bar.pos \in Ids
        /\ \E in \in BarInputs : pos' = [pos EXCEPT ![bar.pos].rsi = in.rsi, ![bar.pos].vwap = in.vwap]
    BY <1>3, <2>0 DEF BarLooks, IInv, HeapsTyped
  <2>2. StopsKept
    <3> SUFFICES ASSUME cur # NoId, cur' = cur PROVE pos'[cur].stop >= pos[cur].stop
      BY DEF StopsKept
    <3>1. cur \in Ids /\ pos[cur] \in Positions /\ pos[cur].stop \in Int
      BY Objects DEF IInv, Positions
    <3>2. pos'[cur].stop = pos[cur].stop
      BY <2>1, <3>1 DEF Positions
    <3> QED BY <3>1, <3>2
  <2>3. CASE reg = NoId
    <3>1. Unused(lcs) \in Ids /\ lcs[Unused(lcs)] = None
      <4>1. \E j \in Ids : j # quote.lc
        BY DEF Ids
      <4>2. bar.lc = NoId
        BY <1>3 DEF IInv, BarLooks, ThreadsTyped, ThreadOK
      <4>3. \E j \in Ids : lcs[j] = None
        BY <2>0, <2>3, <4>1, <4>2 DEF IInv, Referred
      <4> QED BY <4>3, UnusedIsFree
    <3>2. PICK l : lcs' = [lcs EXCEPT ![Unused(lcs)] = l]
      BY <1>3, <2>3 DEF BarLooks
    <3> QED BY <2>2, <3>1, <3>2, SeenKeepsLifecycles
  <2>4. CASE reg # NoId
    <3>1. reg \in Ids /\ lcs[reg] \in Lifecycles
      BY <2>0, <2>4, Objects DEF IInv
    <3>2. PICK in \in BarInputs : lcs' = [lcs EXCEPT ![reg] = Seen(lcs[reg], in)]
      BY <1>3, <2>4 DEF BarLooks
    <3>3. /\ Seen(lcs[reg], in).phase = lcs[reg].phase
          /\ Seen(lcs[reg], in).trail = lcs[reg].trail
      BY <3>1, BarInputsTyped, SeenTyped DEF IInv
    <3> QED BY <2>2, <3>1, <3>2, <3>3, SeenKeepsLifecycles
  <2> QED BY <2>3, <2>4
<1>4. CASE BarDecides
  <2>1. PICK o : /\ o = Body(bar.phase, lcs[bar.lc], bar.in)
                 /\ lcs' = [lcs EXCEPT ![bar.lc] = o.lc]
    BY <1>4 DEF BarDecides
  <2>2. bar.at = "body" /\ pos' = pos
    BY <1>4 DEF BarDecides, book
  <2>3. \A i \in Ids : lcs'[i] \in {IF i = bar.lc THEN o.lc ELSE lcs[i], None}
    BY <2>1 DEF IInv, HeapsTyped
  <2> QED BY <2>1, <2>2, <2>3, SameStop, BodyKeepsLifecycles
<1>5. CASE BarActs
  <2>1. \A i \in Ids : lcs'[i] \in {lcs[i], None}
    BY <1>5 DEF BarActs, Only
  <2>2. StopsKept
    <3> SUFFICES ASSUME cur # NoId, cur' = cur PROVE pos'[cur].stop >= pos[cur].stop
      BY DEF StopsKept
    <3> DEFINE stop == IF bar.d.act \in {"HOLD", "TIGHTEN"}
                       THEN Max({pos[bar.pos].stop, bar.d.stop}) ELSE pos[bar.pos].stop
               p == [pos[bar.pos] EXCEPT !.kept = Kept(lcs[bar.lc]), !.stop = stop]
    <3>1. cur \in Ids /\ pos[cur] \in Positions /\ pos[cur].stop \in Int
      BY Objects DEF IInv, Positions
    <3>2. /\ bar.pos \in Ids /\ pos[bar.pos] \in Positions /\ bar.d.stop \in Int
          /\ pos[bar.pos].stop \in Int
      BY <1>5, Objects DEF IInv, BarActs, ThreadsTyped, ThreadOK, Decisions, Positions
    <3>3. stop >= pos[bar.pos].stop
      <4>1. Max({pos[bar.pos].stop, bar.d.stop}) >= pos[bar.pos].stop
        BY <3>2, MaxOfTwo
      <4> QED BY <3>2, <4>1
    <3>4. pos' = Only([pos EXCEPT ![bar.pos] = p], {cur, quote.pos})
      BY <1>5 DEF BarActs
    <3> HIDE DEF stop
    <3>5. p.stop = stop
      BY <3>2 DEF Positions
    <3> HIDE DEF p
    <3>6. pos'[cur] = IF cur = bar.pos THEN p ELSE pos[cur]
      BY <3>1, <3>4 DEF Only, IInv, HeapsTyped
    <3> QED BY <3>1, <3>3, <3>5, <3>6
  <2> QED BY <2>1, <2>2, SameLifecycles
<1> QED BY <1>1, <1>2, <1>3, <1>4, <1>5, <1>6 DEF BarThread
LEMMA QuoteRatchets == ASSUME IInv, QuoteThread PROVE StopsKept /\ LifecyclesKept
<1>1. CASE QuoteLooks
  <2>1. pos' = pos
    BY <1>1 DEF QuoteLooks, book
  <2>2. reg \in Ids /\ lcs[reg] \in Lifecycles /\ cur \in Ids /\ pos[cur] \in Positions
    BY <1>1, Objects DEF IInv, QuoteLooks
  <2> DEFINE In(bid) == Input(bid, bid, bid, TRUE, pos[cur].rsi, pos[cur].vwap, TRUE)
  <2>3. PICK bid \in ShownBids : lcs' = [lcs EXCEPT ![reg] = Seen(lcs[reg], In(bid))]
    BY <1>1 DEF QuoteLooks
  <2>4. In(bid) \in Inputs
    <3>1. bid \in Nat
      BY ConstantsTyped DEF ShownBids
    <3>2. pos[cur].rsi \in Nat /\ pos[cur].vwap \in Nat
      BY <2>2 DEF Positions
    <3> QED BY <3>1, <3>2 DEF Input, Inputs
  <2> DEFINE in == In(bid)
  <2>5. in \in Inputs /\ lcs' = [lcs EXCEPT ![reg] = Seen(lcs[reg], in)]
    BY <2>3, <2>4
  <2> HIDE DEF in
  <2>6. /\ Seen(lcs[reg], in).phase = lcs[reg].phase
        /\ Seen(lcs[reg], in).trail = lcs[reg].trail
    BY <2>2, <2>5, SeenTyped
  <2> QED BY <2>1, <2>2, <2>5, <2>6, SameStop, SeenKeepsLifecycles
<1>2. CASE QuoteDecides
  <2>1. PICK o : /\ o = Body(quote.phase, lcs[quote.lc], quote.in)
                 /\ \/ /\ lcs' = Only([lcs EXCEPT ![quote.lc] = o.lc], {reg, bar.lc})
                       /\ pos' = Only(pos, {cur, bar.pos})
                    \/ lcs' = [lcs EXCEPT ![quote.lc] = o.lc] /\ pos' = pos
    BY <1>2 DEF QuoteDecides
  <2>2. quote.at = "body"
    BY <1>2 DEF QuoteDecides
  <2>3. \A i \in Ids : lcs'[i] \in {IF i = quote.lc THEN o.lc ELSE lcs[i], None}
    BY <2>1 DEF IInv, HeapsTyped, Only
  <2>4. cur # NoId /\ cur' = cur => pos'[cur] = pos[cur]
    BY <2>1, Objects DEF IInv, Only
  <2> QED BY <2>1, <2>2, <2>3, <2>4, SameStop, BodyKeepsLifecycles
<1>3. CASE QuoteActs
  <2>1. \A i \in Ids : lcs'[i] \in {lcs[i], None}
    BY <1>3 DEF QuoteActs, Only
  <2>2. StopsKept
    <3> SUFFICES ASSUME cur # NoId, cur' = cur PROVE pos'[cur].stop >= pos[cur].stop
      BY DEF StopsKept
    <3> DEFINE stop == Max({pos[quote.pos].stop, quote.d.stop})
               p == IF quote.d.act = "TIGHTEN" THEN [pos[quote.pos] EXCEPT !.stop = stop]
                    ELSE pos[quote.pos]
    <3>1. cur \in Ids /\ pos[cur] \in Positions /\ pos[cur].stop \in Int
      BY Objects DEF IInv, Positions
    <3>2. /\ quote.pos \in Ids /\ pos[quote.pos] \in Positions /\ quote.d.stop \in Int
          /\ pos[quote.pos].stop \in Int
      BY <1>3, Objects DEF IInv, QuoteActs, ThreadsTyped, ThreadOK, Decisions, Positions
    <3>3. stop >= pos[quote.pos].stop
      BY <3>2, MaxOfTwo
    <3>4. pos' = Only([pos EXCEPT ![quote.pos] = p], {cur, bar.pos})
      BY <1>3 DEF QuoteActs
    <3> HIDE DEF stop
    <3>5. p.stop >= pos[quote.pos].stop
      BY <3>2, <3>3 DEF Positions
    <3> HIDE DEF p
    <3>6. pos'[cur] = IF cur = quote.pos THEN p ELSE pos[cur]
      BY <3>1, <3>4 DEF Only, IInv, HeapsTyped
    <3> QED BY <3>1, <3>5, <3>6
  <2> QED BY <2>1, <2>2, SameLifecycles
<1>4. CASE QuoteWithoutLifecycle
  <2>1. pos' = pos /\ lcs' = lcs
    BY <1>4 DEF QuoteWithoutLifecycle, book, objects
  <2> QED BY <2>1, SameStop, SameLifecycles
<1> QED BY <1>1, <1>2, <1>3, <1>4 DEF QuoteThread

LEMMA DeliveryRatchets == ASSUME IInv, Delivery PROVE StopsKept /\ LifecyclesKept
<1>1. CASE SignalIgnored
  <2>1. pos' = pos /\ lcs' = lcs
    BY <1>1 DEF SignalIgnored, book, objects
  <2> QED BY <2>1, SameStop, SameLifecycles
<1>2. CASE SellFilled
  <2>1. lcs' = lcs
    BY <1>2 DEF SellFilled, objects
  <2>2. StopsKept
    <3> SUFFICES ASSUME cur # NoId, cur' = cur PROVE pos'[cur].stop >= pos[cur].stop
      BY DEF StopsKept
    <3> DEFINE left == pos[cur].qty - Min({Wanted, shares})
               stop == Max({pos[cur].stop, pos[cur].entry})
               p == [pos[cur] EXCEPT !.qty = left, !.halved = TRUE, !.stop = stop]
    <3>1. /\ cur \in Ids /\ pos[cur] \in Positions
          /\ pos[cur].stop \in Int /\ pos[cur].entry \in Int
      BY Objects DEF IInv, Positions
    <3>2. pos' = [pos EXCEPT ![cur] = p]
      BY <1>2 DEF SellFilled, CloseBook
    <3>3. stop >= pos[cur].stop
      BY <3>1, MaxOfTwo
    <3> HIDE DEF stop, left
    <3>4. p.stop = stop
      BY <3>1 DEF Positions
    <3> HIDE DEF p
    <3>5. pos'[cur] = p
      BY <3>1, <3>2 DEF IInv, HeapsTyped
    <3> QED BY <3>3, <3>4, <3>5
  <2> QED BY <2>1, <2>2, SameLifecycles
<1>3. CASE SellFindsNothing
  <2>1. lcs' = lcs /\ cur' = NoId
    BY <1>3 DEF SellFindsNothing, CloseBook, objects
  <2> QED BY <2>1, SameStop, SameLifecycles
<1>4. CASE Cleanup
  <2>1. pos' = pos
    BY <1>4 DEF Cleanup, book
  <2>2. \A i \in Ids : lcs'[i] \in {lcs[i], None}
    BY <1>4 DEF Cleanup, Only
  <2> QED BY <2>1, <2>2, SameStop, SameLifecycles
<1> QED BY <1>1, <1>2, <1>3, <1>4 DEF Delivery

LEMMA EnvironmentRatchets ==
    ASSUME IInv, Environment, faults' = faults
    PROVE  StopsKept /\ LifecyclesKept
<1>1. CASE Opened
  <2>1. cur = NoId /\ lcs' = lcs
    BY <1>1 DEF Opened, objects
  <2> QED BY <2>1, SameStop, SameLifecycles
<1>2. CASE SellFails \/ SaveCycle \/ Falls \/ ForceClose
  <2>1. pos' = pos /\ lcs' = lcs
    BY <1>2 DEF SellFails, SaveCycle, Falls, ForceClose, book, objects
  <2> QED BY <2>1, SameStop, SameLifecycles
<1>3. CASE Restart
  <2>1. faults' = faults + 1 /\ faults \in Nat
    BY <1>3 DEF Restart, IInv, RestTyped
  <2> QED BY <2>1
<1> QED BY <1>1, <1>2, <1>3 DEF Environment

(* No step but a crash lowers the stop of the open position, and none takes a      *)
(* lifecycle back to an earlier phase or a lower trail, except by a stale phase or *)
(* in a holding that met what the one before had left (exit_engine.py,          *)
(* strategy_engine.py, position_manager.py).                                   *)
THEOREM OnlyRatchets == Spec => Ratchet
<1>1. IInv /\ [Next]_vars => [faults' = faults => StopsKept /\ LifecyclesKept]_vars
  <2> SUFFICES ASSUME IInv, Next, faults' = faults PROVE StopsKept /\ LifecyclesKept
    OBVIOUS
  <2> QED BY BarRatchets, QuoteRatchets, DeliveryRatchets, EnvironmentRatchets DEF Next
<1>2. [faults' = faults => StopsKept /\ LifecyclesKept]_vars
        <=> [faults' = faults =>
                /\ cur # NoId /\ cur' = cur => pos'[cur].stop >= pos[cur].stop
                /\ \A i \in Ids :
                    lcs[i] # None /\ lcs'[i] # None =>
                        \/ lcs'[i].phase >= lcs[i].phase /\ lcs'[i].trail >= lcs[i].trail
                        \/ mixed
                        \/ \E t \in {bar, quote} : t.lc = i /\ Stale(t)]_vars
  BY Zenon DEF StopsKept, LifecyclesKept
<1> QED BY <1>1, <1>2, Invariant, PTL DEF Spec, Ratchet
=============================================================================
