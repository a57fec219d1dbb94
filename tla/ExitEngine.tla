----------------------------- MODULE ExitEngine -----------------------------
(***************************************************************************)
(* PositionLifecycle of monitor/exit_engine.py: the exit rules of one open    *)
(* position, from the validation of its thesis to the runner.  A lifecycle is *)
(* a record, and evaluate() is split where a second thread that evaluates the *)
(* same object can come in between: Seen and Breached run up to the reading   *)
(* of the phase, Body is what the chosen phase then does.                     *)
(*                                                                           *)
(* Prices are integers, multiples of R are hundredths.  The quality scorer,   *)
(* its buffers and the event log are left out: nothing decides by them.  The  *)
(* strategy engine never passes a confluence count, so that it is always 2.   *)
(***************************************************************************)
EXTENDS Integers, Sequences, FiniteSetsExt

CONSTANTS
    Profile,            \* the ExitProfile of the position's strategy
    Window,             \* _compute_phase0_window()
    SwingBars,          \* closes a runner's swing low looks at (5 in the code)
    MaxAge              \* bound: ages above it are not told apart

(* A profile has thresholds in multiples and percentages of R, and counts of  *)
(* bars.                                                                      *)
Numbers == {"phase1Bars", "breakeven", "cushion", "deadBars", "deadRange", "rsi2", "rsi3",
            "vwapWidth", "partial", "width", "rsiLimit", "vwapBars", "maxHold"}
Switches == {"impulse", "vwapThesis", "rsiTighten", "vwapExit"}

ASSUME ExitAssumption ==
    /\ \A field \in Numbers : Profile[field] \in Nat
    /\ \A field \in Switches : Profile[field] \in BOOLEAN
    /\ Profile.thesis \in {"key", "invalidation", "low", "momentum"}
    /\ {Window, SwingBars, MaxAge} \subseteq Nat \ {0}

Phases == 0..4

Of(lc, share) == (lc.R * share) \div 100
Reached(lc, close, share) == lc.R > 0 /\ (close - lc.entry) * 100 >= share * lc.R
Within(lc, close, share) ==
    \/ lc.R = 0
    \/ /\ (close - lc.entry) * 100 < share * lc.R
       /\ (lc.entry - close) * 100 < share * lc.R

Older(n) == Min({n + 1, MaxAge})
Given(condition, price) == IF condition THEN {price} ELSE {}
(* Mutant: a floor replaces the trail whether it is higher or not.            *)
RaiseAnew(lc, floors) ==
    [lc EXCEPT !.trail = IF floors = {} THEN @ ELSE Max(floors)]
Raise(lc, floors) == [lc EXCEPT !.trail = Max(floors \cup {@})]
Advance(lc, phase) == [lc EXCEPT !.phase = phase, !.phaseAge = 0]

(* The invalidation is also the stop; positions always have one.  R is its    *)
(* distance from the entry, on either side.                                   *)
Fresh(entry, invalidation, key, structure) ==
    [phase |-> 0, age |-> 0, phaseAge |-> 0, entry |-> entry, high |-> entry,
     stop |-> invalidation, trail |-> invalidation, below |-> 0,
     R |-> Max({entry - invalidation, invalidation - entry}),
     key |-> key, structure |-> structure, low |-> 0, rising |-> FALSE, lows |-> <<>>]

Hold == [act |-> "HOLD", stop |-> 0]
HoldAt(price) == [act |-> "HOLD", stop |-> price]
Tighten(price) == [act |-> "TIGHTEN", stop |-> price]
Exit == [act |-> "EXIT", stop |-> 0]
Partial == [act |-> "PARTIAL", stop |-> 0]
Outcome(lc, d) == [lc |-> lc, d |-> d]

Seen(lc, in) ==
    LET l == [lc EXCEPT !.high = Max({@, in.high})]
    IN  IF in.quote THEN l ELSE [l EXCEPT !.age = Older(@), !.phaseAge = Older(@)]

Breached(lc, in) ==
    \/ in.low <= lc.stop
    \/ lc.phase >= 2 /\ in.low <= lc.trail
    \/ Profile.maxHold > 0 /\ lc.age >= Profile.maxHold

(* A momentum thesis asks the volume and the range of the bar, which are an   *)
(* input here.                                                               *)
ThesisFails(lc, in) ==
    CASE Profile.thesis = "key" -> in.close < lc.key
      [] Profile.thesis = "invalidation" -> in.close < lc.stop
      [] Profile.thesis = "low" -> in.low < lc.stop
      [] Profile.thesis = "momentum" -> ~in.strong

Phase0(lc, in) ==
    IF in.quote THEN Outcome(lc, Hold)
    ELSE IF ThesisFails(lc, in) THEN Outcome(lc, Exit)
    ELSE Outcome(IF lc.age >= Window THEN Advance(lc, 1) ELSE lc, Hold)

Phase1(lc, in) ==
    LET l == IF in.quote THEN lc
             ELSE [lc EXCEPT !.low = in.low, !.rising = lc.low > 0 /\ in.low > lc.low]
    IN  IF Reached(lc, in.close, Profile.breakeven)
        THEN Outcome([Advance(lc, 2) EXCEPT !.trail = lc.entry], Tighten(lc.entry))
        ELSE IF \/ l.rising /\ in.close > lc.entry
                \/ l.phaseAge >= Profile.phase1Bars
        THEN Outcome(Advance(l, 2), Hold)
        ELSE Outcome(l, Hold)

(* The bars in a row that closed below the VWAP, and whether they suffice.     *)
Below(lc, in) ==
    IF in.quote \/ in.vwap = 0 THEN lc.below
    ELSE IF in.close < in.vwap THEN Min({lc.below + 1, Profile.vwapBars}) ELSE 0

Broken(lc, in) == Profile.vwapExit /\ Below(lc, in) >= Profile.vwapBars

Phase2(lc, in) ==
    LET tightened == Broken(lc, in) /\ ~Profile.vwapThesis
        t == [Raise(lc, Given(Reached(lc, in.close, Profile.breakeven),
                              lc.entry - Of(lc, Profile.cushion))
                        \cup Given(Profile.rsiTighten /\ in.rsi > Profile.rsiLimit,
                                   lc.high - Of(lc, Profile.rsi2))
                        \cup Given(tightened, in.close - Of(lc, Profile.vwapWidth)))
              EXCEPT !.below = IF tightened THEN 0 ELSE Below(lc, in)]
    IN  IF \/ Broken(lc, in) /\ Profile.vwapThesis
           \/ lc.phaseAge >= Profile.deadBars /\ Within(lc, in.close, Profile.deadRange)
        THEN Outcome(t, Exit)
        ELSE IF Reached(lc, in.close, Profile.partial) THEN Outcome(Advance(t, 3), Partial)
        ELSE Outcome(t, HoldAt(t.trail))

Width3 == IF Profile.impulse THEN Profile.width ELSE Max({70, Profile.width})

Phase3(lc, in) ==
    LET rsi == IF in.rsi > 75 THEN Profile.rsi3 ELSE Profile.rsi3 + 10
        t == [Raise(lc, {lc.high - Of(lc, Width3), lc.structure}
                        \cup Given(/\ Profile.rsiTighten
                                   /\ in.rsi > Min({75, Profile.rsiLimit}),
                                   lc.high - Of(lc, rsi)))
              EXCEPT !.below = Below(lc, in)]
    IN  IF Broken(lc, in) THEN Outcome(t, Exit)
        ELSE Outcome(IF Reached(lc, in.close, 200) THEN Advance(t, 4) ELSE t, HoldAt(t.trail))

LastOf(s, n) == SubSeq(s, Max({1, Len(s) - n + 1}), Len(s))

(* The VWAP is a candidate of a minimum only when it is above another          *)
(* candidate: it never changes the result.                                    *)
Phase4(lc, in) ==
    LET lows == IF in.quote THEN lc.lows ELSE LastOf(Append(lc.lows, in.close), SwingBars)
        swing == IF lows = <<>> THEN in.close ELSE Min({lows[i] : i \in DOMAIN lows})
        widest == Min({swing, lc.high - Of(lc, Max({70, Profile.width}))}
                        \cup Given(in.vwap > swing, in.vwap)
                        \cup Given(lc.structure > 0, lc.structure))
        t == [Raise(lc, {widest} \cup Given(Profile.impulse /\ in.rsi > 80,
                                            lc.high - Of(lc, 50)))
              EXCEPT !.lows = lows]
    IN  Outcome(t, HoldAt(t.trail))

Body(phase, lc, in) ==
    CASE phase = 0 -> Phase0(lc, in)
      [] phase = 1 -> Phase1(lc, in)
      [] phase = 2 -> Phase2(lc, in)
      [] phase = 3 -> Phase3(lc, in)
      [] phase = 4 -> Phase4(lc, in)

-----------------------------------------------------------------------------
(* What _lifecycle_state keeps of a lifecycle.  The bar at which the phase    *)
(* began is not kept: the phase is then as old as the lifecycle.  Stop, R and *)
(* levels are not kept either.                                               *)
Kept(lc) ==
    [phase |-> lc.phase, age |-> lc.age, high |-> lc.high, trail |-> lc.trail,
     below |-> lc.below, low |-> lc.low, rising |-> lc.rising, lows |-> lc.lows]

(* Mutant: the trail is restored and the phase begins anew.                    *)
RestoredAnew(lc, kept) ==
    [lc EXCEPT !.high = kept.high, !.trail = kept.trail]

Restored(lc, kept) ==
    [lc EXCEPT !.phase = kept.phase, !.age = kept.age, !.phaseAge = kept.age,
               !.high = kept.high, !.trail = kept.trail, !.below = kept.below,
               !.low = kept.low, !.rising = kept.rising, !.lows = kept.lows]
=============================================================================
