--------------------------- MODULE StrategyEngine ---------------------------
(***************************************************************************)
(* The exits of one ticker: StrategyEngine (monitor/strategy_engine.py), which *)
(* evaluates the lifecycle of ExitEngine for every bar and every quote, with   *)
(* the parts it is coupled to: the SELL path of RiskEngine, the fills of       *)
(* PositionManager, the state file and a restart.                             *)
(*                                                                           *)
(* BAR, QUOTE, SIGNAL, FILL and POSITION have worker threads of their own.  The *)
(* bar thread and the quote thread evaluate the same lifecycle object without a *)
(* lock; each can be overtaken after it has looked the position up, after it   *)
(* has read the phase, and before it acts on the decision.  A thread holds     *)
(* references: position and lifecycle objects are entries of a small heap.     *)
(*                                                                           *)
(* The entry analysis, the gates before a BUY and what brokers do with an      *)
(* order are in OrderFlow and BrokerAccount: here a BUY is filled whole, and   *)
(* a SELL is filled up to what the broker holds, or fails.                     *)
(***************************************************************************)
EXTENDS ExitEngine

CONSTANTS
    Bars,               \* bars the feed can show: [high, low, close]
    Bids,               \* bids of quotes
    Bottom,             \* the price of both after a fall
    Rsis, Vwaps,        \* values of the indicators
    Entries,            \* fill prices of the BUYs, in order
    Risk, Gain,         \* distance of the signal's stop and target from the entry
    OrphanRisk,         \* distance of the stop of a position imported from a broker
    Atr,
    ByStop,             \* the strategy's invalidation is the position's stop
    Styles,             \* of strategies, at the force close
    Qty,
    Lane,               \* room of the SIGNAL lane
    MaxFaults           \* bound on crashes, and SELLs that fail at the broker

ASSUME StrategyAssumption ==
    /\ Bars \subseteq [high : Nat, low : Nat, close : Nat]
    /\ Bids \cup {Bottom} \cup Rsis \cup Vwaps \subseteq Nat
    /\ ByStop \in BOOLEAN
    /\ Styles \subseteq {"core", "tier1", "swing"}
    /\ {Qty, Lane, Atr, Risk, Gain, OrphanRisk} \subseteq Nat \ {0}
    /\ MaxFaults \in Nat
    /\ Entries \in Seq(Nat)

NoId == 0
Ids == 1..3             \* the engine, the bar thread and the quote thread each hold one
Idle == [at |-> "idle", pos |-> NoId, lc |-> NoId]
Came == [Idle EXCEPT !.at = "came"]
None == [entry |-> 0]

VARIABLES
    fallen,             \* the price has fallen below every stop, for good
    eod,                \* "open", or past FORCE_CLOSE_TIME the style of the strategy
    pos, cur,           \* the heap of positions, and the one in positions[ticker]
    lcs, reg,           \* the heap of lifecycles, and the one in _lifecycles[ticker]
    bar, quote,         \* the threads
    signals,            \* SELLs in the SIGNAL lane
    closings,           \* POSITION CLOSED events under way
    shares,             \* what the broker holds
    disk,               \* the position in bot_state.json
    opens, faults,
    halving,            \* history: how far the PARTIAL_SELL of this holding has come
    mixed               \* history: it met what the holding before it had left

book == <<pos, cur>>
objects == <<lcs, reg>>
threads == <<bar, quote>>
lanes == <<signals, closings>>
broker == <<shares, disk, opens>>
world == <<fallen, eod>>
past == <<halving, mixed>>
vars == <<world, book, objects, threads, lanes, broker, faults, past>>

-----------------------------------------------------------------------------
Unused(heap) == CHOOSE i \in Ids : heap[i] = None /\ \A j \in Ids : heap[j] = None => i <= j
Only(heap, live) == [i \in Ids |-> IF i \in live THEN heap[i] ELSE None]

Position(entry, stop, qty, imported) ==
    [entry |-> entry, stop |-> stop, qty |-> qty, halved |-> FALSE, kept |-> None,
     rsi |-> 50, vwap |-> 0, imported |-> imported]

(* SIGNAL is a DROP_OLDEST lane.                                              *)
Emit(kind) ==
    signals' = Append(IF Len(signals) < Lane THEN signals ELSE Tail(signals), kind)

Input(high, low, close, isQuote, rsi, vwap, strong) ==
    [high |-> high, low |-> low, close |-> close, quote |-> isQuote,
     rsi |-> rsi, vwap |-> vwap, strong |-> strong]

(* Levels and invalidation of a new lifecycle come from the position as it is *)
(* now: for most strategies the invalidation is its present stop.             *)
Created(p, close) ==
    LET l == Fresh(p.entry, IF ByStop THEN p.stop ELSE p.entry - 2 * Atr,
                   p.entry - (Atr * 30) \div 100, p.entry - (Atr * 50) \div 100)
    IN  CASE p.kept # None -> Restored(l, p.kept)
          [] p.kept = None /\ ~p.imported -> l
          [] p.kept = None /\ p.imported /\ p.halved ->
                [l EXCEPT !.phase = 3, !.trail = Max({p.stop, p.entry})]
          [] p.kept = None /\ p.imported /\ ~p.halved /\ close > p.entry + Atr ->
                [l EXCEPT !.phase = 2, !.trail = p.entry]
          [] OTHER -> [l EXCEPT !.phase = 1]

(* evaluate() up to the reading of the phase, and after it.                   *)
Looked(p, i, l, in) ==
    IF Breached(l, in)
    THEN [at |-> "act", pos |-> p, lc |-> i, d |-> Exit]
    ELSE [at |-> "body", pos |-> p, lc |-> i, phase |-> l.phase, in |-> in]

Decided(t, o) == [at |-> "act", pos |-> t.pos, lc |-> t.lc, d |-> o.d]
Stale(t) == t.at = "body" /\ (t.phase # lcs[t.lc].phase \/ t.lc # reg)

(* The history of the holding's PARTIAL_SELL: asked for, filled, filled again,  *)
(* or no longer of interest: HalvedOnce names the reasons.                     *)
Halving(t, o) ==
    IF Stale(t) \/ (o.d = Partial /\ eod # "open") THEN "excused"
    ELSE IF o.d = Partial /\ halving = "none" THEN "asked" ELSE halving
Halved ==
    CASE halving = "asked" -> "filled"
      [] halving = "filled" -> "twice"
      [] OTHER -> halving

(* What the feed shows.                                                       *)
ShownBars == IF fallen THEN {[high |-> Bottom, low |-> Bottom, close |-> Bottom]} ELSE Bars
ShownBids == IF fallen THEN {Bottom} ELSE Bids
BarInput(b, rsi, vwap, strong) ==
    Input(b.high, b.low, b.close, FALSE, rsi, vwap, strong)
Strengths == IF Profile.thesis = "momentum" THEN BOOLEAN ELSE {TRUE}
BarInputs ==
    {BarInput(b, rsi, vwap, strong) :
        b \in ShownBars, rsi \in Rsis, vwap \in Vwaps, strong \in Strengths}

-----------------------------------------------------------------------------
(* The bar thread.                                                            *)

(* A BAR of the ticker is delivered to _on_bar.                                *)
BarComes ==
    /\ bar.at = "idle" /\ cur # NoId
    /\ bar' = Came
    /\ UNCHANGED <<world, book, objects, quote, lanes, broker, faults, past>>

(* Before it has looked at the clock or the position _on_bar returns when the  *)
(* BAR has too little history, is malformed, repeats the close without volume  *)
(* or is older than the last one.  After the force close a swing position that *)
(* is halved, or too small, is left alone.                                     *)
BarDropped ==
    /\ bar.at = "came"
    /\ bar' = Idle
    /\ UNCHANGED <<world, book, objects, quote, lanes, broker, faults, past>>

(* _on_bar, inside the trading window: the position is looked up.             *)
BarSeen ==
    /\ bar.at = "came" /\ cur # NoId /\ eod = "open"
    /\ bar' = [at |-> "seen", pos |-> cur, lc |-> NoId]
    /\ UNCHANGED <<world, book, objects, quote, lanes, broker, faults, past>>

(* Mutant: nothing is left to close once the lifecycle is gone.               *)
BarLateOnce ==
    /\ bar.at = "came" /\ cur # NoId /\ reg # NoId
    /\ bar' = Idle
    /\ \/ /\ eod \in {"core", "tier1"}
          /\ Emit("EXIT")
          /\ reg' = IF eod = "core" THEN NoId ELSE reg
          /\ lcs' = IF eod = "core" THEN Only(lcs, {quote.lc}) ELSE lcs
          /\ UNCHANGED halving
       \/ /\ eod = "swing" /\ ~pos[cur].halved /\ pos[cur].qty >= 2
          /\ Emit("PARTIAL")
          /\ halving' = IF halving = "none" THEN "asked" ELSE "excused"
          /\ UNCHANGED objects
    /\ UNCHANGED <<world, book, quote, closings, broker, faults, mixed>>

(* _on_bar after the force close: exits are no longer evaluated.              *)
BarLate ==
    /\ bar.at = "came" /\ cur # NoId
    /\ bar' = Idle
    /\ \/ /\ eod \in {"core", "tier1"}
          /\ Emit("EXIT")
          /\ reg' = IF eod = "core" THEN NoId ELSE reg
          /\ lcs' = IF eod = "core" THEN Only(lcs, {quote.lc}) ELSE lcs
          /\ UNCHANGED halving
       \/ /\ eod = "swing" /\ ~pos[cur].halved /\ pos[cur].qty >= 2
          /\ Emit("PARTIAL")
          /\ halving' = IF halving = "none" THEN "asked" ELSE "excused"
          /\ UNCHANGED objects
    /\ UNCHANGED <<world, book, quote, closings, broker, faults, mixed>>

(* _check_exits: the indicators are cached on the position, a lifecycle is    *)
(* made when none is registered, and its evaluation begins.                   *)
BarLooks ==
    /\ bar.at = "seen"
    /\ \E in \in BarInputs :
        LET p == pos[bar.pos]
            i == IF reg = NoId THEN Unused(lcs) ELSE reg
        IN  \E l \in {Seen(IF reg = NoId THEN Created(p, in.close) ELSE lcs[reg], in)} :
            /\ pos' = [pos EXCEPT ![bar.pos].rsi = in.rsi, ![bar.pos].vwap = in.vwap]
            /\ lcs' = [lcs EXCEPT ![i] = l]
            /\ reg' = i
            /\ bar' = Looked(bar.pos, i, l, in)
            /\ halving' = IF /\ reg = NoId /\ halving # "none"
                             /\ p.kept = None \/ p.kept.phase < 3
                          THEN "excused" ELSE halving
    /\ UNCHANGED <<world, cur, quote, lanes, broker, faults, mixed>>

(* _check_exits returns when the analysis of the history gives nothing.        *)
BarNotAnalysed ==
    /\ bar.at = "seen"
    /\ bar' = Idle
    /\ pos' = Only(pos, {cur, quote.pos})
    /\ UNCHANGED <<world, cur, objects, quote, lanes, broker, faults, past>>

BarDecides ==
    /\ bar.at = "body"
    /\ \E o \in {Body(bar.phase, lcs[bar.lc], bar.in)} :
           /\ lcs' = [lcs EXCEPT ![bar.lc] = o.lc]
           /\ bar' = Decided(bar, o)
           /\ halving' = Halving(bar, o)
    /\ UNCHANGED <<world, book, reg, quote, lanes, broker, faults, mixed>>

(* The state of the lifecycle is put on the position before the decision is   *)
(* acted on.                                                                 *)
BarActs ==
    /\ bar.at = "act"
    /\ LET p == [pos[bar.pos] EXCEPT !.kept = Kept(lcs[bar.lc]),
                                     !.stop = IF bar.d.act \in {"HOLD", "TIGHTEN"}
                                              THEN Max({@, bar.d.stop}) ELSE @]
           left == IF bar.d.act = "EXIT" THEN NoId ELSE reg
       IN  /\ pos' = Only([pos EXCEPT ![bar.pos] = p], {cur, quote.pos})
           /\ reg' = left
           /\ lcs' = Only(lcs, {left, quote.lc})
    /\ IF bar.d.act \in {"EXIT", "PARTIAL"} THEN Emit(bar.d.act) ELSE UNCHANGED signals
    /\ bar' = Idle
    /\ UNCHANGED <<world, cur, quote, closings, broker, faults, past>>

-----------------------------------------------------------------------------
(* The quote thread.                                                          *)

QuoteLooks ==
    /\ quote.at = "idle" /\ cur # NoId /\ eod = "open" /\ reg # NoId
    /\ \E bid \in ShownBids :
        LET in == Input(bid, bid, bid, TRUE, pos[cur].rsi, pos[cur].vwap, TRUE)
            l == Seen(lcs[reg], in)
        IN  /\ lcs' = [lcs EXCEPT ![reg] = l]
            /\ quote' = Looked(cur, reg, l, in)
    /\ UNCHANGED <<world, book, reg, bar, lanes, broker, faults, past>>

(* On a HOLD a quote leaves also the position's stop alone.                   *)
QuoteDecides ==
    /\ quote.at = "body"
    /\ \E o \in {Body(quote.phase, lcs[quote.lc], quote.in)} :
       LET held == [lcs EXCEPT ![quote.lc] = o.lc]
       IN  /\ IF o.d.act = "HOLD"
              THEN /\ quote' = Idle
                   /\ lcs' = Only(held, {reg, bar.lc})
                   /\ pos' = Only(pos, {cur, bar.pos})
              ELSE quote' = Decided(quote, o) /\ lcs' = held /\ UNCHANGED pos
           /\ halving' = Halving(quote, o)
    /\ UNCHANGED <<world, cur, reg, bar, lanes, broker, faults, mixed>>

(* Unlike a bar, a quote keeps nothing on the position.                       *)
QuoteActs ==
    /\ quote.at = "act"
    /\ LET p == IF quote.d.act = "TIGHTEN"
                THEN [pos[quote.pos] EXCEPT !.stop = Max({@, quote.d.stop})]
                ELSE pos[quote.pos]
           left == IF quote.d.act = "EXIT" THEN NoId ELSE reg
       IN  /\ pos' = Only([pos EXCEPT ![quote.pos] = p], {cur, bar.pos})
           /\ reg' = left
           /\ lcs' = Only(lcs, {left, bar.lc})
    /\ IF quote.d.act \in {"EXIT", "PARTIAL"} THEN Emit(quote.d.act) ELSE UNCHANGED signals
    /\ quote' = Idle
    /\ UNCHANGED <<world, cur, bar, closings, broker, faults, past>>

(* Without a lifecycle a quote looks at the position's own stop and target,   *)
(* and in the first minute after a start only at a catastrophic loss.          *)
QuoteWithoutLifecycle ==
    /\ quote.at = "idle" /\ cur # NoId /\ eod = "open" /\ reg = NoId
    /\ \E bid \in ShownBids :
        \/ bid <= pos[cur].entry - 2 * Atr
        \/ bid <= pos[cur].stop
        \/ bid >= pos[cur].entry + Gain
    /\ Emit("EXIT")
    /\ UNCHANGED <<world, book, objects, threads, closings, broker, faults, past>>

-----------------------------------------------------------------------------
(* From the signal to the books.                                              *)

(* RiskEngine._emit_sell_order: half or all of what the book holds now.       *)
Wanted ==
    IF cur = NoId THEN 0
    ELSE IF Head(signals) = "PARTIAL" THEN pos[cur].qty \div 2 ELSE pos[cur].qty

SignalIgnored ==
    /\ signals # <<>> /\ Wanted = 0
    /\ signals' = Tail(signals)
    /\ UNCHANGED <<world, book, objects, threads, closings, broker, faults, past>>

CloseBook ==
    /\ cur' = NoId
    /\ pos' = Only(pos, {bar.pos, quote.pos})
    /\ closings' = closings + 1
    /\ disk' = None

(* _on_fill of a SELL: _close_position, in part or whole, then _persist.      *)
SellFilled ==
    /\ signals # <<>> /\ Wanted > 0 /\ shares > 0
    /\ LET sold == Min({Wanted, shares})
           p == [pos[cur] EXCEPT !.qty = @ - sold, !.halved = TRUE,
                                 !.stop = Max({@, pos[cur].entry})]
       IN  /\ shares' = shares - sold
           /\ IF p.qty > 0
              THEN /\ pos' = [pos EXCEPT ![cur] = p]
                   /\ disk' = p
                   /\ UNCHANGED <<cur, closings>>
              ELSE CloseBook
    /\ halving' = IF Head(signals) = "PARTIAL" THEN Halved ELSE halving
    /\ signals' = Tail(signals)
    /\ UNCHANGED <<world, objects, threads, opens, faults, mixed>>

(* ORDER_FAIL with "no position": _on_order_fail removes the phantom.         *)
SellFindsNothing ==
    /\ signals # <<>> /\ Wanted > 0 /\ shares = 0
    /\ signals' = Tail(signals)
    /\ CloseBook
    /\ UNCHANGED <<world, objects, threads, shares, opens, faults, past>>

(* Any other ORDER_FAIL leaves the books alone.                               *)
SellFails ==
    /\ signals # <<>> /\ Wanted > 0 /\ faults < MaxFaults
    /\ faults' = faults + 1
    /\ signals' = Tail(signals)
    /\ UNCHANGED <<world, book, objects, threads, closings, broker, past>>

(* _on_position_lifecycle_cleanup.                                            *)
Cleanup ==
    /\ closings > 0
    /\ closings' = closings - 1
    /\ reg' = NoId
    /\ lcs' = Only(lcs, {bar.lc, quote.lc})
    /\ UNCHANGED <<world, book, threads, signals, broker, faults, past>>

(* What the holding before has left when the next one begins: a PARTIAL_SELL    *)
(* that will be filled from the new position, a lifecycle or a thread at work.  *)
PartialUnderWay ==
    \/ \E i \in DOMAIN signals : signals[i] = "PARTIAL"
    \/ \E t \in {bar, quote} : t.at = "act" /\ t.d = Partial
Leftover == reg # NoId \/ bar.pos # NoId \/ quote.pos # NoId

(* _open_position, then _persist.                                             *)
Opened ==
    /\ opens < Len(Entries) /\ cur = NoId /\ shares = 0
    /\ LET entry == Entries[opens + 1]
           p == Position(entry, entry - Risk, Qty, FALSE)
       IN  /\ cur' = Unused(pos)
           /\ pos' = [pos EXCEPT ![Unused(pos)] = p]
           /\ disk' = p
    /\ shares' = Qty
    /\ opens' = opens + 1
    /\ halving' = IF PartialUnderWay THEN "excused" ELSE "none"
    /\ mixed' = Leftover
    /\ UNCHANGED <<world, objects, threads, lanes, faults>>

(* The state that Monitor saves each cycle, which only a later crash can tell. *)
SaveCycle ==
    /\ cur # NoId /\ faults < MaxFaults
    /\ disk' = pos[cur]
    /\ UNCHANGED <<world, book, objects, threads, lanes, shares, opens, faults, past>>

(* A crash, and the next start.  The broker may have executed the order it    *)
(* was just given.  Positions come from the file, whose quantity the broker   *)
(* corrects; if the file has none, from the event store or from the broker.   *)
Restart ==
    /\ faults < MaxFaults
    /\ faults' = faults + 1
    /\ \E sold \in {0} \cup (IF signals = <<>> THEN {} ELSE {Min({Wanted, shares})}),
          lost \in BOOLEAN, imported \in BOOLEAN :
        LET left == shares - sold
            entry == Entries[opens]
            p == IF disk # None /\ ~lost
                 THEN [disk EXCEPT !.qty = IF left > 0 THEN left ELSE @]
                 ELSE IF left = 0 THEN None
                 ELSE Position(entry, entry - (IF imported THEN OrphanRisk ELSE Risk), left, imported)
        IN  /\ shares' = left
            /\ cur' = IF p = None THEN NoId ELSE 1
            /\ pos' = [i \in Ids |-> IF i = 1 THEN p ELSE None]
            /\ disk' = p
            /\ halving' = IF sold > 0 /\ Head(signals) = "PARTIAL" THEN Halved ELSE halving
    /\ lcs' = [i \in Ids |-> None] /\ reg' = NoId
    /\ bar' = Idle /\ quote' = Idle
    /\ signals' = <<>> /\ closings' = 0
    /\ UNCHANGED <<world, opens, mixed>>

Falls ==
    /\ ~fallen /\ fallen' = TRUE
    /\ UNCHANGED <<eod, book, objects, threads, lanes, broker, faults, past>>

ForceClose ==
    /\ eod = "open" /\ eod' \in Styles
    /\ UNCHANGED <<fallen, book, objects, threads, lanes, broker, faults, past>>

Init ==
    /\ fallen = FALSE /\ eod = "open"
    /\ pos = [i \in Ids |-> None] /\ cur = NoId
    /\ lcs = [i \in Ids |-> None] /\ reg = NoId
    /\ bar = Idle /\ quote = Idle
    /\ signals = <<>> /\ closings = 0
    /\ shares = 0 /\ disk = None
    /\ opens = 0 /\ faults = 0
    /\ halving = "none" /\ mixed = FALSE

BarThread ==
    \/ BarComes \/ BarDropped \/ BarSeen \/ BarLate
    \/ BarNotAnalysed \/ BarLooks \/ BarDecides \/ BarActs
QuoteThread == QuoteLooks \/ QuoteDecides \/ QuoteActs \/ QuoteWithoutLifecycle
Delivery == SignalIgnored \/ SellFilled \/ SellFindsNothing \/ Cleanup
Environment ==
    Opened \/ SellFails \/ SaveCycle \/ Restart \/ Falls \/ ForceClose

Next == BarThread \/ QuoteThread \/ Delivery \/ Environment

Spec == Init /\ [][Next]_vars

(* The monitor emits a bar for every open ticker in every cycle, and the BAR   *)
(* and SIGNAL lanes are served.  Any number of bars in a row may be dropped,   *)
(* but not all from some moment on: there is always another one that passes    *)
(* the validation, and another one that can be analysed.  Nothing is assumed   *)
(* of quotes.                                                                 *)
FairSpec ==
    /\ Spec
    /\ WF_vars(BarThread)
    /\ SF_vars(BarSeen \/ BarLate)
    /\ SF_vars(BarLooks)
    /\ WF_vars(SignalIgnored \/ SellFilled \/ SellFindsNothing)

-----------------------------------------------------------------------------
TypeOK ==
    /\ fallen \in BOOLEAN /\ eod \in {"open"} \cup Styles
    /\ cur \in Ids \cup {NoId} /\ reg \in Ids \cup {NoId}
    /\ cur # NoId => pos[cur] # None
    /\ reg # NoId => lcs[reg] # None /\ lcs[reg].phase \in Phases
    /\ \A t \in {bar, quote} :
        /\ t.at \in {"idle", "came", "seen", "body", "act"}
        /\ t.pos # NoId => pos[t.pos] # None
        /\ t.lc # NoId => lcs[t.lc] # None
    /\ Len(signals) <= Lane
    /\ shares \in 0..Qty /\ closings \in 0..Len(Entries)

(* Whichever of the two threads writes them, and in whatever order: the stop of *)
(* the open position, which other parts of the system read, is never lowered,  *)
(* and a lifecycle never goes back to an earlier phase or a lower trail, except *)
(* when a thread acts by a phase the other thread has ended in the meantime, or *)
(* the holding has met a lifecycle or a thread of the one before it.            *)
Ratchet ==
    [][faults' = faults =>
        /\ cur # NoId /\ cur' = cur => pos'[cur].stop >= pos[cur].stop
        /\ \A i \in Ids :
            lcs[i] # None /\ lcs'[i] # None =>
                \/ lcs'[i].phase >= lcs[i].phase /\ lcs'[i].trail >= lcs[i].trail
                \/ mixed
                \/ \E t \in {bar, quote} : t.lc = i /\ Stale(t)]_vars

(* At most one PARTIAL_SELL of a holding is filled, except after two threads   *)
(* evaluated the same phase, when the state that said so was not saved, when the *)
(* force close asks before the first one is filled, or when one asked for the   *)
(* holding before is still under way.                                         *)
HalvedOnce == halving # "twice"

(* Claimed by strategy_engine.py:651-654 ("restores exact phase, trail stop,    *)
(* partial status so no information is lost"): a lifecycle made again measures   *)
(* profit by the R of the entry.                                              *)
RestoredR == \A i \in Ids : lcs[i] # None => lcs[i].R = Risk

(* Claimed by strategy_engine.py:337 ("Open positions ALWAYS evaluate (lifecycle *)
(* needs every bar)"): no bar of an open position goes by without.            *)
OpenEvaluates ==
    [][faults' = faults /\ bar.at \in {"came", "seen"} /\ bar' = Idle
       => cur = NoId \/ eod # "open"]_vars

(* A position is sold once the price has fallen below every stop for good, and *)
(* once the force close has come for its strategy, also if a SELL fails, the   *)
(* process restarts in the middle of the exit, or bars are dropped before the  *)
(* exits - though not all of them.  After the force close nothing watches a    *)
(* swing position.                                                            *)
SoldWhenDue ==
    (cur # NoId /\ (fallen \/ eod \in {"core", "tier1"})) ~> (cur = NoId \/ eod = "swing")
=============================================================================
