----------------------------- MODULE FillLedger -----------------------------
(***************************************************************************)
(* The fill ledger (monitor/fill_ledger.py) and its FIFO matcher            *)
(* (monitor/lot_matcher.py): fills are appended as lots, a SELL consumes    *)
(* the open BUY lots of its ticker oldest first, the file keeps the lots,   *)
(* and a restart derives remaining quantities and matches from them again.  *)
(* Every operation holds the ledger's lock, so each is one step.            *)
(*                                                                          *)
(* Quantities are whole shares (the code rounds to 6 digits and treats less *)
(* than an epsilon as zero); prices enter P&L only through the matches.     *)
(***************************************************************************)
EXTENDS Integers, Sequences, FiniteSets, SequencesExt

CONSTANTS
    Tickers,
    MaxLots,   \* bound: lots appended in a behaviour
    MaxQty,    \* bound: shares of a lot
    MaxDay,    \* bound: trading days
    MaxStarts  \* bound: times the process starts

ASSUME FillLedgerAssumption ==
    {MaxLots, MaxQty, MaxDay, MaxStarts} \subseteq Nat \ {0}

LotIds == 1 .. MaxLots
Lots   == [id : LotIds, side : {"BUY", "SELL"}, ticker : Tickers,
           qty : 1 .. MaxQty, day : 1 .. MaxDay]

VARIABLES
    lots,      \* _lots, in append order
    rem,       \* _lot_states: lot id -> remaining_qty (0 for what is no BUY)
    matches,   \* _matches
    file,      \* the lots of the last persisted state
    nextId, day, starts,
    swept,     \* close_stale_lots has run since the start
    oversold,  \* history: some SELL was larger than what was open
    carried,   \* history: some lot was sold from after its first day
    halved     \* history: some lot was partly sold, and open, when a day ended

past == <<oversold, carried, halved>>
ledgerVars == <<lots, rem, matches, file, nextId, day, starts, swept, past>>

MinOf(a, b) == IF a < b THEN a ELSE b

-----------------------------------------------------------------------------
(* LotMatcher                                                                *)

(* _open_lots_unsafe takes the open BUY lots of a ticker, in append order.    *)
OpenBuy(r, l, t) == l.side = "BUY" /\ l.ticker = t /\ r[l.id] > 0

TotalOpen(ls, r, t) ==
    FoldLeft(LAMBDA n, l : IF OpenBuy(r, l, t) THEN n + r[l.id] ELSE n, 0, ls)

(* Mutant: what a lot gives is not taken from the rest of the SELL.          *)
ConsumeWhole(sell, acc, l) ==
    LET n == MinOf(acc.left, acc.rem[l.id])
    IN  IF acc.left = 0 \/ ~OpenBuy(acc.rem, l, sell.ticker) THEN acc
        ELSE [acc EXCEPT !.rem[l.id] = @ - n,
                         !.matches = Append(@, [buy |-> l.id, sell |-> sell.id,
                                                qty |-> n, day |-> sell.day])]

(* One turn of match_sell's loop; a lot that is not open for the SELL has    *)
(* none.                                                                     *)
Consume(sell, acc, l) ==
    LET n == MinOf(acc.left, acc.rem[l.id])
    IN  IF acc.left = 0 \/ ~OpenBuy(acc.rem, l, sell.ticker) THEN acc
        ELSE [left    |-> acc.left - n,
              rem     |-> [acc.rem EXCEPT ![l.id] = @ - n],
              matches |-> Append(acc.matches, [buy |-> l.id, sell |-> sell.id,
                                               qty |-> n, day |-> sell.day])]

(* What match_sell starts from: the SELL is clamped to what is open.         *)
Clamped(sell, ls, r, ms) ==
    [left |-> MinOf(sell.qty, TotalOpen(ls, r, sell.ticker)), rem |-> r, matches |-> ms]

(* Mutant: the newest lot first.                                             *)
MatchSellNewestFirst(sell, ls, r, ms) ==
    FoldLeft(LAMBDA acc, l : Consume(sell, acc, l), Clamped(sell, ls, r, ms), Reverse(ls))

(* match_sell: first in, first out.                                          *)
MatchSell(sell, ls, r, ms) ==
    FoldLeft(LAMBDA acc, l : Consume(sell, acc, l), Clamped(sell, ls, r, ms), ls)

(* replay_matches: every BUY lot is reset to its original quantity, then the *)
(* SELLs are matched in append order, each against the open ones of all the  *)
(* BUY lots, later ones included.                                            *)
Original(ls) == [i \in LotIds |->
                   LET own == {k \in DOMAIN ls : ls[k].id = i /\ ls[k].side = "BUY"}
                   IN  IF own = {} THEN 0 ELSE ls[CHOOSE k \in own : TRUE].qty]

Replay(ls) ==
    FoldLeft(LAMBDA acc, l : IF l.side = "BUY" THEN acc
                             ELSE MatchSell(l, ls, acc.rem, acc.matches),
             [left |-> 0, rem |-> Original(ls), matches |-> <<>>], ls)

-----------------------------------------------------------------------------
(* FillLedger                                                                *)

(* Mutant: only open BUY lots are kept, whatever their day.                  *)
KeepsOpenOnly(l, r) == l.side = "BUY" /\ r[l.id] > 0

(* _persist: every lot of today, and the BUY lots of earlier days still open *)
Keeps(l, r) == l.day = day \/ (l.side = "BUY" /\ r[l.id] > 0)
Persist(ls, r) ==
    file' = FoldLeft(LAMBDA kept, l : IF Keeps(l, r) THEN Append(kept, l) ELSE kept, <<>>, ls)

(* append.  Its callers make a fresh lot id for every call, so that its test *)
(* for a duplicate never fires.                                              *)
AppendLot(l) ==
    /\ nextId <= MaxLots /\ l.id = nextId /\ l.day = day
    /\ nextId' = nextId + 1
    /\ UNCHANGED <<day, starts, swept>>
    /\ lots' = Append(lots, l)

AppendBuy(l) ==
    /\ l.side = "BUY" /\ AppendLot(l)
    /\ rem' = [rem EXCEPT ![l.id] = l.qty]
    /\ Persist(lots', rem')
    /\ UNCHANGED <<matches, past>>

(* A SELL with nothing open is rejected and leaves no trace.                 *)
AppendSell(l) ==
    /\ l.side = "SELL" /\ AppendLot(l)
    /\ \E k \in DOMAIN lots : OpenBuy(rem, lots[k], l.ticker)
    /\ LET after == MatchSell(l, lots, rem, matches)
       IN  rem' = after.rem /\ matches' = after.matches
    /\ oversold' = (oversold \/ l.qty > TotalOpen(lots, rem, l.ticker))
    /\ carried' = (carried \/ \E k \in DOMAIN lots : /\ lots[k].day < day
                                                    /\ rem'[lots[k].id] < rem[lots[k].id])
    /\ UNCHANGED halved
    /\ Persist(lots', rem')

(* Midnight.  _persist looks at the date, so that from now on it leaves out  *)
(* the SELLs of the day that is over, also of a lot that is still open.      *)
NewDay ==
    /\ day < MaxDay /\ day' = day + 1
    /\ halved' = (halved \/ \E k \in DOMAIN lots : rem[lots[k].id] \in 1 .. lots[k].qty - 1)
    /\ UNCHANGED <<lots, rem, matches, file, nextId, starts, swept, oversold, carried>>

(* The process dies and load() runs in the next one.                         *)
Load ==
    /\ starts < MaxStarts /\ starts' = starts + 1
    /\ lots' = file
    /\ rem' = Replay(file).rem /\ matches' = Replay(file).matches
    /\ swept' = FALSE
    /\ UNCHANGED <<file, nextId, day, past>>

(* close_stale_lots, once after startup: the open lots of the tickers that   *)
(* hold no position are set to zero, then the whole sequence is replayed,    *)
(* which resets every lot it still has.                                      *)
CloseStaleLots(active) ==
    /\ ~swept /\ swept' = TRUE
    /\ IF \A t \in Tickers \ active, k \in DOMAIN lots : ~OpenBuy(rem, lots[k], t)
       THEN UNCHANGED <<rem, matches, file>>
       ELSE /\ rem' = Replay(lots).rem /\ matches' = Replay(lots).matches
            /\ Persist(lots, rem')
    /\ UNCHANGED <<lots, nextId, day, starts, past>>

-----------------------------------------------------------------------------
LedgerInit ==
    /\ lots = <<>> /\ rem = [i \in LotIds |-> 0] /\ matches = <<>> /\ file = <<>>
    /\ nextId = 1 /\ day = 1 /\ starts = 1 /\ swept = FALSE
    /\ oversold = FALSE /\ carried = FALSE /\ halved = FALSE

LedgerNext ==
    \/ \E l \in Lots : AppendBuy(l) \/ AppendSell(l)
    \/ NewDay
    \/ Load
    \/ \E active \in SUBSET Tickers : CloseStaleLots(active)

LedgerSpec == LedgerInit /\ [][LedgerNext]_ledgerVars

-----------------------------------------------------------------------------
(* Properties                                                                *)

Lot(i) == lots[CHOOSE k \in DOMAIN lots : lots[k].id = i]
Present == {lots[k].id : k \in DOMAIN lots}
MatchedOf(ms, Test(_)) == FoldLeft(LAMBDA n, m : IF Test(m) THEN n + m.qty ELSE n, 0, ms)
Given(ms, i) == MatchedOf(ms, LAMBDA m : m.buy = i)
Taken(ms, i) == MatchedOf(ms, LAMBDA m : m.sell = i)

LedgerTyped ==
    /\ lots \in Seq(Lots) /\ file \in Seq(Lots)
    /\ rem \in [LotIds -> 0 .. MaxQty]
    /\ \A i \in DOMAIN matches : matches[i] \in [buy : LotIds, sell : LotIds,
                                                 qty : 1 .. MaxQty, day : 1 .. MaxDay]
    /\ nextId \in 1 .. MaxLots + 1 /\ day \in 1 .. MaxDay /\ starts \in 1 .. MaxStarts
    /\ {swept, oversold, carried, halved} \subseteq BOOLEAN

(* No share is sold twice or lost: what every BUY lot has given to SELLs and *)
(* what it still holds add up to the fill, and no SELL is matched beyond its *)
(* own size - through overfills, restarts and sweeps.                        *)
SharesConserved ==
    \A i \in Present :
        IF Lot(i).side = "BUY"
        THEN rem[i] + Given(matches, i) = Lot(i).qty
        ELSE Taken(matches, i) <= Lot(i).qty

(* Lots are consumed strictly first in, first out, live and replayed alike:  *)
(* a lot that has given shares leaves no older lot of its ticker open.       *)
OldestFirst ==
    \A j, k \in DOMAIN lots :
        /\ j < k /\ lots[j].side = "BUY" /\ lots[k].side = "BUY"
        /\ lots[j].ticker = lots[k].ticker
        /\ rem[lots[k].id] < lots[k].qty
        => rem[lots[j].id] = 0

(* A restart changes nothing: the quantities and the day's matches that      *)
(* load() would derive from the file are those the ledger holds.  Three      *)
(* histories are outside, each a way in which a BUY and its SELLs part ways   *)
(* in the file or in its replay: a SELL larger than what was open, whose     *)
(* excess the replay gives to later BUY lots; a lot sold from after its      *)
(* first day; and a lot sold in part and kept overnight, as the force close   *)
(* does with a swing position, whose SELL the next day's first save drops.    *)
Todays(ms) == SelectSeq(ms, LAMBDA m : m.day = day)
SameAsReplayed == /\ rem = Replay(file).rem
                  /\ Todays(matches) = Todays(Replay(file).matches)
RestartKeepsLedger == ~oversold /\ ~carried /\ ~halved => SameAsReplayed

(* Claimed by _persist (fill_ledger.py 383-384): the FIFO replay of the next *)
(* start derives the day's matches again, so that kill switch limits are not *)
(* reset by a crash.                                                         *)
DaySurvivesCrash == ~oversold => Todays(Replay(file).matches) = Todays(matches)

(* Claimed by _persist (fill_ledger.py 400, "Open lots from prior days - for  *)
(* position tracking"): the next start knows what is left of an open lot.     *)
OpenSurvivesRestart == ~oversold /\ ~carried => rem = Replay(file).rem
==============================================================================
