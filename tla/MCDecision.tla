----------------------------- MODULE MCDecision -----------------------------
(* Instances of DecisionTick for TLC.                                        *)
(*                                                                           *)
(* A few candles on which a strategy or an early entry passes, and what each *)
(* of them becomes when one field changes.                                   *)
EXTENDS DecisionTick, TLC

\* Fields that cannot differ: a close beyond the channel is beyond the swing level
\* inside it, it has to be there to be accepted, and a side of EMA50 has a run.
Coherent(m) ==
    /\ m.brk # "NONE" => m.swing = m.brk
    /\ m.held \cup m.cont \subseteq {m.brk}
    /\ m.twice => m.brk # "NONE"
    /\ m.spike => m.body = 2 /\ m.vol = 4
    /\ (m.ema = "at") = (m.run = 0)
    /\ m.ema = "at" => m.dist = 0

\* A pullback in an uptrend is reclaimed; the stability score is soft.
Reclaim ==
    [htf |-> "up", drift |-> "up", strong |-> TRUE, persistent |-> TRUE, grade |-> "soft",
     confirmed |-> TRUE, reversal |-> {}, ema |-> "above", emaPrev |-> "below", move |-> "up",
     run |-> 1, bars |-> TRUE, prevWindow |-> TRUE, dist |-> 0, brk |-> "NONE", held |-> {},
     twice |-> FALSE, vol |-> 2, body |-> 1, atr |-> 2, widening |-> FALSE, squeezed |-> FALSE,
     narrow |-> FALSE, cont |-> {}, edges |-> {}, oversold |-> FALSE, event |-> FALSE,
     closeAt |-> "NONE", slope |-> "NONE", swing |-> "NONE", touched |-> TRUE, spike |-> FALSE,
     quiet |-> FALSE, asia |-> FALSE]

\* A downtrend goes on below its channel.
Slide ==
    [Reclaim EXCEPT !.htf = "down", !.drift = "down", !.ema = "below", !.move = "down",
                    !.run = 3, !.brk = "SHORT", !.held = {"SHORT"}, !.cont = {"SHORT"},
                    !.swing = "SHORT", !.body = 2, !.closeAt = "SHORT"]

\* The lower edge of a range.
Edge ==
    [Reclaim EXCEPT !.htf = "range", !.drift = "range", !.strong = FALSE, !.persistent = FALSE,
                    !.edges = {"LONG"}, !.vol = 1, !.body = 0, !.prevWindow = FALSE]

\* An uptrend that fails below its channel on moderate volume.
Failure ==
    [Reclaim EXCEPT !.ema = "below", !.run = 2, !.dist = 1, !.move = "down", !.brk = "SHORT",
                    !.held = {"SHORT"}, !.swing = "SHORT", !.slope = "SHORT", !.vol = 3,
                    !.grade = "hard", !.closeAt = "SHORT", !.bars = FALSE, !.prevWindow = FALSE]

OneChange(m) ==
    {[m EXCEPT !.grade = v] : v \in {"block", "hard", "soft"}}
        \cup {[m EXCEPT !.confirmed = FALSE], [m EXCEPT !.event = TRUE],
              [m EXCEPT !.event = TRUE, !.spike = TRUE, !.body = 2, !.vol = 4],
              [m EXCEPT !.dist = 3], [m EXCEPT !.persistent = FALSE]}

\* The strategies the four do not reach, and a candle that says nothing.
Others ==
    {[Slide EXCEPT !.vol = 4],
     [Slide EXCEPT !.vol = 4, !.asia = TRUE, !.atr = 3],
     [Slide EXCEPT !.vol = 4, !.squeezed = TRUE, !.twice = TRUE, !.atr = 1],
     [Failure EXCEPT !.emaPrev = "above", !.run = 1, !.touched = FALSE, !.closeAt = "NONE"],
     [Reclaim EXCEPT !.reversal = {"LONG"}]}

FewMarkets ==
    {m \in OneChange(Reclaim) \cup OneChange(Slide) \cup OneChange(Failure)
            \cup {Edge, [Edge EXCEPT !.event = TRUE]} \cup Others : Coherent(m)}

NoStrategy == {}
Extended == {BO, SQ, PB}
=============================================================================
