------------------------------- MODULE Payload -------------------------------
(***************************************************************************)
(* What a tick hands to the decision engine and to the risk manager:       *)
(* the account as app/run.py reads it before every candle and the checks   *)
(* that skip the candle, and the levels, the funds and the limits that     *)
(* app/data/payload_builder.py puts into the payload.                      *)
(*                                                                         *)
(* Prices are counted in ticks and quantities in steps.  Averages and      *)
(* oscillators are left out; of the indicators the levels remain, because  *)
(* stops are placed on them.                                               *)
(***************************************************************************)
EXTENDS Integers, Sequences, FiniteSets, FiniteSetsExt

CONSTANTS
    Period,     \* candles of the channel, 20 in the code
    SwingM,     \* CONFIRM_SWING_M
    MaxAge      \* DATA_MAX_AGE_SECONDS, in candles

ASSUME PayloadAssumption ==
    Period \in Nat \ {0} /\ SwingM \in Nat \ {0} /\ MaxAge \in Nat

\* A number the exchange did not give, and a level with too few candles: the
\* code uses None and -1.0.
Unknown == -1

-----------------------------------------------------------------------------
(* The account.                                                            *)

\* An answer of fetch_futures_private: everything, only the balances, or an
\* error of one of the two categories that are told apart.
Replies(Money) ==
    [kind : {"full", "balances"}, margin : Money, available : Money, wallet : Money]
    \cup [kind : {"TRANSIENT_ERROR", "CONFIG_ERROR"},
          margin : {0}, available : {0}, wallet : {0}]

Positive(amount) == IF amount > 0 THEN amount ELSE Unknown

AccountSnapshot(reply) ==
    CASE reply.kind = "full" ->
            [equity |-> IF reply.margin > 0 THEN reply.margin ELSE Positive(reply.wallet),
             available |-> reply.available, margin |-> reply.margin,
             wallet |-> Positive(reply.wallet), error |-> "none"]
      [] reply.kind = "balances" ->
            [equity |-> Positive(reply.wallet), available |-> Unknown, margin |-> Unknown,
             wallet |-> Positive(reply.wallet), error |-> "none"]
      [] OTHER ->
            [equity |-> Unknown, available |-> Unknown, margin |-> Unknown,
             wallet |-> Unknown, error |-> reply.kind]

\* ENV=production: an account without an answer has no fallback.
PreflightRejects(account, priced, limited) ==
    {r \in {"account"} : \/ account.error # "none"
                         \/ account.equity <= 0
                         \/ account.available <= 0
                         \/ account.wallet <= 0}
    \cup {r \in {"price"} : ~priced}
    \cup {r \in {"filters"} : ~limited}

\* A zero is as good as nothing to Python's "or": the wallet stands in for
\* an account that has no margin left.
Available(account) == IF account.available > 0 THEN account.available ELSE account.wallet

\* Mutant: the margin balance alone.
FundsOfMargin(account) ==
    IF account.margin # Unknown THEN account.margin ELSE Available(account)

FundsBase(account) ==
    IF Available(account) # Unknown /\ account.margin # Unknown
      THEN Min({Available(account), account.margin})
      ELSE Available(account)

-----------------------------------------------------------------------------
(* The candles.  The last candle of a window is the one that just closed.  *)

CandlesOf(prices) ==
    {c \in [low : prices, close : prices, high : prices] :
        c.low <= c.close /\ c.close <= c.high}

Closed(window) == window[Len(window)]

Within(window, first, last) == {window[i] : i \in first .. last}

\* Rolling extremes over the last Period candles, the closed one included.
Channel(window) ==
    LET recent == Within(window, Len(window) - Period + 1, Len(window))
    IN  IF Len(window) < Period
          THEN [high |-> Unknown, low |-> Unknown]
          ELSE [high |-> Max({c.high : c \in recent}), low |-> Min({c.low : c \in recent})]

\* Extremes of the SwingM candles before the closed one.
Swing(window) ==
    LET earlier == Within(window, Len(window) - SwingM, Len(window) - 1)
    IN  IF Len(window) < SwingM + 1
          THEN [high |-> Unknown, low |-> Unknown]
          ELSE [high |-> Max({c.high : c \in earlier}), low |-> Min({c.low : c \in earlier})]

\* How many closes in a row, up to the last, are beyond a level on a side.
ClosesBeyond(window, side, level) ==
    LET Beyond(close) == IF side = "LONG" THEN close > level ELSE close < level
    IN  IF level = Unknown
          THEN Unknown
          ELSE Max({n \in 0 .. Len(window) :
                       \A i \in Len(window) - n + 1 .. Len(window) : Beyond(window[i].close)})

Features(window, ema) ==
    [close |-> Closed(window).close,
     ema |-> ema,
     channel |-> Channel(window),
     swing |-> Swing(window),
     closesAbove |-> ClosesBeyond(window, "LONG", Channel(window).high),
     closesBelow |-> ClosesBeyond(window, "SHORT", Channel(window).low)]

-----------------------------------------------------------------------------
PayloadErrors(account, limited, candle, now) ==
    {e \in {"missing_or_invalid_equity"} : account.equity <= 0}
    \cup {e \in {"funds"} : FundsBase(account) <= 0}
    \cup {e \in {"missing_limits"} : ~limited}
    \cup {e \in {"stale_timestamp_closed"} : candle < now - MaxAge}

PayloadOf(window, ema, account, candle, position) ==
    [candle |-> candle, features |-> Features(window, ema),
     funds |-> FundsBase(account), equity |-> account.equity, position |-> position]
=============================================================================
