------------------------------- MODULE Adapt -------------------------------
(***************************************************************************)
(* adapt.rs: what an adaptation run concludes from the rows of Relays, and   *)
(* config.rs: what the pasted block then allows each interface.              *)
(*                                                                          *)
(* No state of its own: suggest reads the rows when the watch ends, and a    *)
(* watch may end in any state.  The sentence that justifies a suggestion is  *)
(* left out.                                                                *)
(***************************************************************************)
EXTENDS Relays

CONSTANTS
  Floor,         \* FLOOR (300 s)
  Ceiling,       \* CEILING (86 400 s)
  Headroom,      \* HEADROOM (3)
  Fallback,      \* cfg.thresholds.idle_seconds
  NoSuggestion,  \* None, of Suggestion.idle_seconds
  MinRequests,   \* of Judgement
  Enough         \* of Judgement

ASSUME AdaptAssumption ==
  /\ Floor \in Nat /\ Ceiling \in Nat /\ Floor <= Ceiling
  /\ Headroom \in Nat \ {0}
  /\ Fallback \in Nat
  /\ NoSuggestion \notin Nat

J == INSTANCE Judgement

(***************************************************************************)
(* adapt::judge: one interface.  A threshold needs a gap, and a gap needs    *)
(* two requests.                                                            *)
(***************************************************************************)
Clamp(n, low, high) == IF n < low THEN low ELSE IF n > high THEN high ELSE n

\* Slips: three requests asked for; the mean gap taken for the longest.
JudgeNeedsThree(requests, span, longestGap) ==
  IF requests < 3 THEN NoSuggestion ELSE Clamp(longestGap * Headroom, Floor, Ceiling)
JudgeOnMean(requests, span, longestGap) ==
  IF requests < 2 THEN NoSuggestion
                  ELSE Clamp((span \div (requests - 1)) * Headroom, Floor, Ceiling)

Judge(requests, span, longestGap) ==
  IF requests < 2 THEN NoSuggestion ELSE Clamp(longestGap * Headroom, Floor, Ceiling)

(***************************************************************************)
(* adapt::suggest and as_config: the block lists what has a suggestion.      *)
(***************************************************************************)
Span(r) ==
  IF r.lastRequest # Never /\ r.lastRequest > r.firstSeen
  THEN r.lastRequest - r.firstSeen ELSE 0

Suggested(gi) == Judge(rows[gi].requests, Span(rows[gi]), rows[gi].longestGap)

AsConfig ==
  [gi \in {g \in Each : Suggested(g) # NoSuggestion} |-> Suggested(gi)]

\* PerRelay::idle_seconds
IdleSeconds(perRelay, gi) ==
  IF gi \in DOMAIN perRelay THEN perRelay[gi] ELSE Fallback

-----------------------------------------------------------------------------
(***************************************************************************)
(* Properties                                                               *)
(***************************************************************************)

\* A silence that gi ends by asking again.
Breaks(gi) ==
  /\ rows'[gi].requests # rows[gi].requests
  /\ rows[gi].lastRequest # Never

\* "A threshold with room above" the longest silence (adapt.rs:13-14): once an
\* interface has broken a silence, the block pasted from the watch does not have
\* it called quiet for that silence, nor for one Headroom times as long, unless
\* that is more than the ceiling.
SuggestionHasRoom ==
  [][ \A gi \in Each : Breaks(gi) /\ Headroom * IdleFor(gi) <= Ceiling =>
        J!JudgeRelay(rows'[gi].requests, rows'[gi].requests,
                     Headroom * IdleFor(gi), IdleSeconds(AsConfig', gi)) # "Quiet" ]_vars

\* Watching for longer never withdraws a suggestion and never tightens one, by
\* whatever clock: what one silence has shown, later ones do not take back.
SuggestionsOnlyLoosen ==
  [][ \A gi \in DOMAIN AsConfig :
        gi \in DOMAIN AsConfig' /\ AsConfig'[gi] >= AsConfig[gi] ]_vars
=============================================================================
