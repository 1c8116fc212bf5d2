------------------------------ MODULE MCResearch ------------------------------
(* Signals that reach every branch of the rules, and what the batches ask. *)
EXTENDS ResearchSession

Says(type, direction, level, confidence, fresh, family, topic) ==
  [type |-> type, direction |-> direction, level |-> level, confidence |-> confidence,
   fresh |-> fresh, family |-> family, topic |-> topic, value |-> "v"]

MCFacts ==
  [breakout |-> Says("measurement", "bullish", 4, 82, TRUE, "cex", "breakout"),
   inflow   |-> Says("flow", "bullish", 4, 78, TRUE, "onchain", "flow"),
   support  |-> Says("market_structure", "bullish", 4, 75, TRUE, "analytics", "structure"),
   depth    |-> Says("measurement", "bullish", 4, 70, TRUE, "cex", "depth"),
   denial   |-> Says("measurement", "bearish", 4, 98, TRUE, "cex", "breakout"),
   outflow  |-> Says("flow", "bearish", 4, 80, TRUE, "onchain", "flow"),
   rumour   |-> Says("causal", "neutral", 2, 45, TRUE, "infoflow", "flow"),
   leak     |-> Says("causal", "neutral", 3, 50, TRUE, "infoflow", "listing"),
   filing   |-> Says("fact", "neutral", 5, 70, TRUE, "official", "filing"),
   stale    |-> Says("measurement", "bullish", 4, 90, FALSE, "cex", "oi"),
   caution  |-> Says("risk_flag", "risk", 3, 62, TRUE, "safety", "depeg"),
   hack     |-> Says("risk_flag", "risk", 5, 90, TRUE, "safety", "bridge"),
   allclear |-> Says("invalidation", "invalidating", 5, 84, TRUE, "official", "bridge")]
MCSignal == DOMAIN MCFacts

MCProfile == [x |-> [relevance |-> 7, horizon |-> "adjacent"],
              y |-> [relevance |-> 7, horizon |-> "same"]]
MCFileName == [x |-> 1, y |-> 2]

\* The profiles that shadow promotion tries beside the default one.
Relaxed == [threshold |-> 65, penalty |-> 0]
Wary == [threshold |-> 70, penalty |-> 4]

Under(terms, o, signals) == [mode |-> "create", object |-> o, signals |-> signals, terms |-> terms]
Create(o, signals) == Under(DefaultTerms, o, signals)
Again(terms, o, signals) == [Under(terms, o, signals) EXCEPT !.mode = "continue"]
Continue(o, signals) == Again(DefaultTerms, o, signals)
Asks(f, s) == [b \in Batch |-> IF b = "first" THEN f ELSE s]

\* One batch over one object: an opening and two updates.
Openings == {<<"breakout", "inflow", "support">>, <<"breakout", "inflow", "filing">>,
             <<"stale", "filing">>, <<"rumour">>, <<"breakout", "inflow", "support", "caution">>}
Late == {"support", "denial", "filing", "hack"}
Pass(o, opening, t, u) == Asks(<<Create(o, opening), Continue(o, <<t>>), Continue(o, <<u>>)>>, <<>>)
Deep == {Pass("x", opening, t, u) : opening \in Openings, t \in Signal, u \in Late}
          \cup {Pass("y", opening, "caution", u) : opening \in Openings, u \in Late}
          \cup {Pass("x", opening, "hack", "allclear") : opening \in Openings}

\* Two batches over two objects; the second may create an object of the first anew.
Opening == <<Create("x", <<"breakout", "inflow", "support">>), Create("y", <<"rumour">>)>>
Wide == {Asks(Opening, <<Again(Wary, "x", <<s>>), Continue("y", <<"filing">>)>>) : s \in {"hack", "denial"}}
          \cup {Asks(Opening, <<Continue("y", <<"filing">>), Create("x", <<"hack", "filing">>)>>)}

\* The same object under one profile and then another: the attention of the first
\* opening is enough for the relaxed one only, that of the second, after the rumour,
\* for all but the wary one.
Mixed ==
  {Asks(<<Under(e, "x", opening), Again(f, "x", <<t>>)>>, <<>>) :
     e \in {DefaultTerms, Relaxed, Wary}, f \in {DefaultTerms, Relaxed, Wary}, t \in Late \cup {"rumour"},
     opening \in {<<"breakout", "inflow", "depth">>, <<"breakout", "inflow", "support", "caution">>}}

\* A request without signals.
NoSignals == {Asks(<<Create("x", <<"filing">>), Continue("x", <<>>)>>, <<>>)}

MCPlans == Deep \cup Wide \cup Mixed \cup NoSignals
===============================================================================
