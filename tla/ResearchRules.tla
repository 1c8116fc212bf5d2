----------------------------- MODULE ResearchRules -----------------------------
(***************************************************************************)
(* One pass of the research kernel over one object: claims and their        *)
(* status (core/claims.py), conflicts between them (core/conflicts.py), the *)
(* theses built from them (core/thesis.py), the rules that move the object  *)
(* (core/runtime_rules.py), the state machine that may refuse a move        *)
(* (core/state_machine.py), the publish gate, and the two entry points of   *)
(* RuntimeOrchestrator, _run_new_impl and _continue_existing_impl.          *)
(*                                                                         *)
(* All of it happens in the memory of one worker, so a pass is an operator  *)
(* from the stored session and the new signals to the session to be saved.  *)
(* A claim keeps its signal and its status; everything else about it comes  *)
(* from the signal.  Left out because nothing decides on it: market state,  *)
(* cadence, resource slots, titles, the step log, the cycle counter.        *)
(***************************************************************************)
EXTENDS Integers, FiniteSets, Sequences, FiniteSetsExt

CONSTANTS
  Signal,              \* signal ids
  Facts,               \* what each signal says
  Object,              \* object ids
  Profile              \* relevance of an object's type, closeness of its horizon to "short"

AnchorType == {"fact", "measurement", "flow", "market_structure"}
MarketType == {"measurement", "flow", "market_structure"}
RiskType == {"risk_flag", "invalidation"}
ClaimType == AnchorType \cup RiskType \cup {"causal", "predictive"}
Directed == {"bullish", "bearish"}

\* topic stands for subject, predicate, scope and horizon together.
Fact == [type : ClaimType, direction : Directed \cup {"neutral", "risk", "invalidating"},
         level : 1..5, confidence : 0..100, fresh : BOOLEAN,
         family : STRING, topic : STRING, value : STRING]

ASSUME RulesAssumption ==
  /\ Facts \in [Signal -> Fact]
  /\ Profile \in [Object -> [relevance : 6..9, horizon : {"same", "adjacent", "far"}]]

\* The execution profile of a request: the attention its publish gate asks for, and
\* what it takes off the score of an object at risk.
Terms == [threshold : Nat, penalty : Nat]
DefaultTerms == [threshold |-> 70, penalty |-> 0]

ClaimStatus == {"proposed", "grounded", "supported", "contested", "promoted", "stale", "invalidated"}
Claim == [signal : Signal, status : ClaimStatus]
RiskState == {"normal", "caution", "restricted", "blocked"}
ProcessingState == {"candidate", "screened", "active_research", "evidence_complete",
                    "publish_ready", "published", "monitoring", "archived", "blocked"}

F(c) == Facts[c.signal]
Counts(c) == c.status \in {"supported", "promoted"}

-----------------------------------------------------------------------------
(* Claims. *)

\* Claim.advance_basic_status
Advanced(c) ==
  [c EXCEPT !.status =
     IF @ = "invalidated" THEN @
     ELSE IF F(c).level < 3 THEN "proposed"
     ELSE IF ~F(c).fresh THEN "stale"
     ELSE IF F(c).confidence >= 60 /\ @ \in {"proposed", "grounded"} THEN "supported"
     ELSE IF F(c).confidence < 60 /\ @ = "proposed" THEN "grounded"
     ELSE @]

ClaimFrom(s) ==
  Advanced([signal |-> s, status |-> IF Facts[s].level >= 3 THEN "grounded" ELSE "proposed"])
ClaimsFrom(signals) == [i \in DOMAIN signals |-> ClaimFrom(signals[i])]
AdvanceAll(claims) == [i \in DOMAIN claims |-> Advanced(claims[i])]

\* Severities of a conflict, as ranks.
Clean == 0
Low == 1
Medium == 2
High == 3
Critical == 4

Conflict(f, g) == f.topic = g.topic /\ (f.direction # g.direction \/ f.value # g.value)

Severity(f, g) ==
  LET bothAt(level, confidence) == \A h \in {f, g} : h.level >= level /\ h.confidence >= confidence
  IN IF bothAt(4, 75) /\ {f.type, g.type} \cap RiskType # {} THEN Critical
     ELSE IF bothAt(4, 65) THEN High
     ELSE IF bothAt(3, 0) THEN Medium
     ELSE Low

\* How severely two signals conflict.
Clash == [s, t \in Signal |->
           IF Conflict(Facts[s], Facts[t]) THEN Severity(Facts[s], Facts[t]) ELSE Clean]
ClashOf(claims, i, j) == Clash[claims[i].signal, claims[j].signal]

\* _choose_winner: by two levels of evidence, else by 15 points of confidence.
Beats(c, d) ==
  \/ F(c).level >= F(d).level + 2
  \/ /\ F(d).level < F(c).level + 2 /\ F(c).level < F(d).level + 2
     /\ F(c).confidence >= F(d).confidence + 15

Rivals(claims, i) == {j \in DOMAIN claims : ClashOf(claims, i, j) # Clean}

\* group_claim_conflicts changes statuses: the loser of a severe conflict is
\* invalidated, any other claim that does not win its conflict is contested.
\* Pairs are judged on what the signals say, so their order does not matter.
Regrouped(claims) ==
  [i \in DOMAIN claims |->
    LET c == claims[i] IN
    IF c.status = "invalidated" THEN c
    ELSE IF \E j \in Rivals(claims, i) : Beats(claims[j], c) /\ ClashOf(claims, i, j) >= High
      THEN [c EXCEPT !.status = "invalidated"]
    ELSE IF \E j \in Rivals(claims, i) : ~Beats(c, claims[j])
      THEN [c EXCEPT !.status = "contested"]
    ELSE c]

ConflictOf(claims, i) == Max({Clean} \cup {ClashOf(claims, i, j) : j \in DOMAIN claims})
MaxConflict(claims) == Max({Clean} \cup {ConflictOf(claims, i) : i \in DOMAIN claims})

-----------------------------------------------------------------------------
(* Rules. *)

\* derive_risk_state
Risk(claims) ==
  LET at(level, confidence) ==
        \E i \in DOMAIN claims :
          /\ F(claims[i]).type \in RiskType /\ Counts(claims[i])
          /\ F(claims[i]).level >= level /\ F(claims[i]).confidence >= confidence
  IN IF at(5, 85) THEN "blocked"
     ELSE IF at(4, 65) THEN "restricted"
     ELSE IF at(1, 0) THEN "caution"
     ELSE "normal"

\* Python's round of a quotient: half to even.
RoundedDiv(a, b) ==
  LET q == a \div b
      r == a % b
  IN IF 2 * r > b \/ (2 * r = b /\ q % 2 = 1) THEN q + 1 ELSE q

AtMost(bound, n) == IF n < bound THEN n ELSE bound
AtLeast(bound, n) == IF n > bound THEN n ELSE bound

Counting(claims) == {i \in DOMAIN claims : Counts(claims[i])}
Relevant(claims) == IF Counting(claims) = {} THEN DOMAIN claims ELSE Counting(claims)

\* The rounded mean level of the claims in S.
MeanLevel(claims, S) ==
  IF S = {} THEN 1
  ELSE RoundedDiv(Cardinality({x \in S \X (1..5) : F(claims[x[1]]).level >= x[2]}), Cardinality(S))

Score(penalty, relevance, types, families, market, level, fresh, conflict, risk) ==
  LET score == AtMost(20, 8 + 2 * types) + AtMost(20, 4 * level) + AtMost(20, 5 * families)
               + (IF market = 0 THEN 3 ELSE AtMost(15, 4 * market))
               + relevance + (IF fresh THEN 10 ELSE 6)
               - <<0, 5, 7, 10, 15>>[conflict + 1]
               - (CASE risk = "normal" -> 0 [] risk = "caution" -> 6
                    [] risk = "restricted" -> 12 [] risk = "blocked" -> 20)
      bounded == AtLeast(0, AtMost(100, score))
  IN IF risk = "normal" THEN bounded ELSE AtLeast(0, bounded - penalty)

Attention(o, terms, claims, risk) ==
  Score(terms.penalty, Profile[o].relevance,
        Cardinality({F(claims[i]).type : i \in Relevant(claims)}),
        Cardinality({F(claims[i]).family : i \in Relevant(claims)}),
        Cardinality({i \in Counting(claims) : F(claims[i]).type \in MarketType}),
        MeanLevel(claims, Relevant(claims)),
        \A i \in Relevant(claims) : F(claims[i]).fresh,
        MaxConflict(claims), risk)

Families(claims) == {F(claims[i]).family : i \in DOMAIN claims}

CandidateExit(claims) ==
  IF \E i \in DOMAIN claims : claims[i].status # "invalidated" /\ F(claims[i]).level >= 3
  THEN "screened" ELSE "archived"

ScreenedExit(attention, risk, claims) ==
  IF attention < 30 THEN "archived"
  ELSE IF /\ attention >= 55 /\ MaxConflict(claims) < High /\ risk # "blocked"
          /\ \/ Cardinality(Families(claims)) >= 2
             \/ \E i \in DOMAIN claims : F(claims[i]).level >= 4
    THEN "active_research"
  ELSE "monitoring"

ActiveExit(risk, claims) ==
  IF risk = "blocked" THEN "blocked"
  ELSE IF /\ Cardinality(Counting(claims)) >= 2
          /\ \E i \in Counting(claims) : F(claims[i]).type \in AnchorType /\ F(claims[i]).fresh
    THEN "evidence_complete"
  ELSE "monitoring"

MonitoringExit(attention, risk, claims) ==
  IF risk = "blocked" THEN "blocked"
  ELSE IF attention < 30 THEN "archived"
  ELSE IF /\ attention >= 55
          /\ \/ Cardinality(Families(claims)) >= 2
             \/ \E i \in DOMAIN claims : F(claims[i]).level >= 4 /\ F(claims[i]).fresh
    THEN "active_research"
  ELSE "monitoring"

CanReactivate(new) ==
  LET fresh(level) == {i \in DOMAIN new : F(new[i]).level >= level /\ F(new[i]).fresh} IN
  fresh(5) # {} \/ Cardinality(fresh(4)) >= 2

-----------------------------------------------------------------------------
(* Theses. *)

CanAnchor(claims, i) ==
  Counts(claims[i]) /\ F(claims[i]).fresh /\ ConflictOf(claims, i) <= Low

Towards(claims, direction) ==
  {i \in DOMAIN claims : /\ F(claims[i]).type \in AnchorType
                         /\ F(claims[i]).direction = direction /\ CanAnchor(claims, i)}
Larger(bullish, bearish) ==
  IF Cardinality(bullish) >= Cardinality(bearish) THEN bullish ELSE bearish
Dominant(claims) == Larger(Towards(claims, "bullish"), Towards(claims, "bearish"))
RiskClaims(claims) == {i \in DOMAIN claims : F(claims[i]).type \in RiskType /\ CanAnchor(claims, i)}

\* The first n claims of S by confidence, the earlier one first among equals.
First(n, S, claims) ==
  {i \in S : Cardinality({j \in S : \/ F(claims[j]).confidence > F(claims[i]).confidence
                                    \/ /\ F(claims[j]).confidence = F(claims[i]).confidence
                                       /\ j < i}) < n}
Anchors(S, claims) == First(2, S, claims)
BestLevel(S, claims) == Max({0} \cup {F(claims[i]).level : i \in Anchors(S, claims)})

\* evaluate_thesis_conflict between the predictive and the risk thesis, whose
\* best levels are p and r.
Opposed(p, r) == IF p - r \in -1..1 THEN High ELSE Medium
ThesisConflict(horizon, p, r, risk) ==
  IF risk = "restricted"
  THEN IF horizon # "far" /\ p >= 4 /\ r >= 4 THEN Opposed(p, r) ELSE Medium
  ELSE IF horizon = "same" THEN Opposed(p, r) ELSE Low

\* select_working_theses and the severity that evaluate_thesis_conflicts gives
\* the working primary (that of a risk thesis decides nothing).  A risk thesis
\* overrules the predictive one when the object is restricted; otherwise it
\* opposes it from medium on.
Primary(predictive, risky, overruled, conflict) ==
  IF predictive /\ ~overruled
  THEN [kind |-> "predictive",
        severity |-> IF risky /\ conflict >= Medium THEN conflict ELSE Clean]
  ELSE [kind |-> IF risky THEN "risk" ELSE "none", severity |-> Clean]

Selected(o, claims, risk, D, R) ==
  Primary(Cardinality(D) >= 2, R # {},
          risk = "restricted" /\ BestLevel(R, claims) >= 4,
          ThesisConflict(Profile[o].horizon, BestLevel(D, claims), BestLevel(R, claims), risk))
Working(o, claims, risk) == Selected(o, claims, risk, Dominant(claims), RiskClaims(claims))

\* The streak counts the evaluations of one pass only, because the theses of a
\* stored session are built anew.
Streak(first, second) == IF second.kind # "none" /\ first.kind = second.kind THEN 2 ELSE 1

EvidenceExit(risk, primary, streak) ==
  IF /\ risk \notin {"restricted", "blocked"}
     /\ primary.kind = "predictive" /\ streak >= 2 /\ primary.severity <= Low
  THEN "publish_ready" ELSE "monitoring"

\* promote_publishable_claims
Promoted(claims, primary) ==
  [i \in DOMAIN claims |->
     IF /\ primary.kind = "predictive" /\ i \in First(3, Dominant(claims), claims)
        /\ claims[i].status = "supported"
     THEN [claims[i] EXCEPT !.status = "promoted"] ELSE claims[i]]

\* PublishGate.evaluate.  That the primary is not challenged is left out: the
\* exit to publish_ready has just set its status.
PublishGate_TwoPromoted(q, claims, D, primary, streak, risk, attention) ==
  LET anchors == Anchors(D, claims)
  IN IF risk = "blocked" THEN "blocked"
     ELSE IF /\ primary.kind = "predictive" /\ risk # "restricted"
             /\ primary.severity < Medium /\ streak >= 2
             /\ Cardinality(anchors) >= 2
             /\ Cardinality({i \in D : claims[i].status = "promoted"}) >= 2
             /\ Cardinality({F(claims[i]).family : i \in anchors}) >= 2
             /\ BestLevel(D, claims) >= 4
             /\ \A i \in anchors : F(claims[i]).fresh
             /\ attention >= q.terms.threshold
       THEN "published"
     ELSE "monitoring"

PublishGate(q, claims, D, primary, streak, risk, attention) ==
  LET anchors == Anchors(D, claims)
  IN IF risk = "blocked" THEN "blocked"
     ELSE IF /\ primary.kind = "predictive" /\ risk # "restricted"
             /\ primary.severity < Medium /\ streak >= 2
             /\ Cardinality(anchors) >= 2
             /\ Cardinality({i \in D : claims[i].status = "promoted"}) >= 3
             /\ Cardinality({F(claims[i]).family : i \in anchors}) >= 2
             /\ BestLevel(D, claims) >= 4
             /\ \A i \in anchors : F(claims[i]).fresh
             /\ attention >= q.terms.threshold
       THEN "published"
     ELSE "monitoring"

-----------------------------------------------------------------------------
(* The state machine. *)

Order == [candidate |-> 0, screened |-> 1, active_research |-> 2, evidence_complete |-> 3,
          publish_ready |-> 4, published |-> 5, monitoring |-> 6, archived |-> 7, blocked |-> 8]

\* ALLOWED_PROCESSING_TRANSITIONS; to blocked it is allowed from anywhere else.
Allowed ==
  [candidate |-> {"screened", "archived"},
   screened |-> {"active_research", "monitoring", "archived"},
   active_research |-> {"evidence_complete", "monitoring"},
   evidence_complete |-> {"publish_ready", "monitoring"},
   publish_ready |-> {"published", "evidence_complete", "monitoring"},
   published |-> {"monitoring"},
   monitoring |-> {"active_research", "archived"},
   archived |-> {"active_research"},
   blocked |-> {}]

BeginCycle_MovesKept(p) == p

\* Where an object is within its pass; moved counts the forward moves of the
\* cycle, ok is FALSE once the state machine or a step has raised.
At(state) == [state |-> state, moved |-> 0, ok |-> TRUE]
BeginCycle(p) == [p EXCEPT !.moved = 0]

\* transition_processing: one forward move per cycle, except to blocked.
MoveTo(p, target) ==
  IF target = p.state THEN p
  ELSE IF target = "blocked" THEN [p EXCEPT !.state = target]
  ELSE IF target \notin Allowed[p.state] THEN [p EXCEPT !.ok = FALSE]
  ELSE IF Order[target] < Order[p.state] THEN [p EXCEPT !.state = target]
  ELSE IF p.moved >= 1 THEN [p EXCEPT !.ok = FALSE]
  ELSE [p EXCEPT !.state = target, !.moved = @ + 1]

Require(p, states) == [p EXCEPT !.ok = @ /\ p.state \in states]

-----------------------------------------------------------------------------
(* The passes.  A pass is of a request q: its object, signals and terms.  *)
(* A pass that raises saves nothing.                                       *)

\* terms: (history) the profile of the request whose pass ended in this session.
Session == [state : ProcessingState \cup {"raised"}, risk : RiskState, claims : Seq(Claim),
            terms : Terms]

\* _finalize
Finalized(q, p, risk, claims) ==
  [state |-> IF p.ok THEN p.state ELSE "raised", risk |-> risk, claims |-> claims,
   terms |-> q.terms]

Gated_VerdictAsRisk(q, p, verdict, risk, claims) == Finalized(q, MoveTo(p, verdict), verdict, claims)

\* The gate, once the claims are promoted.
Gated(q, p, verdict, risk, claims) ==
  Finalized(q, MoveTo(p, verdict), IF verdict = "blocked" THEN "blocked" ELSE risk, claims)

\* After the exit from evidence_complete.
Exited(q, p, claims, risk, attention, primary, streak) ==
  IF p.state # "publish_ready" THEN Finalized(q, p, risk, claims)
  ELSE Gated(q, BeginCycle(p),
             PublishGate(q, claims, Dominant(claims), primary, streak, risk, attention),
             risk, claims)

\* After the exit from active_research.
Judged(q, p, claims, risk, first, second) ==
  IF p.state # "evidence_complete" THEN Finalized(q, p, risk, claims)
  ELSE Exited(q, MoveTo(BeginCycle(p), EvidenceExit(risk, second, Streak(first, second))),
              Promoted(claims, second), risk, Attention(q.object, q.terms, claims, risk),
              second, Streak(first, second))

\* _process_from_active_research: the claims are refreshed and regrouped, the
\* theses selected under the risk of before and again under their own.
Reviewed(q, p, claims, before, risk) ==
  Judged(q, MoveTo(BeginCycle(p), ActiveExit(risk, claims)), claims, risk,
         Working(q.object, claims, before), Working(q.object, claims, risk))
Refreshed(q, p, claims, before) == Reviewed(q, p, claims, before, Risk(claims))
Researched(q, p, claims, before) == Refreshed(q, p, Regrouped(AdvanceAll(claims)), before)

\* _run_new_impl
Screened(q, p, claims, risk) ==
  IF p.state # "active_research" THEN Finalized(q, p, risk, claims)
  ELSE Researched(q, p, claims, risk)
Opened(q, p, claims, risk) ==
  IF p.state = "archived" THEN Finalized(q, p, risk, claims)
  ELSE Screened(q, MoveTo(BeginCycle(p), ScreenedExit(Attention(q.object, q.terms, claims, risk), risk, claims)),
                claims, risk)
Admitted(q, claims) ==
  Opened(q, MoveTo(BeginCycle(At("candidate")), CandidateExit(claims)), claims, Risk(claims))
Created(q) == Admitted(q, Regrouped(ClaimsFrom(q.signals)))

\* _continue_existing_impl
Intake(state) ==
  Require(BeginCycle(IF state = "published" THEN MoveTo(BeginCycle(At(state)), "monitoring")
                     ELSE At(state)),
          {"monitoring", "archived"})
IntakeExit(q, state, claims, new, risk) ==
  IF state = "archived"
  THEN IF CanReactivate(new) THEN "active_research" ELSE "archived"
  ELSE MonitoringExit(Attention(q.object, q.terms, claims, risk), risk, claims)

Resumed(q, p, claims, new, risk) ==
  Screened(q, MoveTo(p, IntakeExit(q, p.state, claims, new, risk)), claims, risk)

Resumable == {"monitoring", "archived", "published"}
Unresumed(s) == IF s.state = "blocked" THEN s ELSE [s EXCEPT !.state = "raised"]

Continued_BlockedResumed(q, s) ==
  IF s.state \notin Resumable \cup {"blocked"} THEN Unresumed(s)
  ELSE LET claims == Regrouped(s.claims \o ClaimsFrom(q.signals)) IN
       Resumed(q, Intake(IF s.state = "blocked" THEN "monitoring" ELSE s.state),
               claims, ClaimsFrom(q.signals), Risk(claims))

Continued(q, s) ==
  IF s.state \notin Resumable THEN Unresumed(s)
  ELSE LET claims == Regrouped(s.claims \o ClaimsFrom(q.signals)) IN
       Resumed(q, Intake(s.state), claims, ClaimsFrom(q.signals), Risk(claims))
=============================================================================
