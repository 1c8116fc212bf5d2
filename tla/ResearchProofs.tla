---------------------------- MODULE ResearchProofs ----------------------------
(* Proofs about ResearchRules and ResearchSession, for any signals, objects,  *)
(* batches and numbers of attempts and deaths.  First what one pass of the    *)
(* kernel returns, then the invariants of the file store.                     *)
EXTENDS ResearchSession, TLAPS

--------------------------------------------------------------------------------
(* Claims keep their signals, and their number. *)

\* What two sequences of claims share when only statuses differ.
SameSignals(c, d) ==
  DOMAIN c = DOMAIN d /\ \A i \in DOMAIN c : c[i].signal = d[i].signal

LEMMA Retyped ==
  ASSUME NEW c \in Claim, NEW status \in ClaimStatus
  PROVE  /\ [c EXCEPT !.status = status] \in Claim
         /\ [c EXCEPT !.status = status].signal = c.signal
         /\ [c EXCEPT !.status = status].status = status
BY DEF Claim

LEMMA AdvancedType ==
  ASSUME NEW c \in Claim
  PROVE  Advanced(c) \in Claim /\ Advanced(c).signal = c.signal
<1> DEFINE status == IF c.status = "invalidated" THEN c.status
                     ELSE IF F(c).level < 3 THEN "proposed"
                     ELSE IF ~F(c).fresh THEN "stale"
                     ELSE IF F(c).confidence >= 60 /\ c.status \in {"proposed", "grounded"}
                       THEN "supported"
                     ELSE IF F(c).confidence < 60 /\ c.status = "proposed" THEN "grounded"
                     ELSE c.status
<1>1. Advanced(c) = [c EXCEPT !.status = status]
  BY DEF Advanced
<1>2. status \in ClaimStatus
  BY DEF Claim, ClaimStatus
<1> QED BY <1>1, <1>2, Retyped

LEMMA ClaimsFromType ==
  ASSUME NEW signals \in Seq(Signal)
  PROVE  ClaimsFrom(signals) \in Seq(Claim)
<1>1. ASSUME NEW s \in Signal PROVE ClaimFrom(s) \in Claim
  <2>1. [signal |-> s, status |-> IF Facts[s].level >= 3 THEN "grounded" ELSE "proposed"] \in Claim
    BY DEF Claim, ClaimStatus
  <2> QED BY <2>1, AdvancedType DEF ClaimFrom
<1> QED BY <1>1 DEF ClaimsFrom

LEMMA AdvanceAllType ==
  ASSUME NEW claims \in Seq(Claim)
  PROVE  AdvanceAll(claims) \in Seq(Claim) /\ SameSignals(AdvanceAll(claims), claims)
BY AdvancedType DEF AdvanceAll, SameSignals

LEMMA RegroupedType ==
  ASSUME NEW claims \in Seq(Claim)
  PROVE  Regrouped(claims) \in Seq(Claim) /\ SameSignals(Regrouped(claims), claims)
<1> DEFINE beaten(i) == \E j \in Rivals(claims, i) :
                          Beats(claims[j], claims[i]) /\ ClashOf(claims, i, j) >= High
           open(i) == \E j \in Rivals(claims, i) : ~Beats(claims[i], claims[j])
           new(i) == IF claims[i].status = "invalidated" THEN claims[i]
                     ELSE IF beaten(i) THEN [claims[i] EXCEPT !.status = "invalidated"]
                     ELSE IF open(i) THEN [claims[i] EXCEPT !.status = "contested"]
                     ELSE claims[i]
<1>1. Regrouped(claims) = [i \in DOMAIN claims |-> new(i)]
  BY DEF Regrouped
<1>2. ASSUME NEW i \in DOMAIN claims PROVE new(i) \in Claim /\ new(i).signal = claims[i].signal
  <2>1. claims[i] \in Claim
    OBVIOUS
  <2> HIDE DEF beaten, open
  <2> QED BY <2>1, Retyped DEF ClaimStatus
<1> HIDE DEF new
<1> QED BY <1>1, <1>2 DEF SameSignals

LEMMA PromotedType ==
  ASSUME NEW claims \in Seq(Claim), NEW primary
  PROVE  /\ Promoted(claims, primary) \in Seq(Claim)
         /\ SameSignals(Promoted(claims, primary), claims)
         /\ \A i \in DOMAIN claims : Counts(Promoted(claims, primary)[i]) <=> Counts(claims[i])
<1> DEFINE chosen(i) == /\ primary.kind = "predictive" /\ i \in First(3, Dominant(claims), claims)
                        /\ claims[i].status = "supported"
           new(i) == IF chosen(i) THEN [claims[i] EXCEPT !.status = "promoted"] ELSE claims[i]
<1>1. Promoted(claims, primary) = [i \in DOMAIN claims |-> new(i)]
  BY DEF Promoted
<1>2. ASSUME NEW i \in DOMAIN claims
      PROVE  new(i) \in Claim /\ new(i).signal = claims[i].signal
               /\ (Counts(new(i)) <=> Counts(claims[i]))
  <2>1. claims[i] \in Claim /\ "promoted" \in ClaimStatus
    BY DEF ClaimStatus
  <2>2. CASE chosen(i)
    BY <2>1, <2>2, Retyped DEF Counts
  <2>3. CASE ~chosen(i)
    BY <2>1, <2>3
  <2> QED BY <2>2, <2>3
<1> HIDE DEF new
<1> QED BY <1>1, <1>2 DEF SameSignals

--------------------------------------------------------------------------------
(* Promotion changes neither the risk nor the attention. *)

LEMMA SameRisk ==
  ASSUME NEW c, NEW d, SameSignals(c, d), \A i \in DOMAIN c : Counts(c[i]) <=> Counts(d[i])
  PROVE  Risk(c) = Risk(d)
BY DEF Risk, SameSignals, F

LEMMA SameClash ==
  ASSUME NEW c, NEW d, SameSignals(c, d), NEW i \in DOMAIN c, NEW j \in DOMAIN c
  PROVE  ClashOf(c, i, j) = ClashOf(d, i, j)
<1>1. c[i].signal = d[i].signal /\ c[j].signal = d[j].signal
  BY DEF SameSignals
<1> QED BY <1>1 DEF ClashOf

LEMMA SameConflict ==
  ASSUME NEW c, NEW d, SameSignals(c, d)
  PROVE  /\ \A i \in DOMAIN c : ConflictOf(c, i) = ConflictOf(d, i)
         /\ MaxConflict(c) = MaxConflict(d)
<1>1. DOMAIN c = DOMAIN d
  BY DEF SameSignals
<1>2. \A i \in DOMAIN c : ConflictOf(c, i) = ConflictOf(d, i)
  <2> TAKE i \in DOMAIN c
  <2>1. {ClashOf(c, i, j) : j \in DOMAIN c} = {ClashOf(d, i, j) : j \in DOMAIN d}
    BY <1>1, SameClash
  <2> QED BY <2>1 DEF ConflictOf
<1>3. {ConflictOf(c, i) : i \in DOMAIN c} = {ConflictOf(d, i) : i \in DOMAIN d}
  BY <1>1, <1>2
<1> QED BY <1>2, <1>3 DEF MaxConflict

LEMMA SameAttention ==
  ASSUME NEW c, NEW d, SameSignals(c, d), \A i \in DOMAIN c : Counts(c[i]) <=> Counts(d[i]),
         NEW o, NEW terms, NEW risk
  PROVE  Attention(o, terms, c, risk) = Attention(o, terms, d, risk)
<1>1. \A i \in DOMAIN c : F(c[i]) = F(d[i])
  BY DEF SameSignals, F
<1>2. DOMAIN c = DOMAIN d
  BY DEF SameSignals
<1>3. Counting(c) = Counting(d)
  BY <1>2 DEF Counting
<1>4. Relevant(c) = Relevant(d) /\ Relevant(c) \subseteq DOMAIN c /\ Counting(c) \subseteq DOMAIN c
  BY <1>2, <1>3 DEF Relevant, Counting
<1>5. {i \in Counting(c) : F(c[i]).type \in MarketType} = {i \in Counting(d) : F(d[i]).type \in MarketType}
  BY <1>1, <1>3, <1>4
<1>6. {F(c[i]).type : i \in Relevant(c)} = {F(d[i]).type : i \in Relevant(d)}
  BY <1>1, <1>4
<1>7. {F(c[i]).family : i \in Relevant(c)} = {F(d[i]).family : i \in Relevant(d)}
  BY <1>1, <1>4
<1>8. MeanLevel(c, Relevant(c)) = MeanLevel(d, Relevant(d))
  <2>1. {x \in Relevant(c) \X (1..5) : F(c[x[1]]).level >= x[2]}
          = {x \in Relevant(d) \X (1..5) : F(d[x[1]]).level >= x[2]}
    BY <1>1, <1>4
  <2> QED BY <1>4, <2>1 DEF MeanLevel
<1>9. (\A i \in Relevant(c) : F(c[i]).fresh) = (\A i \in Relevant(d) : F(d[i]).fresh)
  BY <1>1, <1>4
<1>10. MaxConflict(c) = MaxConflict(d)
  BY SameConflict
<1> QED BY <1>5, <1>6, <1>7, <1>8, <1>9, <1>10 DEF Attention

--------------------------------------------------------------------------------
(* What a pass returns. *)

\* A session that a worker may save for object o.
Sound(o, s) ==
  /\ s \in Session /\ AtRest(s) /\ RiskIsOfClaims(s)
  /\ s.state = "published" => Earned(o, s)

\* A pass that has not raised, in one of the given states.
Pass == [state : ProcessingState, moved : Nat, ok : BOOLEAN]
Going(p, states) == p \in Pass /\ p.state \in states /\ p.ok

LEMMA RiskIsTyped == ASSUME NEW claims PROVE Risk(claims) \in RiskState
BY DEF Risk, RiskState

\* A rest without a publication is sound when its risk is the one of its claims.
LEMMA RestIsSound ==
  ASSUME NEW q, q.terms \in Terms, NEW claims \in Seq(Claim), NEW p,
         Going(p, {"monitoring", "archived", "blocked"})
  PROVE  Sound(q.object, Finalized(q, p, Risk(claims), claims))
<1>1. /\ Finalized(q, p, Risk(claims), claims).state = p.state
      /\ Finalized(q, p, Risk(claims), claims).risk = Risk(claims)
      /\ Finalized(q, p, Risk(claims), claims).claims = claims
  BY DEF Finalized, Going
<1>2. p.state \in {"monitoring", "archived", "blocked"}
  BY DEF Going
<1>3. Finalized(q, p, Risk(claims), claims) \in Session
  BY <1>2, RiskIsTyped DEF Finalized, Going, Pass, Session, ProcessingState
<1> QED BY <1>1, <1>2, <1>3 DEF Sound, AtRest, Resumable, RiskIsOfClaims

\* A new cycle forgets the moves of the one before.
LEMMA NewCycle ==
  ASSUME NEW p \in Pass
  PROVE  /\ BeginCycle(p) \in Pass /\ BeginCycle(p).moved = 0
         /\ BeginCycle(p).state = p.state /\ BeginCycle(p).ok = p.ok
<1>1. \A n \in Nat : [p EXCEPT !.moved = n].moved = n
  BY DEF Pass
<1>2. [p EXCEPT !.moved = 0] \in Pass
  BY DEF Pass
<1>3. [p EXCEPT !.moved = 0].state = p.state /\ [p EXCEPT !.moved = 0].ok = p.ok
  BY DEF Pass
<1> QED BY <1>1, <1>2, <1>3 DEF BeginCycle

\* The state machine takes the first move of a cycle when it is allowed.
LEMMA FirstMove ==
  ASSUME NEW p \in Pass, p.ok, p.moved = 0, NEW target \in ProcessingState,
         target = p.state \/ target = "blocked" \/ target \in Allowed[p.state]
  PROVE  Going(MoveTo(p, target), {target})
<1>1. /\ [p EXCEPT !.state = target] \in Pass
      /\ [p EXCEPT !.state = target].state = target
      /\ [p EXCEPT !.state = target].ok = p.ok
  BY DEF Pass
<1>2. /\ [p EXCEPT !.state = target, !.moved = @ + 1] \in Pass
      /\ [p EXCEPT !.state = target, !.moved = @ + 1].state = target
      /\ [p EXCEPT !.state = target, !.moved = @ + 1].ok = p.ok
  <2> DEFINE q == [p EXCEPT !.state = target]
  <2>1. \A r \in Pass, n \in Nat : [r EXCEPT !.moved = n] \in Pass
    BY DEF Pass
  <2>2. q \in Pass /\ p.moved + 1 \in Nat
    BY <1>1 DEF Pass
  <2>3. [q EXCEPT !.moved = p.moved + 1] \in Pass
    <3> HIDE DEF q
    <3> QED BY <2>1, <2>2
  <2>4. [p EXCEPT !.state = target, !.moved = @ + 1] \in Pass
    BY <2>3, Zenon
  <2>5. [p EXCEPT !.state = target, !.moved = @ + 1].state = target
    BY DEF Pass
  <2>6. [p EXCEPT !.state = target, !.moved = @ + 1].ok = p.ok
    BY DEF Pass
  <2> QED BY <2>4, <2>5, <2>6
<1>3. CASE target = p.state
  BY <1>3 DEF MoveTo, Going
<1>4. CASE target # p.state /\ (target = "blocked" \/ Order[target] < Order[p.state])
  <2>1. MoveTo(p, target) = [p EXCEPT !.state = target]
    BY <1>4 DEF MoveTo
  <2> QED BY <1>1, <2>1 DEF Going
<1>5. CASE target # p.state /\ target # "blocked" /\ ~(Order[target] < Order[p.state])
  <2>1. MoveTo(p, target) = [p EXCEPT !.state = target, !.moved = @ + 1]
    BY <1>5 DEF MoveTo
  <2> QED BY <1>2, <2>1 DEF Going
<1> QED BY <1>3, <1>4, <1>5

\* The moves that the exits ask for are allowed.
LEMMA ExitsAreAllowed ==
  /\ {"screened", "archived"} \subseteq Allowed["candidate"]
  /\ {"archived", "active_research", "monitoring"} \subseteq Allowed["screened"]
  /\ {"evidence_complete", "monitoring"} \subseteq Allowed["active_research"]
  /\ {"publish_ready", "monitoring"} \subseteq Allowed["evidence_complete"]
  /\ {"published", "monitoring"} \subseteq Allowed["publish_ready"]
  /\ "monitoring" \in Allowed["published"]
  /\ {"active_research", "archived"} \subseteq Allowed["monitoring"]
  /\ "active_research" \in Allowed["archived"]
BY DEF Allowed

\* The first move of a new cycle, from a state to one of its exits.
LEMMA MoveOn ==
  ASSUME NEW state, NEW p, Going(p, {state}), NEW target \in ProcessingState,
         target = state \/ target = "blocked" \/ target \in Allowed[state]
  PROVE  Going(MoveTo(BeginCycle(p), target), {target})
BY NewCycle, FirstMove DEF Going

--------------------------------------------------------------------------------
(* From active research to the end of a pass. *)

LEMMA GatedIsSound ==
  ASSUME NEW q, q.terms \in Terms, NEW claims \in Seq(Claim), NEW p, Going(p, {"publish_ready"}),
         NEW primary, NEW streak, NEW verdict,
         verdict = PublishGate(q, claims, Dominant(claims), primary, streak, Risk(claims),
                               Attention(q.object, q.terms, claims, Risk(claims)))
  PROVE  Sound(q.object, Gated(q, BeginCycle(p), verdict, Risk(claims), claims))
         /\ Gated(q, BeginCycle(p), verdict, Risk(claims), claims).claims = claims
<1> DEFINE r == MoveTo(BeginCycle(p), verdict)
           s == Gated(q, BeginCycle(p), verdict, Risk(claims), claims)
<1>1. verdict \in {"blocked", "published", "monitoring"} /\ (verdict = "blocked" <=> Risk(claims) = "blocked")
  BY DEF PublishGate
<1>2. Going(r, {verdict})
  BY <1>1, MoveOn, ExitsAreAllowed DEF ProcessingState
<1> HIDE DEF r
<1>3. s = Finalized(q, r, Risk(claims), claims)
  BY <1>1 DEF Gated, r
<1>4. CASE verdict # "published"
  <2>1. Going(r, {"monitoring", "archived", "blocked"})
    BY <1>1, <1>2, <1>4 DEF Going
  <2> QED BY <1>3, <2>1, RestIsSound DEF Finalized
<1>5. CASE verdict = "published"
  <2>1. s = [state |-> "published", risk |-> Risk(claims), claims |-> claims,
                terms |-> q.terms]
    BY <1>2, <1>3, <1>5 DEF Finalized, Going
  <2>2. s.state = "published" /\ s.risk = Risk(claims) /\ s.claims = claims /\ s.terms = q.terms
    BY <2>1
  <2>3. s \in Session
    BY <2>1, RiskIsTyped DEF Session, ProcessingState
  <2>4. /\ Risk(claims) \notin {"blocked", "restricted"}
        /\ Cardinality({i \in Dominant(claims) : claims[i].status = "promoted"}) >= 3
        /\ Cardinality({F(claims[i]).family : i \in Anchors(Dominant(claims), claims)}) >= 2
        /\ BestLevel(Dominant(claims), claims) >= 4
        /\ Attention(q.object, q.terms, claims, Risk(claims)) >= q.terms.threshold
    BY <1>5 DEF PublishGate
  <2>5. Risk(claims) \in {"normal", "caution"}
    BY <2>4, RiskIsTyped DEF RiskState
  <2>6. Earned(q.object, s)
    BY <2>2, <2>4, <2>5 DEF Earned
  <2> HIDE DEF s
  <2>7. Sound(q.object, s) /\ s.claims = claims
    BY <2>2, <2>3, <2>6 DEF Sound, AtRest, Resumable, RiskIsOfClaims
  <2> QED BY <2>7 DEF s
<1> QED BY <1>4, <1>5

LEMMA JudgedIsSound ==
  ASSUME NEW q, q.terms \in Terms, NEW claims \in Seq(Claim), NEW first, NEW second, NEW p,
         Going(p, {"blocked", "evidence_complete", "monitoring"})
  PROVE  /\ Sound(q.object, Judged(q, p, claims, Risk(claims), first, second))
         /\ SameSignals(Judged(q, p, claims, Risk(claims), first, second).claims, claims)
<1> DEFINE streak == Streak(first, second)
           exit == EvidenceExit(Risk(claims), second, streak)
           r == MoveTo(BeginCycle(p), exit)
           kept == Promoted(claims, second)
           s == Judged(q, p, claims, Risk(claims), first, second)
<1>1. kept \in Seq(Claim) /\ SameSignals(kept, claims)
      /\ \A i \in DOMAIN claims : Counts(kept[i]) <=> Counts(claims[i])
  BY PromotedType
<1>2. DOMAIN kept = DOMAIN claims
  BY <1>1 DEF SameSignals
<1> HIDE DEF kept
<1>3. Risk(kept) = Risk(claims)
  BY <1>1, <1>2, SameRisk
<1>4. Attention(q.object, q.terms, kept, Risk(claims)) = Attention(q.object, q.terms, claims, Risk(claims))
  BY <1>1, <1>2, SameAttention
<1>5. CASE p.state # "evidence_complete"
  <2>1. s = Finalized(q, p, Risk(claims), claims)
    BY <1>5 DEF Judged
  <2>2. Going(p, {"monitoring", "archived", "blocked"})
    BY <1>5 DEF Going
  <2>3. Finalized(q, p, Risk(claims), claims).claims = claims
    BY DEF Finalized
  <2> HIDE DEF s
  <2>4. Sound(q.object, s) /\ SameSignals(s.claims, claims)
    BY <2>1, <2>2, <2>3, RestIsSound DEF SameSignals
  <2> QED BY <2>4 DEF s
<1>6. CASE p.state = "evidence_complete"
  <2>1. exit \in {"publish_ready", "monitoring"}
    BY DEF EvidenceExit
  <2>2. Going(r, {exit})
    BY <1>6, <2>1, MoveOn, ExitsAreAllowed DEF Going, ProcessingState
  <2>3. s = Exited(q, r, kept, Risk(claims), Attention(q.object, q.terms, claims, Risk(claims)), second, streak)
    BY <1>6 DEF Judged, kept
  <2> HIDE DEF r, s, exit, streak
  <2>4. CASE exit = "monitoring"
    <3>1. s = Finalized(q, r, Risk(kept), kept)
      BY <1>3, <2>2, <2>3, <2>4 DEF Exited, Going
    <3>2. Going(r, {"monitoring", "archived", "blocked"})
      BY <2>2, <2>4 DEF Going
    <3>3. Finalized(q, r, Risk(kept), kept).claims = kept
      BY DEF Finalized
    <3>4. Sound(q.object, s) /\ SameSignals(s.claims, claims)
      BY <1>1, <3>1, <3>2, <3>3, RestIsSound
    <3> QED BY <3>4 DEF s
  <2>5. CASE exit = "publish_ready"
    <3>1. s = Gated(q, BeginCycle(r),
                    PublishGate(q, kept, Dominant(kept), second, streak, Risk(kept),
                                Attention(q.object, q.terms, kept, Risk(kept))),
                    Risk(kept), kept)
      BY <1>3, <1>4, <2>2, <2>3, <2>5 DEF Exited, Going
    <3>2. Going(r, {"publish_ready"}) /\ kept \in Seq(Claim)
      BY <1>1, <2>2, <2>5
    <3> DEFINE Passed(a, b, st) ==
                 Gated(q, BeginCycle(b),
                       PublishGate(q, a, Dominant(a), second, st, Risk(a),
                                   Attention(q.object, q.terms, a, Risk(a))),
                       Risk(a), a)
    <3>3. ASSUME NEW a \in Seq(Claim), NEW b, Going(b, {"publish_ready"}), NEW st
          PROVE  Sound(q.object, Passed(a, b, st))
      BY <3>3, GatedIsSound
    <3>4. Sound(q.object, Passed(kept, r, streak)) /\ Passed(kept, r, streak).claims = kept
      <4>1. Sound(q.object, Passed(kept, r, streak))
        BY <3>2, <3>3
      <4>2. Passed(kept, r, streak).claims = kept
        BY DEF Gated, Finalized
      <4> QED BY <4>1, <4>2
    <3>5. Sound(q.object, s) /\ SameSignals(s.claims, claims)
      BY <1>1, <3>1, <3>4
    <3> QED BY <3>5 DEF s
  <2> QED BY <2>1, <2>4, <2>5
<1> QED BY <1>5, <1>6 DEF Going

\* The research of a pass keeps the signals of its claims and ends at rest.
LEMMA ResearchedIsSound ==
  ASSUME NEW q, q.terms \in Terms, NEW claims \in Seq(Claim), NEW before, NEW p, Going(p, {"active_research"})
  PROVE  /\ Sound(q.object, Researched(q, p, claims, before))
         /\ SameSignals(Researched(q, p, claims, before).claims, claims)
<1> DEFINE refreshed == Regrouped(AdvanceAll(claims))
           risk == Risk(refreshed)
           r == MoveTo(BeginCycle(p), ActiveExit(risk, refreshed))
           s == Researched(q, p, claims, before)
<1>1. refreshed \in Seq(Claim) /\ SameSignals(refreshed, claims)
  BY AdvanceAllType, RegroupedType DEF SameSignals
<1>2. ActiveExit(risk, refreshed) \in {"blocked", "evidence_complete", "monitoring"}
  BY DEF ActiveExit
<1>3. Going(r, {ActiveExit(risk, refreshed)})
  BY <1>2, MoveOn, ExitsAreAllowed DEF ProcessingState
<1>4. s = Judged(q, r, refreshed, risk, Working(q.object, refreshed, before), Working(q.object, refreshed, risk))
  BY DEF Researched, Refreshed, Reviewed
<1> HIDE DEF r, refreshed, s
<1>5. Going(r, {"blocked", "evidence_complete", "monitoring"})
  BY <1>2, <1>3 DEF Going
<1>6. Sound(q.object, s) /\ SameSignals(s.claims, claims)
  BY <1>1, <1>4, <1>5, JudgedIsSound DEF SameSignals
<1> QED BY <1>6 DEF s

\* The exits from screening and from intake.
LEMMA ScreenedIsSound ==
  ASSUME NEW q, q.terms \in Terms, NEW claims \in Seq(Claim), NEW p,
         Going(p, {"active_research", "monitoring", "archived", "blocked"})
  PROVE  /\ Sound(q.object, Screened(q, p, claims, Risk(claims)))
         /\ SameSignals(Screened(q, p, claims, Risk(claims)).claims, claims)
<1>1. CASE p.state = "active_research"
  <2>1. Going(p, {"active_research"})
    BY <1>1 DEF Going
  <2>2. Screened(q, p, claims, Risk(claims)) = Researched(q, p, claims, Risk(claims))
    BY <1>1 DEF Screened
  <2> QED BY <2>1, <2>2, ResearchedIsSound
<1>2. CASE p.state # "active_research"
  <2>1. Going(p, {"monitoring", "archived", "blocked"})
    BY <1>2 DEF Going
  <2>2. Screened(q, p, claims, Risk(claims)) = Finalized(q, p, Risk(claims), claims)
    BY <1>2 DEF Screened
  <2>3. Finalized(q, p, Risk(claims), claims).claims = claims
    BY DEF Finalized
  <2> QED BY <2>1, <2>2, <2>3, RestIsSound DEF SameSignals
<1> QED BY <1>1, <1>2

LEMMA CreatedIsSound ==
  ASSUME NEW q, q.terms \in Terms, q.signals \in Seq(Signal)
  PROVE  Sound(q.object, Created(q))
<1> DEFINE claims == Regrouped(ClaimsFrom(q.signals))
           admission == CandidateExit(claims)
           p == MoveTo(BeginCycle(At("candidate")), admission)
           exit == ScreenedExit(Attention(q.object, q.terms, claims, Risk(claims)), Risk(claims), claims)
           r == MoveTo(BeginCycle(p), exit)
<1>1. claims \in Seq(Claim)
  BY ClaimsFromType, RegroupedType
<1>2. admission \in {"screened", "archived"}
  BY DEF CandidateExit
<1>3. Going(At("candidate"), {"candidate"})
  BY DEF Going, Pass, At, ProcessingState
<1>4. Going(p, {admission})
  BY <1>2, <1>3, MoveOn, ExitsAreAllowed DEF ProcessingState
<1>5. exit \in {"archived", "active_research", "monitoring"}
  BY DEF ScreenedExit
<1>6. Created(q) = Opened(q, p, claims, Risk(claims))
  BY DEF Created, Admitted
<1>7. Opened(q, p, claims, Risk(claims)) =
        IF p.state = "archived" THEN Finalized(q, p, Risk(claims), claims)
        ELSE Screened(q, r, claims, Risk(claims))
  BY DEF Opened
<1> HIDE DEF claims, admission, p, exit
<1>8. CASE admission = "archived"
  <2>1. Going(p, {"monitoring", "archived", "blocked"}) /\ p.state = "archived"
    BY <1>4, <1>8 DEF Going
  <2> QED BY <1>1, <1>6, <1>7, <2>1, RestIsSound
<1>9. CASE admission = "screened"
  <2>1. p.state = "screened" /\ Going(p, {"screened"})
    BY <1>4, <1>9 DEF Going
  <2>2. Going(r, {exit})
    BY <1>5, <2>1, MoveOn, ExitsAreAllowed DEF ProcessingState
  <2> HIDE DEF r
  <2>3. Going(r, {"active_research", "monitoring", "archived", "blocked"})
    BY <1>5, <2>2 DEF Going
  <2> QED BY <1>1, <1>6, <1>7, <2>1, <2>3, ScreenedIsSound
<1> QED BY <1>2, <1>8, <1>9

--------------------------------------------------------------------------------
(* Continuing an object. *)

\* What a pass must keep of the session it was given.
Kept(old, new) ==
  /\ SignalsOf(old.claims) \subseteq SignalsOf(new.claims)
  /\ old.state = "blocked" => new = old

LEMMA KeptSignals ==
  ASSUME NEW c, NEW d, SameSignals(c, d)
  PROVE  SignalsOf(c) = SignalsOf(d)
BY DEF SameSignals, SignalsOf

LEMMA MoreSignals ==
  ASSUME NEW c \in Seq(Claim), NEW d \in Seq(Claim)
  PROVE  SignalsOf(c) \subseteq SignalsOf(c \o d)
BY DEF SignalsOf

LEMMA IntakeIsReady ==
  ASSUME NEW state \in Resumable
  PROVE  /\ Going(Intake(state), {"monitoring", "archived"}) /\ Intake(state).moved = 0
<1> DEFINE p == IF state = "published" THEN MoveTo(BeginCycle(At(state)), "monitoring") ELSE At(state)
           r == BeginCycle(p)
<1>1. Going(At(state), {state})
  BY DEF Going, Pass, At, ProcessingState, Resumable
<1>2. Going(p, {"monitoring", "archived"})
  <2>1. CASE state = "published"
    <3>1. Going(MoveTo(BeginCycle(At(state)), "monitoring"), {"monitoring"})
      BY <1>1, <2>1, MoveOn, ExitsAreAllowed DEF ProcessingState
    <3> QED BY <2>1, <3>1 DEF Going
  <2>2. CASE state # "published"
    BY <1>1, <2>2 DEF Going, Resumable
  <2> QED BY <2>1, <2>2
<1> HIDE DEF p
<1>3. Going(r, {"monitoring", "archived"}) /\ r.moved = 0
  BY <1>2, NewCycle DEF Going
<1>4. Intake(state) = Require(r, {"monitoring", "archived"})
  BY DEF Intake, p
<1> HIDE DEF r
<1>5. /\ [r EXCEPT !.ok = r.ok /\ r.state \in {"monitoring", "archived"}] \in Pass
      /\ [r EXCEPT !.ok = r.ok /\ r.state \in {"monitoring", "archived"}].ok
      /\ [r EXCEPT !.ok = r.ok /\ r.state \in {"monitoring", "archived"}].state = r.state
      /\ [r EXCEPT !.ok = r.ok /\ r.state \in {"monitoring", "archived"}].moved = r.moved
  BY <1>3 DEF Going, Pass
<1> QED BY <1>3, <1>4, <1>5 DEF Require, Going

LEMMA ContinuedIsSound ==
  ASSUME NEW q, q.terms \in Terms, NEW s, Sound(q.object, s), q.signals \in Seq(Signal)
  PROVE  Sound(q.object, Continued(q, s)) /\ Kept(s, Continued(q, s))
<1> DEFINE new == ClaimsFrom(q.signals)
           claims == Regrouped(s.claims \o new)
           p == Intake(s.state)
           exit == IntakeExit(q, p.state, claims, new, Risk(claims))
           r == MoveTo(p, exit)
<1>0. s.claims \in Seq(Claim) /\ s.state \in Resumable \cup {"blocked"}
  BY DEF Sound, Session, AtRest
<1>1. CASE s.state = "blocked"
  <2>1. Continued(q, s) = s
    BY <1>1 DEF Continued, Unresumed, Resumable
  <2> QED BY <2>1 DEF Kept
<1>2. CASE s.state \in Resumable
  <2>1. new \in Seq(Claim)
    BY ClaimsFromType
  <2>2. s.claims \o new \in Seq(Claim)
    BY <1>0, <2>1
  <2>3. claims \in Seq(Claim) /\ SameSignals(claims, s.claims \o new)
    BY <2>2, RegroupedType
  <2>4. SignalsOf(s.claims) \subseteq SignalsOf(s.claims \o new)
    BY <1>0, <2>1, MoreSignals
  <2>5. Going(p, {"monitoring", "archived"}) /\ p.moved = 0
    BY <1>2, IntakeIsReady
  <2>6. /\ exit \in {"blocked", "archived", "active_research", "monitoring"}
        /\ p.state = "archived" => exit \in {"active_research", "archived"}
    BY DEF IntakeExit, MonitoringExit
  <2>7. Continued(q, s) = Screened(q, r, claims, Risk(claims))
    BY <1>2 DEF Continued, Resumed
  <2> HIDE DEF claims, new, p, exit
  <2>8. Going(r, {exit})
    BY <2>5, <2>6, FirstMove, ExitsAreAllowed DEF Going, ProcessingState
  <2> HIDE DEF r
  <2>9. Going(r, {"active_research", "monitoring", "archived", "blocked"})
    BY <2>6, <2>8 DEF Going
  <2>10. /\ Sound(q.object, Continued(q, s))
         /\ SameSignals(Continued(q, s).claims, claims)
    BY <2>3, <2>7, <2>9, ScreenedIsSound
  <2>11. SignalsOf(Continued(q, s).claims) = SignalsOf(s.claims \o new)
    BY <2>3, <2>10, KeptSignals
  <2> QED BY <1>2, <2>4, <2>10, <2>11 DEF Kept, Resumable
<1> QED BY <1>0, <1>1, <1>2

--------------------------------------------------------------------------------
(* The files and the workers. *)

\* What a worker holds is sound, so what it writes is.
HoldsSound(b) ==
  /\ worker[b].pc \in {"loaded", "writing"} =>
       /\ worker[b].next \in DOMAIN plan[b]
       /\ Sound(Current(b).object, worker[b].memory)
  /\ worker[b].pc = "listing" =>
       \A o \in worker[b].files \ worker[b].todo : Sound(o, worker[b].read[o])
  /\ worker[b].pc \in {"rewrite", "rewriting"} =>
       worker[b].todo \subseteq worker[b].files /\ \A o \in worker[b].files : Sound(o, worker[b].read[o])

FilesAreSound == \A o \in Object : Readable(o) => Sound(o, store[o].session)

Inv == TypeOK /\ FilesAreSound /\ \A b \in Batch : HoldsSound(b)

LEMMA InvGivesSaved == Inv => SavedIsSound
BY DEF Inv, FilesAreSound, SavedIsSound, Sound

LEMMA CurrentType ==
  ASSUME TypeOK, NEW b \in Batch, worker[b].next \in DOMAIN plan[b]
  PROVE  Current(b) \in Request
BY SessionAssumption DEF TypeOK, Current

\* A request that is taken up is one of the plan.
LEMMA RequestingNext ==
  ASSUME TypeOK, NEW b \in Batch, NEW mode, Requesting(b, mode)
  PROVE  worker[b].next \in DOMAIN plan[b]
<1>1. worker[b].next \in Nat \ {0}
  BY DEF TypeOK, Worker
<1>2. plan[b] \in Seq(Request)
  BY SessionAssumption DEF TypeOK
<1> QED BY <1>1, <1>2 DEF Requesting


--------------------------------------------------------------------------------
(* How each action changes the worker that takes it. *)

\* Worker b goes to place pc; the other workers stay as they are.
Moves(b, pc) ==
  /\ worker' \in [Batch -> Worker]
  /\ worker'[b].pc = pc
  /\ \A c \in Batch \ {b} : worker'[c] = worker[c]

LEMMA EmptyType ==
  ASSUME NEW pc \in Place, NEW attempts \in 0..MaxAttempts
  PROVE  Empty(pc, attempts) \in Worker /\ Empty(pc, attempts).pc = pc
<1>1. NoSession \in Session
  BY DEF NoSession, Session, RiskState, ProcessingState, DefaultTerms, Terms
<1> QED BY <1>1 DEF Empty, Worker

LEMMA FailedMoves ==
  ASSUME TypeOK, NEW b \in Batch, Failed(b)
  PROVE  Moves(b, "failed")
<1>1. "failed" \in Place /\ worker[b].attempts \in 0..MaxAttempts
  BY DEF TypeOK, Worker, Place
<1>2. Empty("failed", worker[b].attempts) \in Worker
      /\ Empty("failed", worker[b].attempts).pc = "failed"
  BY <1>1, EmptyType
<1> QED BY <1>2 DEF TypeOK, Failed, Moves

LEMMA BeginMoves ==
  ASSUME TypeOK, NEW b \in Batch, Begin(b)
  PROVE  Moves(b, "request")
<1>1. "request" \in Place /\ worker[b].attempts + 1 \in 0..MaxAttempts
  BY SessionAssumption DEF TypeOK, Worker, Place, Begin
<1>2. Empty("request", worker[b].attempts + 1) \in Worker
      /\ Empty("request", worker[b].attempts + 1).pc = "request"
  BY <1>1, EmptyType
<1> QED BY <1>2 DEF TypeOK, Begin, Moves

LEMMA CompleteMoves ==
  ASSUME TypeOK, NEW b \in Batch, Complete(b)
  PROVE  Moves(b, "completed")
<1>1. "completed" \in Place /\ worker[b].attempts \in 0..MaxAttempts
  BY DEF TypeOK, Worker, Place
<1>2. Empty("completed", worker[b].attempts) \in Worker
      /\ Empty("completed", worker[b].attempts).pc = "completed"
  BY <1>1, EmptyType
<1> QED BY <1>2 DEF TypeOK, Complete, Moves

LEMMA TakesMemory ==
  ASSUME TypeOK, NEW b \in Batch, NEW pc \in Place, NEW session \in Session,
         worker' = [worker EXCEPT ![b].pc = pc, ![b].memory = session]
  PROVE  /\ Moves(b, pc) /\ worker'[b].memory = session
         /\ worker'[b].next = worker[b].next
<1>1. worker' \in [Batch -> Worker]
  BY DEF TypeOK, Worker
<1>2. worker'[b].pc = pc /\ worker'[b].memory = session /\ worker'[b].next = worker[b].next
  BY DEF TypeOK, Worker
<1>3. \A c \in Batch \ {b} : worker'[c] = worker[c]
  BY DEF TypeOK
<1> QED BY <1>1, <1>2, <1>3 DEF Moves

LEMMA FinishSaveMoves ==
  ASSUME TypeOK, NEW b \in Batch, FinishSave(b)
  PROVE  Moves(b, "request")
BY DEF TypeOK, FinishSave, Moves, Worker, Place

LEMMA TakesNames ==
  ASSUME TypeOK, NEW b \in Batch, NEW pc \in Place, NEW names \in SUBSET Object,
         worker' = [worker EXCEPT ![b].pc = pc, ![b].files = names, ![b].todo = names]
  PROVE  /\ Moves(b, pc) /\ worker'[b].files = names /\ worker'[b].todo = names
<1> DEFINE w == [worker EXCEPT ![b].pc = pc, ![b].files = names]
<1>1. w \in [Batch -> Worker]
  BY DEF TypeOK, Worker
<1>2. worker' = [w EXCEPT ![b].todo = names]
  BY Zenon
<1>3. w[b].pc = pc /\ w[b].files = names /\ \A c \in Batch \ {b} : w[c] = worker[c]
  BY DEF TypeOK, Worker
<1> HIDE DEF w
<1>4. worker' \in [Batch -> Worker]
  <2>1. [w[b] EXCEPT !.todo = names] \in Worker
    BY <1>1 DEF Worker
  <2>2. worker' = [w EXCEPT ![b] = [w[b] EXCEPT !.todo = names]]
    BY <1>2, Zenon
  <2> QED BY <1>1, <2>1, <2>2
<1>5. worker'[b].pc = pc /\ worker'[b].files = names /\ worker'[b].todo = names
  BY <1>1, <1>2, <1>3 DEF Worker
<1>6. \A c \in Batch \ {b} : worker'[c] = worker[c]
  BY <1>1, <1>2, <1>3
<1> QED BY <1>4, <1>5, <1>6 DEF Moves

LEMMA ListSessionsMoves ==
  ASSUME TypeOK, NEW b \in Batch, ListSessions(b)
  PROVE  Moves(b, "listing") /\ worker'[b].files = worker'[b].todo
<1>1. {o \in Object : store[o].exists} \in SUBSET Object /\ "listing" \in Place
  BY DEF Place
<1> QED BY <1>1, TakesNames DEF ListSessions

LEMMA ReadMoves ==
  ASSUME TypeOK, NEW b \in Batch, worker[b].pc = "listing", NEW o \in Object,
         store[o].session \in Session,
         worker' = [worker EXCEPT ![b].read[o] = store[o].session, ![b].todo = @ \ {o}]
  PROVE  /\ Moves(b, "listing") /\ worker'[b].files = worker[b].files
         /\ worker'[b].todo = worker[b].todo \ {o}
         /\ worker'[b].read = [worker[b].read EXCEPT ![o] = store[o].session]
<1>1. worker' \in [Batch -> Worker]
  BY DEF TypeOK, Worker
<1>2. /\ worker'[b].pc = "listing" /\ worker'[b].files = worker[b].files
      /\ worker'[b].todo = worker[b].todo \ {o}
      /\ worker'[b].read = [worker[b].read EXCEPT ![o] = store[o].session]
  BY DEF TypeOK, Worker
<1> QED BY <1>1, <1>2 DEF TypeOK, Moves

LEMMA AllReadMoves ==
  ASSUME TypeOK, NEW b \in Batch, AllRead(b)
  PROVE  /\ Moves(b, "rewrite") /\ worker'[b].files = worker[b].files
         /\ worker'[b].todo = worker[b].files /\ worker'[b].read = worker[b].read
<1>1. worker' \in [Batch -> Worker]
  <2>1. "rewrite" \in Place /\ worker[b].files \in SUBSET Object
    BY DEF Place, TypeOK, Worker
  <2> QED BY <2>1 DEF AllRead, TypeOK, Worker
<1>2. /\ worker'[b].pc = "rewrite" /\ worker'[b].files = worker[b].files
      /\ worker'[b].todo = worker[b].files /\ worker'[b].read = worker[b].read
  BY DEF AllRead, TypeOK, Worker
<1> QED BY <1>1, <1>2 DEF AllRead, TypeOK, Moves

LEMMA RewriteMoves ==
  ASSUME TypeOK, NEW b \in Batch, worker' = [worker EXCEPT ![b].pc = "rewriting"]
  PROVE  /\ Moves(b, "rewriting") /\ worker'[b].files = worker[b].files
         /\ worker'[b].todo = worker[b].todo /\ worker'[b].read = worker[b].read
BY DEF TypeOK, Moves, Worker, Place

LEMMA FinishRewriteMoves ==
  ASSUME TypeOK, NEW b \in Batch, NEW o,
         worker' = [worker EXCEPT ![b].pc = "rewrite", ![b].todo = @ \ {o}]
  PROVE  /\ Moves(b, "rewrite") /\ worker'[b].files = worker[b].files
         /\ worker'[b].todo = worker[b].todo \ {o} /\ worker'[b].read = worker[b].read
<1>1. worker' \in [Batch -> Worker]
  <2>1. "rewrite" \in Place /\ worker[b].todo \ {o} \in SUBSET Object
    BY DEF Place, TypeOK, Worker
  <2> QED BY <2>1 DEF TypeOK, Worker
<1>2. /\ worker'[b].pc = "rewrite" /\ worker'[b].files = worker[b].files
      /\ worker'[b].todo = worker[b].todo \ {o} /\ worker'[b].read = worker[b].read
  BY DEF TypeOK, Worker
<1> QED BY <1>1, <1>2 DEF TypeOK, Moves

--------------------------------------------------------------------------------
(* How the files change. *)

LEMMA TruncateMoves ==
  ASSUME TypeOK, NEW o \in Object, Truncate(o)
  PROVE  /\ store' \in [Object -> File] /\ ~Readable(o)'
         /\ \A p \in Object : store'[p].session = store[p].session
         /\ \A p \in Object \ {o} : store'[p] = store[p]
<1> DEFINE mixed == Writers(o) # {}
           file == [exists |-> TRUE, torn |-> TRUE, mixed |-> mixed, session |-> store[o].session]
<1>1. store[o] \in File /\ file \in File
  BY DEF TypeOK, File
<1>2. store' = [store EXCEPT ![o].exists = TRUE, ![o].torn = TRUE, ![o].mixed = mixed]
  BY DEF Truncate
<1>3. store'[o] = [store[o] EXCEPT !.exists = TRUE, !.torn = TRUE, !.mixed = mixed]
  BY <1>2 DEF TypeOK
<1> QED BY <1>1, <1>2, <1>3 DEF TypeOK, File, Readable

LEMMA WriteMoves ==
  ASSUME TypeOK, NEW b, NEW o \in Object, NEW session \in Session, Write(b, o, session)
  PROVE  /\ store' \in [Object -> File] /\ store'[o].session = session
         /\ \A p \in Object \ {o} : store'[p] = store[p]
<1>1. PICK torn \in BOOLEAN :
        store' = [store EXCEPT ![o] = [exists |-> TRUE, torn |-> torn, session |-> session,
                                       mixed |-> store[o].mixed /\ Writers(o) # {b}]]
  BY DEF Write
<1> DEFINE mixed == store[o].mixed /\ Writers(o) # {b}
           file == [exists |-> TRUE, torn |-> torn, session |-> session, mixed |-> mixed]
<1>2. file \in File /\ file.session = session
  BY DEF File
<1>3. store' = [store EXCEPT ![o] = file]
  BY <1>1
<1> HIDE DEF file
<1> QED BY <1>2, <1>3 DEF TypeOK

--------------------------------------------------------------------------------
(* The invariant. *)

LEMMA OtherHolds ==
  ASSUME NEW c, HoldsSound(c), worker'[c] = worker[c], plan' = plan
  PROVE  HoldsSound(c)'
BY DEF HoldsSound, Current

LEMMA InvFrom ==
  ASSUME Inv, NEW b \in Batch, NEW pc, Moves(b, pc), plan' = plan, store' \in [Object -> File],
         deaths' \in 0..MaxDeaths, overlapped' \in BOOLEAN, FilesAreSound', HoldsSound(b)'
  PROVE  Inv'
<1>1. \A c \in Batch \ {b} : HoldsSound(c)'
  BY OtherHolds DEF Inv, Moves
<1>2. TypeOK'
  BY DEF Inv, TypeOK, Moves
<1> QED BY <1>1, <1>2 DEF Inv

\* A worker in any other place holds nothing.
LEMMA HoldsNothing ==
  ASSUME NEW b, worker[b].pc \in {"idle", "request", "completed", "failed"}
  PROVE  HoldsSound(b)
BY DEF HoldsSound

LEMMA FailedKeeps ==
  ASSUME Inv, NEW b \in Batch, Failed(b), UNCHANGED <<plan, store>>,
         deaths' \in 0..MaxDeaths, overlapped' \in BOOLEAN
  PROVE  Inv'
<1>1. Moves(b, "failed")
  BY FailedMoves DEF Inv
<1>2. HoldsSound(b)'
  BY <1>1 DEF Moves, HoldsSound
<1>3. FilesAreSound' /\ store' \in [Object -> File]
  BY DEF Inv, TypeOK, FilesAreSound, Readable
<1> QED BY <1>1, <1>2, <1>3, InvFrom

LEMMA SaveKeeps ==
  ASSUME Inv, NEW b \in Batch, worker[b].next \in DOMAIN plan[b], NEW session,
         Sound(Current(b).object, session), Save(b, session),
         UNCHANGED <<plan, deaths, overlapped>>
  PROVE  Inv'
<1>1. session \in Session /\ session.state # "raised"
  BY DEF Sound, AtRest, Resumable
<1>2. CASE Current(b).signals = <<>>
  BY <1>2, FailedKeeps DEF Save, Inv, TypeOK
<1>3. CASE Current(b).signals # <<>>
  <2>1. /\ Truncate(Current(b).object)
        /\ worker' = [worker EXCEPT ![b].pc = "writing", ![b].memory = session]
    BY <1>1, <1>3 DEF Save
  <2>2. Current(b).object \in Object
    BY CurrentType DEF Inv, Request
  <2>3. "writing" \in Place
    BY DEF Place
  <2>4. Moves(b, "writing") /\ worker'[b].memory = session /\ worker'[b].next = worker[b].next
    BY <1>1, <2>1, <2>3, TakesMemory DEF Inv
  <2>5. HoldsSound(b)'
    BY <2>4 DEF Moves, HoldsSound, Current
  <2>6. store' \in [Object -> File] /\ FilesAreSound'
    BY <2>1, <2>2, TruncateMoves DEF Inv, FilesAreSound, Readable
  <2> QED BY <2>4, <2>5, <2>6, InvFrom DEF Inv, TypeOK
<1> QED BY <1>2, <1>3

LEMMA InvInit == Init => Inv
<1> SUFFICES ASSUME Init PROVE Inv
  OBVIOUS
<1>1. NoSession \in Session
  BY DEF NoSession, Session, RiskState, ProcessingState, DefaultTerms, Terms
<1>2. store \in [Object -> File] /\ \A o \in Object : ~Readable(o)
  BY <1>1 DEF Init, File, Readable
<1>3. worker \in [Batch -> Worker] /\ \A b \in Batch : worker[b].pc = "idle"
  BY EmptyType, SessionAssumption DEF Init, Place
<1>4. plan \in Plans /\ deaths \in 0..MaxDeaths /\ overlapped \in BOOLEAN
  <2>1. MaxDeaths \in Nat
    BY SessionAssumption
  <2>2. 0 \in 0..MaxDeaths
    BY <2>1
  <2> QED BY <2>2 DEF Init
<1>5. TypeOK
  BY <1>2, <1>3, <1>4 DEF TypeOK
<1> QED BY <1>2, <1>3, <1>5, HoldsNothing DEF Inv, FilesAreSound

\* What a worker writes of the files it listed is what it read.
LEMMA NextIsListed ==
  ASSUME Inv, NEW b \in Batch, worker[b].pc \in {"rewrite", "rewriting"}, NEW o, NextFile(b, o)
  PROVE  o \in worker[b].files /\ o \in Object /\ Sound(o, worker[b].read[o])
BY DEF Inv, HoldsSound, NextFile, TypeOK, Worker

LEMMA InvNext == Inv /\ [Next]_vars => Inv'
<1> SUFFICES ASSUME Inv, [Next]_vars PROVE Inv'
  OBVIOUS
<1> USE DEF Inv
<1>1. CASE UNCHANGED vars
  BY <1>1 DEF vars, TypeOK, FilesAreSound, HoldsSound, Readable, Current
<1>2. CASE Terminated
  BY <1>2 DEF Terminated, vars, TypeOK, FilesAreSound, HoldsSound, Readable, Current
<1>3. ASSUME NEW b \in Batch, Begin(b) PROVE Inv'
  <2>1. Moves(b, "request")
    BY <1>3, BeginMoves
  <2>2. HoldsSound(b)'
    BY <2>1 DEF Moves, HoldsSound
  <2> QED BY <1>3, <2>1, <2>2, InvFrom DEF Begin, FilesAreSound, Readable, TypeOK
<1>4. ASSUME NEW b \in Batch, RunNew(b) PROVE Inv'
  <2>1. worker[b].next \in DOMAIN plan[b]
    BY <1>4, RequestingNext DEF RunNew
  <2>2. Current(b).signals \in Seq(Signal) /\ Current(b).terms \in Terms
    BY <2>1, CurrentType DEF Request
  <2> QED BY <1>4, <2>1, <2>2, CreatedIsSound, SaveKeeps DEF RunNew
<1>5. ASSUME NEW b \in Batch, Load(b) PROVE Inv'
  <2> DEFINE session == store[Current(b).object].session
  <2>1. worker[b].next \in DOMAIN plan[b] /\ Current(b).object \in Object
    BY <1>5, RequestingNext, CurrentType DEF Load, Request
  <2>2. CASE Readable(Current(b).object)
    <3>1. worker' = [worker EXCEPT ![b].pc = "loaded", ![b].memory = session]
      BY <1>5, <2>2 DEF Load
    <3>2. Sound(Current(b).object, session) /\ session \in Session /\ "loaded" \in Place
      BY <2>1, <2>2 DEF FilesAreSound, Sound, Place
    <3> HIDE DEF session
    <3>3. Moves(b, "loaded") /\ worker'[b].memory = session /\ worker'[b].next = worker[b].next
      BY <3>1, <3>2, TakesMemory
    <3>4. plan' = plan
      BY <1>5 DEF Load
    <3>5. HoldsSound(b)'
      BY <2>1, <3>2, <3>3, <3>4 DEF Moves, HoldsSound, Current
    <3> QED BY <1>5, <3>3, <3>5, InvFrom DEF Load, FilesAreSound, Readable, TypeOK
  <2>3. CASE ~Readable(Current(b).object)
    BY <1>5, <2>3, FailedKeeps DEF Load, TypeOK
  <2> QED BY <2>2, <2>3
<1>6. ASSUME NEW b \in Batch, ContinueExisting(b) PROVE Inv'
  <2>1. worker[b].next \in DOMAIN plan[b] /\ Sound(Current(b).object, worker[b].memory)
    BY <1>6 DEF ContinueExisting, HoldsSound
  <2>2. Current(b).signals \in Seq(Signal) /\ Current(b).terms \in Terms
    BY <2>1, CurrentType DEF Request
  <2> QED BY <1>6, <2>1, <2>2, ContinuedIsSound, SaveKeeps DEF ContinueExisting
<1>7. ASSUME NEW b \in Batch, FinishSave(b) PROVE Inv'
  <2>1. Moves(b, "request")
    BY <1>7, FinishSaveMoves
  <2>2. HoldsSound(b)'
    BY <2>1 DEF Moves, HoldsSound
  <2>3. worker[b].next \in DOMAIN plan[b] /\ Sound(Current(b).object, worker[b].memory)
    BY <1>7 DEF FinishSave, HoldsSound
  <2>4. Current(b).object \in Object /\ worker[b].memory \in Session
    BY <2>3, CurrentType DEF Request, Sound
  <2>5. store' \in [Object -> File] /\ FilesAreSound'
    BY <1>7, <2>3, <2>4, WriteMoves DEF FinishSave, FilesAreSound, Readable
  <2> QED BY <1>7, <2>1, <2>2, <2>5, InvFrom DEF FinishSave, TypeOK
<1>8. ASSUME NEW b \in Batch, ListSessions(b) PROVE Inv'
  <2>1. Moves(b, "listing") /\ worker'[b].files = worker'[b].todo
    BY <1>8, ListSessionsMoves
  <2>2. HoldsSound(b)'
    BY <2>1 DEF Moves, HoldsSound
  <2> QED BY <1>8, <2>1, <2>2, InvFrom DEF ListSessions, FilesAreSound, Readable, TypeOK
<1>9. ASSUME NEW b \in Batch, ReadListed(b) PROVE Inv'
  <2>1. PICK o \in Object :
          /\ NextFile(b, o)
          /\ IF Readable(o)
             THEN worker' = [worker EXCEPT ![b].read[o] = store[o].session, ![b].todo = @ \ {o}]
             ELSE Failed(b)
    BY <1>9 DEF ReadListed
  <2>2. CASE Readable(o)
    <3>1. Sound(o, store[o].session) /\ store[o].session \in Session
      BY <2>2 DEF FilesAreSound, Sound
    <3>2. /\ Moves(b, "listing") /\ worker'[b].files = worker[b].files
          /\ worker'[b].todo = worker[b].todo \ {o}
          /\ worker'[b].read = [worker[b].read EXCEPT ![o] = store[o].session]
      <4>1. worker[b].pc = "listing"
        BY <1>9 DEF ReadListed
      <4>2. worker' = [worker EXCEPT ![b].read[o] = store[o].session, ![b].todo = @ \ {o}]
        BY <2>1, <2>2
      <4> QED BY <3>1, <4>1, <4>2, ReadMoves
    <3>3. worker[b].read \in [Object -> Session] /\ worker[b].files \subseteq Object
      BY DEF TypeOK, Worker
    <3>4. HoldsSound(b)'
      BY <1>9, <3>1, <3>2, <3>3 DEF Moves, HoldsSound, ReadListed
    <3> QED BY <1>9, <3>2, <3>4, InvFrom DEF ReadListed, FilesAreSound, Readable, TypeOK
  <2>3. CASE ~Readable(o)
    BY <1>9, <2>1, <2>3, FailedKeeps DEF ReadListed, TypeOK
  <2> QED BY <2>2, <2>3
<1>10. ASSUME NEW b \in Batch, AllRead(b) PROVE Inv'
  <2>1. /\ Moves(b, "rewrite") /\ worker'[b].files = worker[b].files
        /\ worker'[b].todo = worker[b].files /\ worker'[b].read = worker[b].read
    BY <1>10, AllReadMoves
  <2>2. HoldsSound(b)'
    BY <1>10, <2>1 DEF Moves, HoldsSound, AllRead
  <2> QED BY <1>10, <2>1, <2>2, InvFrom DEF AllRead, FilesAreSound, Readable, TypeOK
<1>11. ASSUME NEW b \in Batch, Rewrite(b) PROVE Inv'
  <2>1. PICK o \in Object : Truncate(o)
    BY <1>11 DEF Rewrite
  <2>2. store' \in [Object -> File] /\ FilesAreSound'
    BY <2>1, TruncateMoves DEF FilesAreSound, Readable
  <2>3. /\ Moves(b, "rewriting") /\ worker'[b].files = worker[b].files
        /\ worker'[b].todo = worker[b].todo /\ worker'[b].read = worker[b].read
    BY <1>11, RewriteMoves DEF Rewrite
  <2>4. HoldsSound(b)'
    BY <1>11, <2>3 DEF Moves, HoldsSound, Rewrite
  <2> QED BY <1>11, <2>2, <2>3, <2>4, InvFrom DEF Rewrite, TypeOK
<1>12. ASSUME NEW b \in Batch, FinishRewrite(b) PROVE Inv'
  <2>1. PICK o \in Object :
          /\ NextFile(b, o) /\ Write(b, o, worker[b].read[o])
          /\ worker' = [worker EXCEPT ![b].pc = "rewrite", ![b].todo = @ \ {o}]
    BY <1>12 DEF FinishRewrite
  <2>2. Sound(o, worker[b].read[o]) /\ worker[b].read[o] \in Session
    BY <1>12, <2>1, NextIsListed DEF FinishRewrite, Sound
  <2>3. store' \in [Object -> File] /\ FilesAreSound'
    <3>1. /\ store' \in [Object -> File] /\ store'[o].session = worker[b].read[o]
          /\ \A p \in Object \ {o} : store'[p] = store[p]
      BY <2>1, <2>2, WriteMoves
    <3> QED BY <2>2, <3>1 DEF FilesAreSound, Readable
  <2>4. /\ Moves(b, "rewrite") /\ worker'[b].files = worker[b].files
        /\ worker'[b].todo = worker[b].todo \ {o} /\ worker'[b].read = worker[b].read
    BY <2>1, FinishRewriteMoves
  <2>5. HoldsSound(b)'
    BY <1>12, <2>4 DEF Moves, HoldsSound, FinishRewrite
  <2> QED BY <1>12, <2>3, <2>4, <2>5, InvFrom DEF FinishRewrite, TypeOK
<1>13. ASSUME NEW b \in Batch, Complete(b) PROVE Inv'
  <2>1. Moves(b, "completed")
    BY <1>13, CompleteMoves
  <2>2. HoldsSound(b)'
    BY <2>1 DEF Moves, HoldsSound
  <2> QED BY <1>13, <2>1, <2>2, InvFrom DEF Complete, FilesAreSound, Readable, TypeOK
<1>14. ASSUME NEW b \in Batch, Die(b) PROVE Inv'
  <2>1. deaths' \in 0..MaxDeaths
    BY <1>14, SessionAssumption DEF Die, TypeOK
  <2> QED BY <1>14, <2>1, FailedKeeps DEF Die, TypeOK
<1> QED
  BY <1>1, <1>2, <1>3, <1>4, <1>5, <1>6, <1>7, <1>8, <1>9, <1>10, <1>11, <1>12, <1>13, <1>14 DEF Next

--------------------------------------------------------------------------------
\* Every file, worker and counter keeps its type, and a pass returns a session of
\* claims, whatever signals it is given.
THEOREM TypeCorrect == Spec => []TypeOK
<1>1. Inv => TypeOK
  BY DEF Inv
<1> QED BY <1>1, InvInit, InvNext, PTL DEF Spec

\* What can be read of an object can be resumed or is blocked, has the risk of its
\* claims, and earns its publication again, for any batches, deaths and overlaps.
THEOREM SavedStaysSound == Spec => []SavedIsSound
BY InvInit, InvNext, InvGivesSaved, PTL DEF Spec

--------------------------------------------------------------------------------
(* Why workers fail. *)

\* The batches that a step leads to failure.
Fails(b) == b \in Running /\ worker'[b].pc = "failed"
FailureIsOfStore(b) ==
  \/ worker[b].pc = "request" /\ ~Readable(Current(b).object)
  \/ worker[b].pc \in {"request", "loaded"} /\ Current(b).signals = <<>>
  \/ worker[b].pc = "listing" /\ \E o \in Object : NextFile(b, o) /\ ~Readable(o)

\* Only the worker that moves can fail.
LEMMA OnlyMoverFails ==
  ASSUME NEW b \in Batch, NEW pc, Moves(b, pc), NEW c \in Batch, Fails(c)
  PROVE  c = b /\ pc = "failed"
BY DEF Moves, Fails, Running

LEMMA SaveFailure ==
  ASSUME TypeOK, NEW b \in Batch, NEW session, Sound(Current(b).object, session), Save(b, session),
         NEW c \in Batch, Fails(c)
  PROVE  c = b /\ Current(b).signals = <<>>
<1>1. session.state # "raised" /\ session \in Session
  BY DEF Sound, AtRest, Resumable
<1>2. CASE Current(b).signals = <<>>
  <2>1. Moves(b, "failed")
    BY <1>2, FailedMoves DEF Save
  <2> QED BY <1>2, <2>1, OnlyMoverFails
<1>3. CASE Current(b).signals # <<>>
  <2>1. worker' = [worker EXCEPT ![b].pc = "writing", ![b].memory = session] /\ "writing" \in Place
    BY <1>1, <1>3 DEF Save, Place
  <2>2. Moves(b, "writing")
    BY <1>1, <2>1, TakesMemory
  <2> QED BY <2>2, OnlyMoverFails
<1> QED BY <1>2, <1>3

LEMMA FailureStep ==
  ASSUME Inv, [Next]_vars, NEW c \in Batch, Fails(c), deaths' = deaths
  PROVE  FailureIsOfStore(c)
<1> USE DEF Inv
<1>1. CASE UNCHANGED vars
  BY <1>1 DEF vars, Fails, Running
<1>2. CASE Terminated
  BY <1>2 DEF Terminated, vars, Fails, Running
<1>3. ASSUME NEW b \in Batch, Begin(b) PROVE FALSE
  BY <1>3, BeginMoves, OnlyMoverFails
<1>4. ASSUME NEW b \in Batch, RunNew(b) PROVE FailureIsOfStore(c)
  <2>1. worker[b].next \in DOMAIN plan[b] /\ worker[b].pc = "request"
    BY <1>4, RequestingNext DEF RunNew, Requesting
  <2>2. Current(b).signals \in Seq(Signal) /\ Current(b).terms \in Terms
    BY <2>1, CurrentType DEF Request
  <2>3. c = b /\ Current(b).signals = <<>>
    BY <1>4, <2>2, CreatedIsSound, SaveFailure DEF RunNew
  <2> QED BY <2>1, <2>3 DEF FailureIsOfStore
<1>5. ASSUME NEW b \in Batch, Load(b) PROVE FailureIsOfStore(c)
  <2> DEFINE session == store[Current(b).object].session
  <2>1. worker[b].next \in DOMAIN plan[b] /\ worker[b].pc = "request"
    BY <1>5, RequestingNext DEF Load, Requesting
  <2>2. Current(b).object \in Object
    BY <2>1, CurrentType DEF Request
  <2>3. CASE Readable(Current(b).object)
    <3>1. worker' = [worker EXCEPT ![b].pc = "loaded", ![b].memory = session]
      BY <1>5, <2>3 DEF Load
    <3>2. session \in Session /\ "loaded" \in Place
      BY <2>2, <2>3 DEF FilesAreSound, Sound, Place
    <3> HIDE DEF session
    <3>3. Moves(b, "loaded")
      BY <3>1, <3>2, TakesMemory
    <3> QED BY <3>3, OnlyMoverFails
  <2>4. CASE ~Readable(Current(b).object)
    <3>1. Moves(b, "failed")
      BY <1>5, <2>4, FailedMoves DEF Load
    <3>2. c = b
      BY <3>1, OnlyMoverFails
    <3> QED BY <2>1, <2>4, <3>2 DEF FailureIsOfStore
  <2> QED BY <2>3, <2>4
<1>6. ASSUME NEW b \in Batch, ContinueExisting(b) PROVE FailureIsOfStore(c)
  <2>1. /\ worker[b].next \in DOMAIN plan[b] /\ Sound(Current(b).object, worker[b].memory)
        /\ worker[b].pc = "loaded"
    BY <1>6 DEF ContinueExisting, HoldsSound
  <2>2. Current(b).signals \in Seq(Signal) /\ Current(b).terms \in Terms
    BY <2>1, CurrentType DEF Request
  <2>3. c = b /\ Current(b).signals = <<>>
    BY <1>6, <2>1, <2>2, ContinuedIsSound, SaveFailure DEF ContinueExisting
  <2> QED BY <2>1, <2>3 DEF FailureIsOfStore
<1>7. ASSUME NEW b \in Batch, FinishSave(b) PROVE FALSE
  BY <1>7, FinishSaveMoves, OnlyMoverFails
<1>8. ASSUME NEW b \in Batch, ListSessions(b) PROVE FALSE
  BY <1>8, ListSessionsMoves, OnlyMoverFails
<1>9. ASSUME NEW b \in Batch, ReadListed(b) PROVE FailureIsOfStore(c)
  <2>1. PICK o \in Object :
          /\ NextFile(b, o)
          /\ IF Readable(o)
             THEN worker' = [worker EXCEPT ![b].read[o] = store[o].session, ![b].todo = @ \ {o}]
             ELSE Failed(b)
    BY <1>9 DEF ReadListed
  <2>2. worker[b].pc = "listing"
    BY <1>9 DEF ReadListed
  <2>3. CASE Readable(o)
    <3>1. store[o].session \in Session
      BY <2>3 DEF FilesAreSound, Sound
    <3>2. worker' = [worker EXCEPT ![b].read[o] = store[o].session, ![b].todo = @ \ {o}]
      BY <2>1, <2>3
    <3>3. Moves(b, "listing")
      BY <2>2, <3>1, <3>2, ReadMoves
    <3> QED BY <3>3, OnlyMoverFails
  <2>4. CASE ~Readable(o)
    <3>1. Moves(b, "failed")
      BY <2>1, <2>4, FailedMoves
    <3>2. c = b
      BY <3>1, OnlyMoverFails
    <3> QED BY <2>1, <2>2, <2>4, <3>2 DEF FailureIsOfStore
  <2> QED BY <2>3, <2>4
<1>10. ASSUME NEW b \in Batch, AllRead(b) PROVE FALSE
  BY <1>10, AllReadMoves, OnlyMoverFails
<1>11. ASSUME NEW b \in Batch, Rewrite(b) PROVE FALSE
  <2>1. Moves(b, "rewriting")
    BY <1>11, RewriteMoves DEF Rewrite
  <2> QED BY <2>1, OnlyMoverFails
<1>12. ASSUME NEW b \in Batch, FinishRewrite(b) PROVE FALSE
  <2>1. PICK o \in Object : worker' = [worker EXCEPT ![b].pc = "rewrite", ![b].todo = @ \ {o}]
    BY <1>12 DEF FinishRewrite
  <2>2. Moves(b, "rewrite")
    BY <2>1, FinishRewriteMoves
  <2> QED BY <2>2, OnlyMoverFails
<1>13. ASSUME NEW b \in Batch, Complete(b) PROVE FALSE
  BY <1>13, CompleteMoves, OnlyMoverFails
<1>14. ASSUME NEW b \in Batch, Die(b) PROVE FALSE
  BY <1>14 DEF Die, TypeOK
<1> QED
  BY <1>1, <1>2, <1>3, <1>4, <1>5, <1>6, <1>7, <1>8, <1>9, <1>10, <1>11, <1>12, <1>13, <1>14 DEF Next

\* A worker that is not killed fails because a file is missing or torn, or a request
\* has no signals: no pass asks for a move that the state machine refuses, and no
\* file holds a session that cannot be resumed.
THEOREM FailuresAreOfTheStore == Spec => FailsOnlyOnTheStore
<1>1. Inv /\ [Next]_vars =>
        [\A b \in Batch :
           b \in Running /\ worker'[b].pc = "failed" /\ deaths' = deaths =>
             \/ worker[b].pc = "request" /\ ~Readable(Current(b).object)
             \/ worker[b].pc \in {"request", "loaded"} /\ Current(b).signals = <<>>
             \/ worker[b].pc = "listing" /\ \E o \in Object : NextFile(b, o) /\ ~Readable(o)]_vars
  BY FailureStep DEF Fails, FailureIsOfStore
<1> QED BY <1>1, InvInit, InvNext, PTL DEF Spec, FailsOnlyOnTheStore

--------------------------------------------------------------------------------
(* One worker at a time undoes nothing. *)

\* What a worker that is alone holds agrees with the files.
InStep(b) ==
  /\ worker[b].pc = "loaded" => worker[b].memory = store[Current(b).object].session
  /\ worker[b].pc = "writing" /\ Current(b).mode = "continue" =>
       Kept(store[Current(b).object].session, worker[b].memory)
  /\ worker[b].pc = "listing" =>
       \A o \in worker[b].files \ worker[b].todo : worker[b].read[o] = store[o].session
  /\ worker[b].pc \in {"rewrite", "rewriting"} =>
       \A o \in worker[b].files : worker[b].read[o] = store[o].session

Alone == \A b, c \in Running : b = c
Sync == overlapped \/ (Alone /\ \A b \in Batch : InStep(b))

NoUndoing ==
  \A o \in Object : overlapped \/ CreatedAnew(o) \/ Kept(store[o].session, store'[o].session)

LEMMA SyncFrom ==
  ASSUME Sync, NEW b \in Running, NEW pc, Moves(b, pc), overlapped' = overlapped,
         ~overlapped => InStep(b)'
  PROVE  Sync'
<1>1. CASE overlapped
  BY <1>1 DEF Sync
<1>2. CASE ~overlapped
  <2>1. Alone
    BY <1>2 DEF Sync
  <2>2. \A c \in Batch \ {b} : worker'[c].pc \in {"idle", "completed", "failed"}
    BY <2>1 DEF Alone, Running, Moves
  <2>3. Alone'
    BY <2>2 DEF Alone, Running
  <2>4. \A c \in Batch \ {b} : InStep(c)'
    BY <2>2 DEF InStep
  <2> QED BY <1>2, <2>3, <2>4 DEF Sync, Running
<1> QED BY <1>1, <1>2

\* A step that leaves the files alone undoes nothing.
LEMMA SameFiles == ASSUME UNCHANGED store PROVE NoUndoing
BY DEF NoUndoing, Kept

LEMMA FailureInStep ==
  ASSUME TypeOK, Sync, NEW b \in Running, Failed(b), overlapped' = overlapped
  PROVE  Sync'
<1>1. Moves(b, "failed")
  BY FailedMoves DEF Running
<1>2. InStep(b)'
  BY <1>1 DEF Moves, InStep
<1> QED BY <1>1, <1>2, SyncFrom

LEMMA SaveInStep ==
  ASSUME Inv, Sync, NEW b \in Running, worker[b].next \in DOMAIN plan[b], NEW session,
         Sound(Current(b).object, session), Save(b, session), UNCHANGED <<plan, overlapped>>,
         ~overlapped /\ Current(b).mode = "continue" =>
           Kept(store[Current(b).object].session, session)
  PROVE  Sync' /\ NoUndoing
<1> USE DEF Inv
<1>0. b \in Batch
  BY DEF Running
<1>1. session.state # "raised" /\ session \in Session
  BY DEF Sound, AtRest, Resumable
<1>2. CASE Current(b).signals = <<>>
  BY <1>2, FailureInStep, SameFiles DEF Save
<1>3. CASE Current(b).signals # <<>>
  <2>1. /\ Truncate(Current(b).object)
        /\ worker' = [worker EXCEPT ![b].pc = "writing", ![b].memory = session]
    BY <1>1, <1>3 DEF Save
  <2>2. Current(b).object \in Object /\ "writing" \in Place
    BY <1>0, CurrentType DEF Request, Place
  <2>3. Moves(b, "writing") /\ worker'[b].memory = session /\ worker'[b].next = worker[b].next
    BY <1>0, <1>1, <2>1, <2>2, TakesMemory
  <2>4. \A p \in Object : store'[p].session = store[p].session
    BY <2>1, <2>2, TruncateMoves
  <2>5. Current(b)' = Current(b)
    BY <2>3 DEF Current
  <2>6. ~overlapped => InStep(b)'
    BY <2>2, <2>3, <2>4, <2>5 DEF Moves, InStep
  <2>7. NoUndoing
    BY <2>4 DEF NoUndoing, Kept
  <2> QED BY <2>3, <2>6, <2>7, SyncFrom
<1> QED BY <1>2, <1>3

LEMMA SyncInit == Init => Sync
<1> SUFFICES ASSUME Init PROVE Sync
  OBVIOUS
<1>1. \A b \in Batch : worker[b].pc = "idle"
  BY EmptyType, SessionAssumption DEF Init, Place
<1> QED BY <1>1 DEF Sync, Alone, Running, InStep

LEMMA SyncNext ==
  ASSUME Inv, Sync, [Next]_vars
  PROVE  Sync' /\ NoUndoing
<1> USE DEF Inv
<1>1. CASE UNCHANGED vars
  BY <1>1, SameFiles DEF vars, Sync, Alone, Running, InStep, Current
<1>2. CASE Terminated
  BY <1>2, SameFiles DEF Terminated, vars, Sync, Alone, Running, InStep, Current
<1>3. ASSUME NEW b \in Batch, Begin(b) PROVE Sync' /\ NoUndoing
  <2>1. Moves(b, "request") /\ b \notin Running
    BY <1>3, BeginMoves DEF Begin, Running
  <2>2. CASE overlapped'
    BY <1>3, <2>2, SameFiles DEF Sync, Begin
  <2>3. CASE ~overlapped'
    <3>1. ~overlapped /\ Running = {}
      BY <1>3, <2>3 DEF Begin
    <3>2. \A c \in Batch \ {b} : worker'[c].pc \in {"idle", "completed", "failed"}
      BY <2>1, <3>1 DEF Running, Moves
    <3>3. Alone'
      BY <3>2 DEF Alone, Running
    <3>4. \A c \in Batch : InStep(c)'
      BY <2>1, <3>2 DEF Moves, InStep
    <3> QED BY <1>3, <3>3, <3>4, SameFiles DEF Sync, Begin
  <2> QED BY <2>2, <2>3
<1>4. ASSUME NEW b \in Batch, RunNew(b) PROVE Sync' /\ NoUndoing
  <2>1. worker[b].next \in DOMAIN plan[b] /\ b \in Running /\ Current(b).mode = "create"
    BY <1>4, RequestingNext DEF RunNew, Requesting, Running
  <2>2. Current(b).signals \in Seq(Signal) /\ Current(b).terms \in Terms
    BY <2>1, CurrentType DEF Request
  <2> QED BY <1>4, <2>1, <2>2, CreatedIsSound, SaveInStep DEF RunNew
<1>5. ASSUME NEW b \in Batch, Load(b) PROVE Sync' /\ NoUndoing
  <2> DEFINE session == store[Current(b).object].session
  <2>1. worker[b].next \in DOMAIN plan[b] /\ b \in Running
    BY <1>5, RequestingNext DEF Load, Requesting, Running
  <2>2. Current(b).object \in Object
    BY <2>1, CurrentType DEF Request
  <2>3. CASE Readable(Current(b).object)
    <3>1. worker' = [worker EXCEPT ![b].pc = "loaded", ![b].memory = session]
      BY <1>5, <2>3 DEF Load
    <3>2. session \in Session /\ "loaded" \in Place
      BY <2>2, <2>3 DEF FilesAreSound, Sound, Place
    <3>3. session' = session
      <4>1. plan' = plan /\ store' = store
        BY <1>5 DEF Load
      <4>2. worker'[b].next = worker[b].next
        <5> HIDE DEF session
        <5> QED BY <3>1, <3>2, TakesMemory
      <4> QED BY <4>1, <4>2 DEF Current
    <3> HIDE DEF session
    <3>4. Moves(b, "loaded") /\ worker'[b].memory = session
      BY <3>1, <3>2, TakesMemory
    <3>5. InStep(b)'
      BY <3>3, <3>4 DEF Moves, InStep, session
    <3> QED BY <1>5, <2>1, <3>4, <3>5, SyncFrom, SameFiles DEF Load
  <2>4. CASE ~Readable(Current(b).object)
    BY <1>5, <2>1, <2>4, FailureInStep, SameFiles DEF Load
  <2> QED BY <2>3, <2>4
<1>6. ASSUME NEW b \in Batch, ContinueExisting(b) PROVE Sync' /\ NoUndoing
  <2> DEFINE new == Continued(Current(b), worker[b].memory)
  <2>1. /\ worker[b].next \in DOMAIN plan[b] /\ Sound(Current(b).object, worker[b].memory)
        /\ worker[b].pc = "loaded" /\ b \in Running
    BY <1>6 DEF ContinueExisting, HoldsSound, Running
  <2>2. Current(b).signals \in Seq(Signal) /\ Current(b).terms \in Terms
    BY <2>1, CurrentType DEF Request
  <2>3. Sound(Current(b).object, new) /\ Kept(worker[b].memory, new)
    BY <2>1, <2>2, ContinuedIsSound
  <2>4. ~overlapped => worker[b].memory = store[Current(b).object].session
    BY <2>1 DEF Sync, InStep
  <2> QED BY <1>6, <2>1, <2>3, <2>4, SaveInStep DEF ContinueExisting
<1>7. ASSUME NEW b \in Batch, FinishSave(b) PROVE Sync' /\ NoUndoing
  <2>1. Moves(b, "request") /\ b \in Running /\ worker[b].pc = "writing"
    BY <1>7, FinishSaveMoves DEF FinishSave, Running
  <2>2. InStep(b)'
    BY <2>1 DEF Moves, InStep
  <2>3. Sync'
    BY <1>7, <2>1, <2>2, SyncFrom DEF FinishSave
  <2>4. worker[b].next \in DOMAIN plan[b] /\ worker[b].memory \in Session
    BY <2>1 DEF HoldsSound, Sound
  <2>5. Current(b).object \in Object /\ Current(b).mode \in {"create", "continue"}
    BY <2>4, CurrentType DEF Request
  <2>6. /\ store'[Current(b).object].session = worker[b].memory
        /\ \A p \in Object \ {Current(b).object} : store'[p] = store[p]
    BY <1>7, <2>4, <2>5, WriteMoves DEF FinishSave
  <2>7. overlapped \/ CreatedAnew(Current(b).object)
          \/ Kept(store[Current(b).object].session, worker[b].memory)
    BY <2>1, <2>5 DEF Sync, InStep, CreatedAnew
  <2>8. \A p \in Object \ {Current(b).object} : Kept(store[p].session, store'[p].session)
    BY <2>6 DEF Kept
  <2>9. NoUndoing
    BY <2>6, <2>7, <2>8 DEF NoUndoing
  <2> QED BY <2>3, <2>9
<1>8. ASSUME NEW b \in Batch, ListSessions(b) PROVE Sync' /\ NoUndoing
  <2>1. Moves(b, "listing") /\ worker'[b].files = worker'[b].todo /\ b \in Running
    BY <1>8, ListSessionsMoves DEF ListSessions, Running
  <2>2. InStep(b)'
    BY <2>1 DEF Moves, InStep
  <2> QED BY <1>8, <2>1, <2>2, SyncFrom, SameFiles DEF ListSessions
<1>9. ASSUME NEW b \in Batch, ReadListed(b) PROVE Sync' /\ NoUndoing
  <2>1. PICK o \in Object :
          /\ NextFile(b, o)
          /\ IF Readable(o)
             THEN worker' = [worker EXCEPT ![b].read[o] = store[o].session, ![b].todo = @ \ {o}]
             ELSE Failed(b)
    BY <1>9 DEF ReadListed
  <2>2. worker[b].pc = "listing" /\ b \in Running /\ UNCHANGED <<plan, store, overlapped>>
    BY <1>9 DEF ReadListed, Running
  <2>3. CASE Readable(o)
    <3>1. store[o].session \in Session
      BY <2>3 DEF FilesAreSound, Sound
    <3>2. /\ Moves(b, "listing") /\ worker'[b].files = worker[b].files
          /\ worker'[b].todo = worker[b].todo \ {o}
          /\ worker'[b].read = [worker[b].read EXCEPT ![o] = store[o].session]
      <4>1. worker' = [worker EXCEPT ![b].read[o] = store[o].session, ![b].todo = @ \ {o}]
        BY <2>1, <2>3
      <4> QED BY <2>2, <3>1, <4>1, ReadMoves
    <3>3. worker[b].read \in [Object -> Session] /\ worker[b].files \subseteq Object
      BY DEF TypeOK, Worker
    <3>4. ~overlapped => InStep(b)'
      BY <2>2, <3>2, <3>3 DEF Moves, InStep, Sync
    <3> QED BY <2>2, <3>2, <3>4, SyncFrom, SameFiles
  <2>4. CASE ~Readable(o)
    BY <2>1, <2>2, <2>4, FailureInStep, SameFiles
  <2> QED BY <2>3, <2>4
<1>10. ASSUME NEW b \in Batch, AllRead(b) PROVE Sync' /\ NoUndoing
  <2>1. /\ Moves(b, "rewrite") /\ worker'[b].files = worker[b].files
        /\ worker'[b].todo = worker[b].files /\ worker'[b].read = worker[b].read
    BY <1>10, AllReadMoves
  <2>2. worker[b].pc = "listing" /\ worker[b].todo = {} /\ b \in Running
    BY <1>10 DEF AllRead, Running
  <2>3. ~overlapped => InStep(b)'
    BY <1>10, <2>1, <2>2 DEF Moves, InStep, Sync, AllRead
  <2> QED BY <1>10, <2>1, <2>2, <2>3, SyncFrom, SameFiles DEF AllRead
<1>11. ASSUME NEW b \in Batch, Rewrite(b) PROVE Sync' /\ NoUndoing
  <2>1. PICK o \in Object : Truncate(o)
    BY <1>11 DEF Rewrite
  <2>2. \A p \in Object : store'[p].session = store[p].session
    BY <2>1, TruncateMoves
  <2>3. /\ Moves(b, "rewriting") /\ worker'[b].files = worker[b].files
        /\ worker'[b].todo = worker[b].todo /\ worker'[b].read = worker[b].read
    BY <1>11, RewriteMoves DEF Rewrite
  <2>4. worker[b].pc = "rewrite" /\ b \in Running /\ worker[b].files \subseteq Object
    BY <1>11 DEF Rewrite, Running, TypeOK, Worker
  <2>5. ~overlapped => InStep(b)'
    BY <2>2, <2>3, <2>4 DEF Moves, InStep, Sync
  <2>6. Sync'
    BY <1>11, <2>3, <2>4, <2>5, SyncFrom DEF Rewrite
  <2> QED BY <2>2, <2>6 DEF NoUndoing, Kept
<1>12. ASSUME NEW b \in Batch, FinishRewrite(b) PROVE Sync' /\ NoUndoing
  <2>1. PICK o \in Object :
          /\ NextFile(b, o) /\ Write(b, o, worker[b].read[o])
          /\ worker' = [worker EXCEPT ![b].pc = "rewrite", ![b].todo = @ \ {o}]
    BY <1>12 DEF FinishRewrite
  <2>2. worker[b].pc = "rewriting" /\ b \in Running /\ worker[b].files \subseteq Object
    BY <1>12 DEF FinishRewrite, Running, TypeOK, Worker
  <2>3. o \in worker[b].files /\ worker[b].read[o] \in Session
    BY <2>1, <2>2, NextIsListed DEF Sound
  <2>4. /\ store'[o].session = worker[b].read[o]
        /\ \A p \in Object \ {o} : store'[p] = store[p]
    BY <2>1, <2>3, WriteMoves
  <2>5. ~overlapped => \A p \in worker[b].files : worker[b].read[p] = store[p].session
    BY <2>2 DEF Sync, InStep
  <2>6. ~overlapped => \A p \in Object : store'[p].session = store[p].session
    BY <2>3, <2>4, <2>5
  <2>7. /\ Moves(b, "rewrite") /\ worker'[b].files = worker[b].files
        /\ worker'[b].read = worker[b].read
    BY <2>1, FinishRewriteMoves
  <2>8. ~overlapped => InStep(b)'
    BY <2>2, <2>5, <2>6, <2>7 DEF Moves, InStep
  <2>9. Sync'
    BY <1>12, <2>2, <2>7, <2>8, SyncFrom DEF FinishRewrite
  <2> QED BY <2>6, <2>9 DEF NoUndoing, Kept
<1>13. ASSUME NEW b \in Batch, Complete(b) PROVE Sync' /\ NoUndoing
  <2>1. Moves(b, "completed") /\ b \in Running
    BY <1>13, CompleteMoves DEF Complete, Running
  <2>2. InStep(b)'
    BY <2>1 DEF Moves, InStep
  <2> QED BY <1>13, <2>1, <2>2, SyncFrom, SameFiles DEF Complete
<1>14. ASSUME NEW b \in Batch, Die(b) PROVE Sync' /\ NoUndoing
  BY <1>14, FailureInStep, SameFiles DEF Die
<1> QED
  BY <1>1, <1>2, <1>3, <1>4, <1>5, <1>6, <1>7, <1>8, <1>9, <1>10, <1>11, <1>12, <1>13, <1>14 DEF Next

\* As long as workers do not overlap and an object is not created anew, its claims
\* stay on file and a blocked object stays as it is, whatever is retried or dies.
THEOREM OneWorkerUndoesNothing == Spec => NothingUndone
<1>1. Inv /\ Sync /\ [Next]_vars => Sync'
  BY SyncNext
<1>2. Inv /\ Sync /\ [Next]_vars =>
        [\A o \in Object : \/ overlapped \/ CreatedAnew(o)
                           \/ /\ SignalsOf(store[o].session.claims) \subseteq
                                   SignalsOf(store'[o].session.claims)
                              /\ store[o].session.state = "blocked" =>
                                   store'[o].session = store[o].session]_vars
  BY SyncNext DEF NoUndoing, Kept
<1> QED BY <1>1, <1>2, InvInit, InvNext, SyncInit, PTL DEF Spec, NothingUndone
================================================================================
