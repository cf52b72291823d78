-------------------------- MODULE ProtectionProofs --------------------------
(***************************************************************************)
(* Theorems about Protection, for every number of users and analyses at once, *)
(* any transactions, rules, spellings and answers of the correlation, and any  *)
(* number of failed calls.                                                   *)
(*                                                                         *)
(* The argument: what an analysis has held as true all along is true now, and  *)
(* what is true now it has seen (Watches).  So what one of its reads misses     *)
(* did not hold all along, and what a read finds was seen; Decided says what    *)
(* each place of an analysis has made of it.                                  *)
(*                                                                         *)
(* For the reason of a rejection (RejectedForAReason) a second invariant,       *)
(* Reasoned, follows the score from the first verdict to the last: the first     *)
(* scoring never reaches 80 by itself, the second one blocks only on two kinds   *)
(* of signal, and every later raise of the score carries what was seen with it.  *)
(***************************************************************************)
EXTENDS Protection, FiniteSetTheorems, WellFoundedInduction, TLAPS

\* A running analysis holds only what is true now, and has seen all of it.
Watches(t) == t.pc # "done" => /\ t.held \subseteq FactsNow(t.spelling, t.tx)
                               /\ FactsNow(t.spelling, t.tx) \subseteq t.seen

\* What makes an alert of an approval in the code: the lock even with the alerts off.
Wanted(t) == \/ "lock" \in t.held
             \/ "appr" \in t.held /\ (t.tx.call = "unlimited" \/ "contract" \in t.held)

\* What an analysis of the dashboard knows of what was forbidden all along.
Decided(t) ==
  /\ t.pc \in {"contract", "rules", "rescore"} => "barred" \notin t.held
  /\ t.pc = "rules" => t.missed \/ "contract" \notin t.held
  /\ t.pc = "rescore" /\ Barred(t) => t.flag
  /\ t.pc \in {"correlate", "done"} /\ Barred(t) => t.out.action = Reject

\* What the ingest of an approval knows.
Alerted(t) ==
  /\ t.pc = "spender" => /\ "lock" \notin t.held /\ ~t.flag
                         /\ "appr" \in t.held => t.first
                         /\ t.first => "appr" \in t.seen
  /\ t.pc = "alert" => AlertSeen(t)
  /\ t.pc = "done" => /\ Wanted(t) /\ ~t.missed => t.flag
                      /\ t.flag => AlertSeen(t)

Knows(t) == /\ IsAnalysis(t) /\ Watches(t)
            /\ t.entry = "dashboard" => Decided(t)
            /\ t.entry = "approval" => Alerted(t)

Tables == /\ scoringV2 \in BOOLEAN
          /\ settings = None \/ IsSettings(settings)
          /\ autoScan \in BOOLEAN \cup {None}
          /\ rules \in [RuleId -> Rules \cup {None}]
          /\ blocked \subseteq Spelling \X Contract
          /\ user = [u \in User |-> user[u]]
          /\ \A u \in User : user[u] = None \/ IsRequest(user[u])

Analyses == /\ analysis = [a \in Analyst |-> analysis[a]]
            /\ \A a \in Analyst : analysis[a] # None => Knows(analysis[a])

Inv == Tables /\ Analyses

-----------------------------------------------------------------------------
(* Steps of an analysis *)

\* A step that only moves one analysis keeps the invariant, if it knows what it has to.
LEMMA Moved ==
  ASSUME Inv, UNCHANGED <<scoringV2, tables, user>>, NEW a \in Analyst, NEW t, Set(a, t),
         t # None => Knows(t)
  PROVE  Inv'
<1>1. Tables'
  BY DEF Inv, Tables, tables
<1>2. analysis' = [b \in Analyst |-> IF b = a THEN t ELSE analysis[b]]
  BY DEF Inv, Analyses, Set
<1>3. ASSUME NEW s, Knows(s) PROVE Knows(s)'
  BY <1>3 DEF Knows, Watches, FactsNow, Facts, tables, Decided, Alerted, AlertSeen, Barred, Wanted, IsAnalysis
<1>4. \A b \in Analyst : analysis'[b] # None => Knows(analysis'[b])
  BY <1>2 DEF Inv, Analyses
<1>5. ASSUME NEW b \in Analyst, analysis'[b] # None PROVE Knows(analysis[b])'
  <2>1. PICK s : s = analysis'[b]
    OBVIOUS
  <2>2. Knows(s)'
    BY <1>3, <1>4, <1>5, <2>1
  <2> QED BY <2>1, <2>2
<1> QED BY <1>1, <1>2, <1>5 DEF Inv, Analyses

\* The analysis that is at a place knows what that place knows.
LEMMA Current ==
  ASSUME Inv, NEW a \in Analyst, analysis[a] # None
  PROVE  Knows(analysis[a])
BY DEF Inv, Analyses

\* The facts, each by its name.
LEMMA FactsAre ==
  ASSUME NEW spelling, NEW tx
  PROVE  /\ FactsNow(spelling, tx) \subseteq FactNames
         /\ "lock" \in FactsNow(spelling, tx) <=> OrDefault(settings).lock
         /\ "barred" \in FactsNow(spelling, tx) <=> Locked(OrDefault(settings), tx)
         /\ "warn" \in FactsNow(spelling, tx) <=> OrDefault(settings).warn
         /\ "appr" \in FactsNow(spelling, tx) <=> OrDefault(settings).appr
         /\ "auto" \in FactsNow(spelling, tx) <=> OrDefault(settings).block
         /\ "rule" \in FactsNow(spelling, tx) <=> RulesBlock(rules, spelling, tx)
         /\ "contract" \in FactsNow(spelling, tx) <=> <<spelling, tx.to>> \in blocked
BY DEF FactsNow, Facts, FactNames

\* The settings in use have their toggles.
LEMMA RowToggles ==
  ASSUME Inv
  PROVE  \A f \in Toggles \cup {"lock"} : OrDefault(settings)[f] \in BOOLEAN
<1>1. ASSUME NEW f \in Toggles \cup {"lock"} PROVE Default[f] \in BOOLEAN
  <2>1. f \in Fields /\ f # "white"
    BY DEF Toggles, Fields
  <2>2. Default[f] = (f \in {"auto", "warn", "appr", "dapp"})
    BY <2>1 DEF Default
  <2> QED BY <2>2
<1>2. settings # None => \A f \in Toggles \cup {"lock"} : settings[f] \in BOOLEAN
  BY DEF Inv, Tables, IsSettings, IsWish, Toggles, Fields
<1> QED BY <1>1, <1>2 DEF OrDefault

\* A fresh analysis.
LEMMA Fresh ==
  ASSUME Inv, NEW pc, NEW entry, NEW tx, NEW spelling, NEW toggle,
         entry \in {"dashboard", "extension", "approval"},
         pc \in (IF entry = "approval" THEN {"spender", "alert"}
                 ELSE {"charge"} \cup {p \in {"assess"} : entry = "extension"})
  PROVE  LET t == Start(pc, entry, tx, spelling, toggle)
         IN  IsAnalysis(t) /\ Watches(t)
<1> DEFINE t == Start(pc, entry, tx, spelling, toggle)
<1>1. /\ t.pc = pc /\ t.entry = entry /\ t.tx = tx /\ t.spelling = spelling
      /\ t.flag = FALSE /\ t.missed = FALSE /\ t.out = Nothing
      /\ t.held = FactsNow(spelling, tx) /\ t.seen = FactsNow(spelling, tx)
      /\ DOMAIN t = {"pc", "entry", "tx", "spelling", "out", "flag", "first", "own", "evaluated",
                     "missed", "held", "seen"}
  BY DEF Start
<1>2. DOMAIN Nothing = {"score", "band", "action"}
  BY DEF Nothing, Result
<1>3. FactsNow(spelling, tx) \subseteq FactNames
  BY FactsAre
<1> HIDE DEF t
<1>4. IsAnalysis(t)
  BY <1>1, <1>2, <1>3 DEF IsAnalysis
<1>5. Watches(t)
  BY <1>1 DEF Watches
<1> QED BY <1>4, <1>5 DEF t

\* The endpoints start an analysis with the facts of now, and nothing decided.
LEMMA AnalyseKeeps ==
  ASSUME Inv, NEW a \in Analyst, NEW entry \in {"dashboard", "extension"}, NEW tx \in Txs,
         NEW spelling \in Spelling, Analyse(a, entry, tx, spelling)
  PROVE  Inv'
<1> DEFINE on == settings # None /\ OrDefault(settings).warn
           pc == IF on THEN "charge" ELSE "assess"
           toggle == on /\ OrDefault(settings).block
<1>1. entry = "dashboard" => pc = "charge"
  BY DEF Analyse
<1>2. PICK t : t = Start(pc, entry, tx, spelling, toggle)
  OBVIOUS
<1>3. IsAnalysis(t) /\ Watches(t)
  BY <1>1, <1>2, Fresh
<1>4. t.pc = pc /\ t.entry = entry
  BY <1>2 DEF Start
<1>5. Knows(t)
  BY <1>1, <1>3, <1>4 DEF Knows, Decided
<1>6. Set(a, t)
  BY <1>2 DEF Analyse
<1>7. UNCHANGED <<scoringV2, tables, user>>
  BY DEF Analyse
<1> QED BY <1>5, <1>6, <1>7, Moved

\* The charge goes on to the first evaluation or ends the analysis.
LEMMA ChargeKeeps ==
  ASSUME Inv, NEW a \in Analyst, Charge(a)
  PROVE  Inv'
<1>1. PICK s : s = analysis[a]
  OBVIOUS
<1>2. Knows(s) /\ s.pc = "charge"
  BY <1>1, Current DEF Charge, Is
<1>3. UNCHANGED <<scoringV2, tables, user>>
  BY DEF Charge
<1>4. CASE Set(a, None)
  BY <1>3, <1>4, Moved
<1>5. CASE Set(a, [s EXCEPT !.pc = IF scoringV2 THEN "own" ELSE "evaluate"])
  <2>1. PICK t : t = [s EXCEPT !.pc = IF scoringV2 THEN "own" ELSE "evaluate"]
    OBVIOUS
  <2>2. IsAnalysis(t) /\ Watches(t)
    BY <1>2, <2>1 DEF Knows, IsAnalysis, Watches
  <2>3. t.pc \in {"own", "evaluate"} /\ t.entry = s.entry /\ t.entry # "approval"
    BY <1>2, <2>1 DEF Knows, IsAnalysis
  <2>4. Knows(t)
    BY <2>2, <2>3 DEF Knows, Decided
  <2> QED BY <1>3, <1>5, <2>1, <2>4, Moved
<1> QED BY <1>1, <1>4, <1>5 DEF Charge

\* The settings of v2's own.
LEMMA ReadOwnKeeps ==
  ASSUME Inv, NEW a \in Analyst, ReadOwn(a)
  PROVE  Inv'
<1>1. PICK s : s = analysis[a]
  OBVIOUS
<1>2. Knows(s) /\ s.pc = "own"
  BY <1>1, Current DEF ReadOwn, Is
<1>3. UNCHANGED <<scoringV2, tables, user>>
  BY DEF ReadOwn
<1>4. PICK t : t = [s EXCEPT !.pc = "evaluate",
                     !.own = [warn |-> OrDefault(settings).warn, block |-> OrDefault(settings).block]]
  OBVIOUS
<1>5. IsAnalysis(t) /\ Watches(t) /\ t.pc = "evaluate" /\ t.entry # "approval"
  BY <1>2, <1>4 DEF Knows, IsAnalysis, Watches
<1>6. Knows(t)
  BY <1>5 DEF Knows, Decided
<1>7. Set(a, t) \/ Set(a, None)
  BY <1>1, <1>4 DEF ReadOwn, Fail
<1> QED BY <1>3, <1>6, <1>7, Moved

\* The evaluation rejects under the lock; past it, the destination was not barred
\* all along, and without warnings nothing else was to stop it.
LEMMA EvaluateKeeps ==
  ASSUME Inv, NEW a \in Analyst, Evaluate(a)
  PROVE  Inv'
<1>1. PICK s : s = analysis[a]
  OBVIOUS
<1>2. Knows(s) /\ s.pc = "evaluate"
  BY <1>1, Current DEF Evaluate, Is
<1>3. UNCHANGED <<scoringV2, tables, user>>
  BY DEF Evaluate
<1> DEFINE row == OrDefault(settings)
<1>4. s.entry # "approval" /\ s.held \subseteq FactsNow(s.spelling, s.tx)
  BY <1>2 DEF Knows, IsAnalysis, Watches
<1>5. CASE Locked(row, s.tx) /\ Set(a, [s EXCEPT !.out = Result(100, "Block", Reject),
                                        !.pc = IF s.entry = "extension" THEN "assess" ELSE "done"])
  <2>1. PICK t : t = [s EXCEPT !.out = Result(100, "Block", Reject),
                              !.pc = IF s.entry = "extension" THEN "assess" ELSE "done"]
    OBVIOUS
  <2>2. t.entry = s.entry /\ t.out.action = Reject
        /\ t.pc = (IF s.entry = "extension" THEN "assess" ELSE "done")
    BY <1>2, <2>1 DEF Knows, IsAnalysis, Result
  <2>3. IsAnalysis(t) /\ Watches(t)
    BY <1>2, <2>1 DEF Knows, IsAnalysis, Watches, Result
  <2>4. Knows(t)
    BY <1>4, <2>2, <2>3 DEF Knows, Decided
  <2> QED BY <1>3, <1>5, <2>1, <2>4, Moved
<1>6. ASSUME ~Locked(row, s.tx) PROVE "barred" \notin s.held
  BY <1>4, <1>6, FactsAre
<1>7. CASE ~Locked(row, s.tx) /\ ~row.warn /\ Set(a, Based(s, Nothing, FALSE))
  <2>1. PICK t : t = Based(s, Nothing, FALSE)
    OBVIOUS
  <2>2. "warn" \notin s.held /\ "barred" \notin s.held
    BY <1>4, <1>6, <1>7, FactsAre
  <2>3. t.entry = s.entry /\ t.held = s.held /\ t.pc \in {"rescore", "correlate"}
    BY <1>2, <2>1 DEF Knows, IsAnalysis, Based, AfterBase
  <2>4. IsAnalysis(t) /\ Watches(t)
    BY <1>2, <1>4, <2>1 DEF Knows, IsAnalysis, Watches, Based, AfterBase, Nothing, Result
  <2>5. ~Barred(t)
    BY <2>2, <2>3 DEF Barred
  <2>6. Knows(t)
    BY <1>4, <2>2, <2>3, <2>4, <2>5 DEF Knows, Decided
  <2> QED BY <1>3, <1>7, <2>1, <2>6, Moved
<1>8. CASE ~Locked(row, s.tx) /\ Set(a, [s EXCEPT !.pc = "contract", !.evaluated = row.block])
  <2>1. PICK t : t = [s EXCEPT !.pc = "contract", !.evaluated = row.block]
    OBVIOUS
  <2>2. t.entry = s.entry /\ t.held = s.held /\ t.pc = "contract"
    BY <1>2, <2>1 DEF Knows, IsAnalysis
  <2>3. IsAnalysis(t) /\ Watches(t)
    BY <1>2, <1>4, <2>1 DEF Knows, IsAnalysis, Watches
  <2>4. Knows(t)
    BY <1>4, <1>6, <1>8, <2>2, <2>3 DEF Knows, Decided
  <2> QED BY <1>3, <1>8, <2>1, <2>4, Moved
<1>9. CASE Set(a, None)
  BY <1>3, <1>9, Moved
<1> QED BY <1>1, <1>5, <1>7, <1>8, <1>9 DEF Evaluate, Fail

\* A contract that was blocked all along is found, unless the read fails.
LEMMA ReadBlockedKeeps ==
  ASSUME Inv, NEW a \in Analyst, ReadBlocked(a)
  PROVE  Inv'
<1>1. PICK s : s = analysis[a]
  OBVIOUS
<1>2. Knows(s) /\ s.pc = "contract"
  BY <1>1, Current DEF ReadBlocked, Is
<1>3. UNCHANGED <<scoringV2, tables, user>>
  BY DEF ReadBlocked
<1>4. s.entry # "approval" /\ s.held \subseteq FactsNow(s.spelling, s.tx)
  BY <1>2 DEF Knows, IsAnalysis, Watches
<1>5. CASE Set(a, Based(s, Result(100, "Block", Reject), TRUE))
  <2>1. PICK t : t = Based(s, Result(100, "Block", Reject), TRUE)
    OBVIOUS
  <2>2. /\ t.entry = s.entry /\ t.held = s.held /\ t.pc \in {"rescore", "correlate"}
        /\ t.flag /\ t.out.action = Reject
    BY <1>2, <2>1 DEF Knows, IsAnalysis, Based, AfterBase, Result
  <2>3. IsAnalysis(t) /\ Watches(t)
    BY <1>2, <1>4, <2>1 DEF Knows, IsAnalysis, Watches, Based, AfterBase, Result
  <2>4. s.entry = "dashboard" => "barred" \notin s.held
    BY <1>2 DEF Knows, Decided
  <2>5. Knows(t)
    BY <1>4, <2>2, <2>3, <2>4 DEF Knows, Decided
  <2> QED BY <1>3, <1>5, <2>1, <2>5, Moved
<1>6. CASE <<s.spelling, s.tx.to>> \notin blocked /\ Set(a, [s EXCEPT !.pc = "rules"])
  <2>1. PICK t : t = [s EXCEPT !.pc = "rules"]
    OBVIOUS
  <2>2. t.entry = s.entry /\ t.held = s.held /\ t.pc = "rules"
    BY <1>2, <2>1 DEF Knows, IsAnalysis
  <2>3. IsAnalysis(t) /\ Watches(t)
    BY <1>2, <1>4, <2>1 DEF Knows, IsAnalysis, Watches
  <2>4. "contract" \notin s.held
    BY <1>4, <1>6, FactsAre
  <2>5. s.entry = "dashboard" => "barred" \notin s.held
    BY <1>2 DEF Knows, Decided
  <2>6. Knows(t)
    BY <1>4, <2>2, <2>3, <2>4, <2>5 DEF Knows, Decided
  <2> QED BY <1>3, <1>6, <2>1, <2>6, Moved
<1>7. CASE Set(a, [s EXCEPT !.pc = "rules", !.missed = TRUE])
  <2>1. PICK t : t = [s EXCEPT !.pc = "rules", !.missed = TRUE]
    OBVIOUS
  <2>2. t.entry = s.entry /\ t.held = s.held /\ t.pc = "rules" /\ t.missed
    BY <1>2, <2>1 DEF Knows, IsAnalysis
  <2>3. IsAnalysis(t) /\ Watches(t)
    BY <1>2, <1>4, <2>1 DEF Knows, IsAnalysis, Watches
  <2>4. s.entry = "dashboard" => "barred" \notin s.held
    BY <1>2 DEF Knows, Decided
  <2>5. Knows(t)
    BY <1>4, <2>2, <2>3, <2>4 DEF Knows, Decided
  <2> QED BY <1>3, <1>7, <2>1, <2>5, Moved
<1> QED BY <1>1, <1>5, <1>6, <1>7 DEF ReadBlocked

\* What a judgement keeps and what it decides.
LEMMA JudgedIs ==
  ASSUME NEW s, IsAnalysis(s), s.entry # "approval", s.pc = "rules", NEW ruled \in BOOLEAN
  PROVE  LET t == Judged(s, ruled)
         IN  /\ DOMAIN t = DOMAIN s /\ DOMAIN t.out = {"score", "band", "action"}
             /\ t.entry = s.entry /\ t.held = s.held /\ t.seen = s.seen
             /\ t.spelling = s.spelling /\ t.tx = s.tx
             /\ t.missed = s.missed /\ t.flag \in BOOLEAN
             /\ t.pc \in {"rescore", "correlate"}
             /\ ruled => t.flag /\ t.out.action = Reject
<1> DEFINE v1 == V1(s.tx)
           forbidden == ruled \/ (s.evaluated /\ v1.score >= 80)
<1>1. DOMAIN v1 = {"score", "band", "action"}
  BY DEF V1, Result
<1>2. Forbid(v1).action = Reject /\ DOMAIN Forbid(v1) = {"score", "band", "action"}
  BY <1>1 DEF Forbid
<1>3. forbidden \in BOOLEAN /\ (ruled => forbidden)
  OBVIOUS
<1>4. PICK t : t = Based(s, IF forbidden THEN Forbid(v1) ELSE v1, forbidden)
  OBVIOUS
<1>5. t = Judged(s, ruled)
  BY <1>4 DEF Judged
<1> HIDE DEF v1, forbidden
<1>6. /\ DOMAIN t = DOMAIN s
      /\ t.entry = s.entry /\ t.held = s.held /\ t.seen = s.seen
      /\ t.spelling = s.spelling /\ t.tx = s.tx /\ t.missed = s.missed
      /\ t.pc \in {"rescore", "correlate"} /\ t.flag = forbidden
      /\ t.out = IF forbidden THEN Forbid(v1) ELSE v1
  BY <1>4 DEF Based, AfterBase, IsAnalysis
<1> QED BY <1>1, <1>2, <1>3, <1>5, <1>6

\* The rules: one that matched all along is found, unless the read fails.
LEMMA ReadRulesKeeps ==
  ASSUME Inv, NEW a \in Analyst, ReadRules(a)
  PROVE  Inv'
<1>1. PICK s : s = analysis[a]
  OBVIOUS
<1>2. Knows(s) /\ s.pc = "rules"
  BY <1>1, Current DEF ReadRules, Is
<1>3. UNCHANGED <<scoringV2, tables, user>>
  BY DEF ReadRules
<1>4. IsAnalysis(s) /\ s.entry # "approval" /\ s.held \subseteq FactsNow(s.spelling, s.tx)
  BY <1>2 DEF Knows, IsAnalysis, Watches
<1>5. s.entry = "dashboard" => "barred" \notin s.held /\ (s.missed \/ "contract" \notin s.held)
  BY <1>2 DEF Knows, Decided
<1>6. CASE Set(a, Judged(s, RulesBlock(rules, s.spelling, s.tx)))
  <2> DEFINE ruled == RulesBlock(rules, s.spelling, s.tx)
  <2>1. ruled \in BOOLEAN
    BY DEF RulesBlock
  <2>2. PICK t : t = Judged(s, ruled)
    OBVIOUS
  <2>3. /\ DOMAIN t = DOMAIN s /\ DOMAIN t.out = {"score", "band", "action"}
        /\ t.entry = s.entry /\ t.held = s.held /\ t.seen = s.seen
        /\ t.spelling = s.spelling /\ t.tx = s.tx
        /\ t.missed = s.missed /\ t.flag \in BOOLEAN
        /\ t.pc \in {"rescore", "correlate"}
        /\ ruled => t.flag /\ t.out.action = Reject
    BY <1>2, <1>4, <2>1, <2>2, JudgedIs
  <2>4. "rule" \in s.held => ruled
    BY <1>4, FactsAre
  <2> HIDE DEF ruled
  <2>5. IsAnalysis(t)
    BY <1>4, <2>3 DEF IsAnalysis
  <2>6. Watches(t)
    BY <1>2, <2>3 DEF Knows, Watches
  <2>7. t.entry = "dashboard" /\ Barred(t) => t.flag /\ t.out.action = Reject
    BY <1>5, <2>3, <2>4 DEF Barred
  <2>8. Knows(t)
    BY <1>4, <1>5, <2>3, <2>5, <2>6, <2>7 DEF Knows, Decided
  <2> QED BY <1>3, <1>6, <2>2, <2>8, Moved DEF ruled
<1>7. CASE Set(a, [Judged(s, FALSE) EXCEPT !.missed = TRUE])
  <2>1. PICK j : j = Judged(s, FALSE)
    OBVIOUS
  <2>2. PICK t : t = [j EXCEPT !.missed = TRUE]
    OBVIOUS
  <2>3. /\ DOMAIN j = DOMAIN s /\ DOMAIN j.out = {"score", "band", "action"}
        /\ j.entry = s.entry /\ j.held = s.held /\ j.seen = s.seen
        /\ j.spelling = s.spelling /\ j.tx = s.tx /\ j.flag \in BOOLEAN
        /\ j.pc \in {"rescore", "correlate"}
    BY <1>2, <1>4, <2>1, JudgedIs
  <2>4. /\ DOMAIN t = DOMAIN s /\ DOMAIN t.out = {"score", "band", "action"}
        /\ t.entry = s.entry /\ t.held = s.held /\ t.seen = s.seen
        /\ t.spelling = s.spelling /\ t.tx = s.tx /\ t.flag \in BOOLEAN
        /\ t.pc \in {"rescore", "correlate"} /\ t.missed
    BY <1>4, <2>2, <2>3 DEF IsAnalysis
  <2>5. IsAnalysis(t)
    BY <1>4, <2>4 DEF IsAnalysis
  <2>6. Watches(t)
    BY <1>2, <2>4 DEF Knows, Watches
  <2>7. t.entry = "dashboard" => ~Barred(t)
    BY <1>5, <2>4 DEF Barred
  <2>8. Knows(t)
    BY <1>4, <1>5, <2>4, <2>5, <2>6, <2>7 DEF Knows, Decided
  <2> QED BY <1>3, <1>7, <2>1, <2>2, <2>8, Moved
<1> QED BY <1>1, <1>6, <1>7 DEF ReadRules

\* What the second score keeps and what it decides.
LEMMA RescoredIs ==
  ASSUME NEW s, IsAnalysis(s), s.entry # "approval", s.pc = "rescore", NEW ruled \in BOOLEAN
  PROVE  LET t == Rescored(s, ruled)
         IN  /\ DOMAIN t = DOMAIN s /\ DOMAIN t.out = {"score", "band", "action"}
             /\ t.entry = s.entry /\ t.held = s.held /\ t.seen = s.seen
             /\ t.spelling = s.spelling /\ t.tx = s.tx
             /\ t.missed = s.missed /\ t.flag \in BOOLEAN /\ t.pc = "correlate"
             /\ s.flag => t.out.action = Reject
<1> DEFINE v2 == EvaluateSignals(Signals(s.tx))
           forbidden == s.flag \/ ruled \/ (s.own.block /\ v2.score >= 80)
           out == IF forbidden THEN Result(v2.score, "Block", Reject) ELSE v2
<1>1. DOMAIN v2 = {"score", "band", "action"}
  BY DEF EvaluateSignals, Result
<1>2. forbidden \in BOOLEAN /\ (s.flag => forbidden)
  OBVIOUS
<1>3. PICK t : t = [s EXCEPT !.pc = "correlate", !.flag = forbidden, !.out = out]
  OBVIOUS
<1>4. t = Rescored(s, ruled)
  BY <1>3 DEF Rescored
<1>5. DOMAIN out = {"score", "band", "action"} /\ (s.flag => out.action = Reject)
  BY <1>1, <1>2 DEF Result
<1> HIDE DEF v2, forbidden, out
<1>6. /\ DOMAIN t = DOMAIN s
      /\ t.entry = s.entry /\ t.held = s.held /\ t.seen = s.seen
      /\ t.spelling = s.spelling /\ t.tx = s.tx /\ t.missed = s.missed
      /\ t.pc = "correlate" /\ t.flag = forbidden /\ t.out = out
  BY <1>3 DEF IsAnalysis
<1> QED BY <1>2, <1>4, <1>5, <1>6

\* v2 keeps what the evaluation has blocked.
LEMMA RescoreKeeps ==
  ASSUME Inv, NEW a \in Analyst, Rescore(a)
  PROVE  Inv'
<1>1. PICK s : s = analysis[a]
  OBVIOUS
<1>2. Knows(s) /\ s.pc = "rescore"
  BY <1>1, Current DEF Rescore, Is
<1>3. UNCHANGED <<scoringV2, tables, user>>
  BY DEF Rescore
<1>4. IsAnalysis(s) /\ s.entry # "approval" /\ s.held \subseteq FactsNow(s.spelling, s.tx)
  BY <1>2 DEF Knows, IsAnalysis, Watches
<1>5. s.entry = "dashboard" => "barred" \notin s.held /\ (Barred(s) => s.flag)
  BY <1>2 DEF Knows, Decided
<1>6. ASSUME NEW ruled \in BOOLEAN, NEW missed \in BOOLEAN, NEW t,
             t = [Rescored(s, ruled) EXCEPT !.missed = missed], missed \/ missed = s.missed
      PROVE  Knows(t)
  <2>1. PICK r : r = Rescored(s, ruled)
    OBVIOUS
  <2>2. /\ DOMAIN r = DOMAIN s /\ DOMAIN r.out = {"score", "band", "action"}
        /\ r.entry = s.entry /\ r.held = s.held /\ r.seen = s.seen
        /\ r.spelling = s.spelling /\ r.tx = s.tx /\ r.flag \in BOOLEAN /\ r.pc = "correlate"
        /\ s.flag => r.out.action = Reject
    BY <1>2, <1>4, <2>1, RescoredIs
  <2>3. /\ DOMAIN t = DOMAIN s /\ t.out = r.out
        /\ t.entry = s.entry /\ t.held = s.held /\ t.seen = s.seen
        /\ t.spelling = s.spelling /\ t.tx = s.tx /\ t.flag \in BOOLEAN /\ t.pc = "correlate"
        /\ t.missed = missed
    BY <1>4, <1>6, <2>1, <2>2 DEF IsAnalysis
  <2>4. IsAnalysis(t)
    BY <1>4, <2>2, <2>3 DEF IsAnalysis
  <2>5. Watches(t)
    BY <1>2, <2>3 DEF Knows, Watches
  <2>6. t.entry = "dashboard" /\ Barred(t) => t.out.action = Reject
    BY <1>5, <1>6, <2>2, <2>3 DEF Barred
  <2> QED BY <1>4, <2>3, <2>4, <2>5, <2>6 DEF Knows, Decided
<1>7. CASE Set(a, Rescored(s, RulesBlock(rules, s.spelling, s.tx)))
  <2>1. PICK ruled : ruled = RulesBlock(rules, s.spelling, s.tx)
    OBVIOUS
  <2>2. ruled \in BOOLEAN
    BY <2>1 DEF RulesBlock
  <2>3. PICK r : r = Rescored(s, ruled)
    OBVIOUS
  <2>4. r.missed = s.missed /\ s.missed \in BOOLEAN /\ DOMAIN r = DOMAIN s
    BY <1>2, <1>4, <2>2, <2>3, RescoredIs DEF IsAnalysis
  <2>5. r = [r EXCEPT !.missed = s.missed]
    BY <2>3, <2>4 DEF Rescored
  <2>6. Knows(r)
    BY <1>6, <2>2, <2>3, <2>4, <2>5
  <2> QED BY <1>3, <1>7, <2>1, <2>3, <2>6, Moved
<1>8. CASE Set(a, [Rescored(s, FALSE) EXCEPT !.missed = TRUE])
  <2>1. PICK t : t = [Rescored(s, FALSE) EXCEPT !.missed = TRUE]
    OBVIOUS
  <2>2. Knows(t)
    BY <1>6, <2>1
  <2> QED BY <1>3, <1>8, <2>1, <2>2, Moved
<1>9. CASE Set(a, None)
  BY <1>3, <1>9, Moved
<1> QED BY <1>1, <1>7, <1>8, <1>9 DEF Rescore, Fail

\* The correlation raises scores and never takes a rejection back.
LEMMA CorrelateKeeps ==
  ASSUME Inv, NEW a \in Analyst, Correlate(a)
  PROVE  Inv'
<1>1. PICK s : s = analysis[a]
  OBVIOUS
<1>2. Knows(s) /\ s.pc = "correlate"
  BY <1>1, Current DEF Correlate, Is
<1>3. UNCHANGED <<scoringV2, tables, user>>
  BY DEF Correlate
<1>4. IsAnalysis(s) /\ s.entry # "approval"
  BY <1>2 DEF Knows, IsAnalysis
<1> DEFINE after(out) == [s EXCEPT !.out = out,
                                  !.pc = IF s.entry = "extension" THEN "assess" ELSE "done"]
<1>5. ASSUME NEW out, DOMAIN out = {"score", "band", "action"},
             s.out.action = Reject => out.action = Reject,
             Set(a, after(out))
      PROVE  Inv'
  <2>1. PICK t : t = after(out)
    OBVIOUS
  <2>2. /\ DOMAIN t = DOMAIN s /\ t.out = out /\ t.entry = s.entry /\ t.held = s.held
        /\ t.seen = s.seen /\ t.spelling = s.spelling /\ t.tx = s.tx /\ t.flag = s.flag
        /\ t.missed = s.missed /\ t.pc = (IF s.entry = "extension" THEN "assess" ELSE "done")
    BY <1>4, <2>1 DEF IsAnalysis
  <2>3. IsAnalysis(t)
    BY <1>4, <1>5, <2>2 DEF IsAnalysis
  <2>4. Watches(t)
    BY <1>2, <2>2 DEF Knows, Watches
  <2>5. t.entry = "dashboard" /\ Barred(t) => t.out.action = Reject
    BY <1>2, <1>5, <2>2 DEF Knows, Decided, Barred
  <2>6. Knows(t)
    BY <1>4, <2>2, <2>3, <2>4, <2>5 DEF Knows, Decided
  <2> QED BY <1>3, <1>5, <2>1, <2>6, Moved
<1>6. CASE Set(a, after(s.out))
  BY <1>4, <1>5, <1>6 DEF IsAnalysis
<1>7. ASSUME NEW risk \in CorrelatedRisks, Set(a, after(Correlated(s, risk))) PROVE Inv'
  <2>1. PICK out : out = Correlated(s, risk)
    OBVIOUS
  <2>2. DOMAIN out = {"score", "band", "action"} /\ (s.out.action = Reject => out.action = Reject)
    BY <1>4, <2>1 DEF Correlated, IsAnalysis
  <2> QED BY <1>5, <1>7, <2>1, <2>2
<1> QED BY <1>1, <1>6, <1>7 DEF Correlate

\* The extension's assessment is not about the dashboard.
LEMMA AssessKeeps ==
  ASSUME Inv, NEW a \in Analyst, NEW ctx \in Ctxs, Assess(a, ctx)
  PROVE  Inv'
<1>1. PICK s : s = analysis[a]
  OBVIOUS
<1>2. Knows(s) /\ s.pc = "assess"
  BY <1>1, Current DEF Assess, Is
<1>3. UNCHANGED <<scoringV2, tables, user>>
  BY DEF Assess
<1>4. IsAnalysis(s) /\ s.entry = "extension"
  BY <1>2 DEF Knows, IsAnalysis
<1>5. PICK out : out = Elite(s.out.score, s.tx, ctx)
  OBVIOUS
<1>6. DOMAIN out = {"score", "band", "action"}
  BY <1>5 DEF Elite, Result
<1>7. PICK t : t = [s EXCEPT !.pc = "done", !.out = out]
  OBVIOUS
<1>8. IsAnalysis(t) /\ t.pc = "done" /\ t.entry = "extension"
  BY <1>4, <1>6, <1>7 DEF IsAnalysis
<1>9. Knows(t)
  BY <1>8 DEF Knows, Watches
<1> QED BY <1>1, <1>3, <1>5, <1>7, <1>9, Moved DEF Assess

-----------------------------------------------------------------------------
(* The ingest of an approval *)

\* Under the lock an approval is an alert at once.
LEMMA IngestKeeps ==
  ASSUME Inv, NEW a \in Analyst, NEW tx \in Txs, NEW spelling \in Spelling, Ingest(a, tx, spelling)
  PROVE  Inv'
<1> DEFINE row == OrDefault(settings)
<1>1. UNCHANGED <<scoringV2, tables, user>>
  BY DEF Ingest
<1>2. PICK s : s = Start("spender", "approval", tx, spelling, row.appr)
  OBVIOUS
<1>3. IsAnalysis(s) /\ Watches(s)
  BY <1>2, Fresh
<1>4. /\ s.pc = "spender" /\ s.entry = "approval" /\ s.flag = FALSE /\ s.first = row.appr
      /\ s.tx = tx /\ s.spelling = spelling
      /\ s.held = FactsNow(spelling, tx) /\ s.seen = FactsNow(spelling, tx)
  BY <1>2 DEF Start
<1>5. /\ "lock" \in FactsNow(spelling, tx) <=> row.lock
      /\ "appr" \in FactsNow(spelling, tx) <=> row.appr
  BY FactsAre
<1>6. CASE row.lock /\ Set(a, [s EXCEPT !.pc = "alert", !.out = [@ EXCEPT !.score = 100]])
  <2>1. PICK t : t = [s EXCEPT !.pc = "alert", !.out = [@ EXCEPT !.score = 100]]
    OBVIOUS
  <2>2. IsAnalysis(t) /\ Watches(t)
    BY <1>3, <1>4, <2>1 DEF IsAnalysis, Watches
  <2>3. t.pc = "alert" /\ t.entry = "approval" /\ t.seen = s.seen
    BY <1>3, <1>4, <2>1 DEF IsAnalysis
  <2>4. "lock" \in t.seen
    BY <1>4, <1>5, <1>6, <2>3
  <2>5. Knows(t)
    BY <2>2, <2>3, <2>4 DEF Knows, Alerted, AlertSeen
  <2> QED BY <1>1, <1>6, <2>1, <2>5, Moved
<1>7. CASE ~row.lock /\ Set(a, s)
  <2>1. Alerted(s)
    BY <1>4, <1>5, <1>7 DEF Alerted, AlertSeen
  <2>2. Knows(s)
    BY <1>3, <1>4, <2>1 DEF Knows
  <2> QED BY <1>1, <1>7, <2>2, Moved
<1> QED BY <1>2, <1>6, <1>7 DEF Ingest

\* The spender: what all along made an alert of the approval is found, unless the
\* read fails.
LEMMA ReadSpenderKeeps ==
  ASSUME Inv, NEW a \in Analyst, ReadSpender(a)
  PROVE  Inv'
<1>1. PICK s : s = analysis[a]
  OBVIOUS
<1>2. Knows(s) /\ s.pc = "spender"
  BY <1>1, Current DEF ReadSpender, Is
<1>3. UNCHANGED <<scoringV2, tables, user>>
  BY DEF ReadSpender
<1>4. IsAnalysis(s) /\ s.entry = "approval" /\ s.held \subseteq FactsNow(s.spelling, s.tx)
  BY <1>2 DEF Knows, IsAnalysis, Watches
<1>5. /\ "lock" \notin s.held /\ ~s.flag /\ ("appr" \in s.held => s.first)
      /\ (s.first => "appr" \in s.seen)
  BY <1>2, <1>4 DEF Knows, Alerted, AlertSeen
<1> DEFINE scored(score) == [s EXCEPT !.out = [@ EXCEPT !.score = score],
                               !.pc = IF s.first /\ score >= 50 THEN "alert" ELSE "done"]
           found(score) == (s.tx.call = "unlimited" \/ "contract" \in s.held) => score >= 50
           Scored(t, score) ==
             /\ DOMAIN t = DOMAIN s /\ t.entry = s.entry /\ t.held = s.held /\ t.seen = s.seen
             /\ t.spelling = s.spelling /\ t.tx = s.tx /\ t.flag = s.flag
             /\ t.pc = (IF s.first /\ score >= 50 THEN "alert" ELSE "done")
             /\ DOMAIN t.out = DOMAIN s.out /\ t.missed \in BOOLEAN
           risky(score) == score >= 50 => s.tx.call = "unlimited" \/ "contract" \in s.seen
<1>6. ASSUME NEW score, NEW t, Scored(t, score), t.missed \/ found(score), risky(score)
      PROVE  Knows(t)
  <2>2. IsAnalysis(t)
    BY <1>4, <1>6 DEF IsAnalysis
  <2>3. Watches(t)
    BY <1>2, <1>6 DEF Knows, Watches
  <2>4. Alerted(t)
    <3>1. CASE t.pc = "alert"
      BY <1>5, <1>6, <3>1 DEF Alerted, AlertSeen
    <3>2. CASE t.pc = "done"
      <4>1. Wanted(t) => t.missed
        BY <1>5, <1>6, <3>2 DEF Wanted
      <4> QED BY <1>5, <1>6, <3>2, <4>1 DEF Alerted, AlertSeen
    <3> QED BY <1>6, <3>1, <3>2
  <2> QED BY <1>4, <1>6, <2>2, <2>3, <2>4 DEF Knows
<1>7. CASE Set(a, scored(ApprovalScore(blocked, s.spelling, s.tx)))
  <2>1. PICK score : score = ApprovalScore(blocked, s.spelling, s.tx)
    OBVIOUS
  <2>2. found(score)
    BY <1>4, <2>1, FactsAre DEF ApprovalScore
  <2>3. PICK t : t = scored(score)
    OBVIOUS
  <2>4. Scored(t, score)
    BY <1>4, <2>3 DEF IsAnalysis
  <2>6. risky(score)
    <3>1. FactsNow(s.spelling, s.tx) \subseteq s.seen
      BY <1>2 DEF Knows, Watches
    <3> QED BY <2>1, <3>1, FactsAre DEF ApprovalScore
  <2> HIDE DEF scored, found, Scored, risky
  <2>5. Knows(t)
    BY <1>6, <2>2, <2>4, <2>6
  <2> QED BY <1>3, <1>7, <2>1, <2>3, <2>5, Moved
<1>8. CASE Set(a, [scored(ApprovalScore({}, s.spelling, s.tx)) EXCEPT !.missed = TRUE])
  <2>1. PICK score : score = ApprovalScore({}, s.spelling, s.tx)
    OBVIOUS
  <2>2. PICK t : t = [scored(score) EXCEPT !.missed = TRUE]
    OBVIOUS
  <2>3. Scored(t, score)
    BY <1>4, <2>2 DEF IsAnalysis
  <2>4. t.missed
    BY <1>4, <2>2 DEF IsAnalysis
  <2>6. risky(score)
    BY <2>1 DEF ApprovalScore
  <2> HIDE DEF scored, found, Scored, risky
  <2>5. Knows(t)
    BY <1>6, <2>3, <2>4, <2>6
  <2> QED BY <1>3, <1>8, <2>1, <2>2, <2>5, Moved
<1> QED BY <1>1, <1>7, <1>8 DEF ReadSpender

\* The alert is stored, or its call fails.
LEMMA CreateAlertKeeps ==
  ASSUME Inv, NEW a \in Analyst, CreateAlert(a)
  PROVE  Inv'
<1>1. PICK s : s = analysis[a]
  OBVIOUS
<1>2. Knows(s) /\ s.pc = "alert"
  BY <1>1, Current DEF CreateAlert, Is
<1>3. UNCHANGED <<scoringV2, tables, user>>
  BY DEF CreateAlert
<1>4. IsAnalysis(s) /\ s.entry = "approval" /\ AlertSeen(s)
  BY <1>2 DEF Knows, IsAnalysis, Alerted
<1>5. CASE Set(a, [s EXCEPT !.pc = "done", !.flag = TRUE])
  <2>1. PICK t : t = [s EXCEPT !.pc = "done", !.flag = TRUE]
    OBVIOUS
  <2>2. IsAnalysis(t) /\ t.pc = "done" /\ t.entry = "approval" /\ t.flag = TRUE /\ t.seen = s.seen /\ t.tx = s.tx
    BY <1>4, <2>1 DEF IsAnalysis
  <2>3. Knows(t)
    BY <1>4, <2>2 DEF Knows, Watches, Alerted, AlertSeen
  <2> QED BY <1>3, <1>5, <2>1, <2>3, Moved
<1>6. CASE Set(a, [s EXCEPT !.pc = "done", !.missed = TRUE])
  <2>1. PICK t : t = [s EXCEPT !.pc = "done", !.missed = TRUE]
    OBVIOUS
  <2>2. IsAnalysis(t) /\ t.pc = "done" /\ t.entry = "approval" /\ t.missed = TRUE /\ t.seen = s.seen /\ t.tx = s.tx
    BY <1>4, <2>1 DEF IsAnalysis
  <2>3. Knows(t)
    BY <1>4, <2>2 DEF Knows, Watches, Alerted, AlertSeen
  <2> QED BY <1>3, <1>6, <2>1, <2>3, Moved
<1> QED BY <1>1, <1>5, <1>6 DEF CreateAlert
\* The answer is sent.
LEMMA AnswerKeeps ==
  ASSUME Inv, NEW a \in Analyst, Answer(a)
  PROVE  Inv'
<1>1. UNCHANGED <<scoringV2, tables, user>>
  BY DEF Answer
<1>2. Set(a, None)
  BY DEF Answer
<1> QED BY <1>1, <1>2, Moved

\* A step of an analysis keeps the invariant.
LEMMA AnalysisStepKeeps ==
  ASSUME Inv, NEW a \in Analyst, AnalysisStep(a)
  PROVE  Inv'
BY AnalyseKeeps, ChargeKeeps, ReadOwnKeeps, EvaluateKeeps, ReadBlockedKeeps, ReadRulesKeeps,
   RescoreKeeps, CorrelateKeeps, AssessKeeps, IngestKeeps, ReadSpenderKeeps, CreateAlertKeeps,
   AnswerKeeps DEF AnalysisStep

-----------------------------------------------------------------------------
(* Steps of a user *)

\* What an analysis has decided does not rest on the tables, and of what it watched
\* only what still holds stays held.
LEMMA Observed ==
  ASSUME Inv, Observe
  PROVE  Analyses'
<1>1. ASSUME NEW a \in Analyst, analysis'[a] # None PROVE Knows(analysis[a])'
  <2>1. PICK s : s = analysis[a]
    OBVIOUS
  <2>2. PICK now : now = Facts(settings', rules', blocked', s.spelling, s.tx)
    OBVIOUS
  <2>3. PICK t : t = Watched(s, now)
    OBVIOUS
  <2>4. s # None /\ s.pc # "done" /\ analysis'[a] = t
    BY <1>1, <2>1, <2>2, <2>3 DEF Observe
  <2>5. IsAnalysis(s) /\ (s.entry = "dashboard" => Decided(s)) /\ (s.entry = "approval" => Alerted(s))
    BY <2>1, <2>4, Current DEF Knows
  <2>6. /\ DOMAIN t = DOMAIN s /\ t.pc = s.pc /\ t.entry = s.entry /\ t.tx = s.tx
        /\ t.spelling = s.spelling /\ t.out = s.out /\ t.flag = s.flag /\ t.first = s.first
        /\ t.missed = s.missed
        /\ t.held = s.held \cap now /\ t.seen = s.seen \cup now
    BY <2>3, <2>5 DEF Watched, IsAnalysis
  <2>7. now \subseteq FactNames
    BY <2>2 DEF Facts, FactNames
  <2>8. IsAnalysis(t)
    BY <2>5, <2>6, <2>7 DEF IsAnalysis
  <2>9. Decided(s) => Decided(t)
    BY <2>4, <2>6 DEF Decided, Barred
  <2>10. Alerted(s) => Alerted(t)
    BY <2>4, <2>6 DEF Alerted, AlertSeen
  <2>11. Watches(t)'
    BY <2>2, <2>6 DEF Watches, FactsNow
  <2>12. Knows(t)'
    BY <2>5, <2>6, <2>8, <2>9, <2>10, <2>11 DEF Knows, IsAnalysis, Decided, Alerted, AlertSeen, Barred, Wanted
  <2> QED BY <2>4, <2>12
<1> QED BY <1>1 DEF Observe, Analyses

\* The whitelist in use.
LEMMA RowWhite ==
  ASSUME Inv
  PROVE  OrDefault(settings).white \in SUBSET Contract
<1>1. "white" \in Fields
  BY DEF Fields
<1>2. Default["white"] = {}
  BY <1>1 DEF Default
<1>3. settings # None => settings["white"] \in SUBSET Contract
  BY <1>1 DEF Inv, Tables, IsSettings, IsWish
<1> QED BY <1>2, <1>3 DEF OrDefault

\* Merged toggles.
LEMMA Merges ==
  ASSUME Inv, NEW ask, IsWish(ask)
  PROVE  Merge(ask, settings) \in [Toggles -> BOOLEAN]
<1>1. ASSUME NEW f \in Toggles PROVE (IF f \in DOMAIN ask THEN ask[f] ELSE OrDefault(settings)[f]) \in BOOLEAN
  <2>1. f # "white"
    BY DEF Toggles
  <2>2. f \in DOMAIN ask => ask[f] \in BOOLEAN
    BY <2>1 DEF IsWish
  <2>3. OrDefault(settings)[f] \in BOOLEAN
    BY RowToggles
  <2> QED BY <2>2, <2>3
<1> QED BY <1>1 DEF Merge

\* A step of a user that leaves the tables only has to leave a request or none.
LEMMA Asked ==
  ASSUME Inv, NEW u \in User, NEW r, user' = [user EXCEPT ![u] = r], r = None \/ IsRequest(r),
         UNCHANGED <<scoringV2, tables>>, Observe
  PROVE  Inv'
<1>1. UNCHANGED <<scoringV2, settings, autoScan, rules, blocked>>
  BY DEF tables
<1>2. user' = [v \in User |-> IF v = u THEN r ELSE user[v]]
  BY DEF Inv, Tables
<1>3. user' = [v \in User |-> user'[v]]
  BY <1>2
<1>4. \A v \in User : user'[v] = None \/ IsRequest(user'[v])
  BY <1>2 DEF Inv, Tables
<1>5. Tables'
  BY <1>1, <1>3, <1>4 DEF Inv, Tables, IsRequest, IsMerging
<1> QED BY <1>5, Observed DEF Inv

\* A new request of the settings.
LEMMA RequestKeeps ==
  ASSUME Inv, NEW u \in User, NEW kind \in {"update", "lock", "freeze"}, NEW ask, IsWish(ask),
         NEW lock, lock = None \/ lock \in BOOLEAN,
         NEW white, white = None \/ white \in SUBSET Contract,
         Request(u, kind, ask, Merge(ask, settings), lock, white)
  PROVE  Inv'
<1>1. PICK r : r = [pc |-> IF lock = None /\ white = None THEN "reread" ELSE "upsert",
                    kind |-> kind, ask |-> ask, toggles |-> Merge(ask, settings),
                    lock |-> lock, white |-> white]
  OBVIOUS
<1>2. IsMerging(r)
  BY <1>1, Merges DEF IsMerging
<1>3. user' = [user EXCEPT ![u] = r]
  BY <1>1 DEF Request
<1>4. UNCHANGED <<scoringV2, tables>> /\ Observe
  BY DEF Request
<1> QED BY <1>2, <1>3, <1>4, Asked DEF IsRequest

\* PUT /settings keeps the invariant.
LEMMA BeginUpdateKeeps ==
  ASSUME Inv, NEW u \in User, NEW ask \in Asks, BeginUpdate(u, ask)
  PROVE  Inv'
<1> DEFINE asked(f) == IF f \in DOMAIN ask THEN ask[f] ELSE IF settings = None THEN None ELSE settings[f]
<1>1. IsWish(ask)
  BY AsksAssumption
<1>2. "lock" \in Fields /\ "white" \in Fields
  BY DEF Fields
<1>3. asked("lock") = None \/ asked("lock") \in BOOLEAN
  BY <1>1, <1>2 DEF Inv, Tables, IsSettings, IsWish
<1>4. asked("white") = None \/ asked("white") \in SUBSET Contract
  BY <1>1, <1>2 DEF Inv, Tables, IsSettings, IsWish
<1>5. Request(u, "update", ask, Merge(ask, settings), asked("lock"), asked("white"))
  BY DEF BeginUpdate
<1> HIDE DEF asked
<1> QED BY <1>1, <1>3, <1>4, <1>5, RequestKeeps

\* POST /emergency-lock keeps the invariant.
LEMMA BeginLockKeeps ==
  ASSUME Inv, NEW u \in User, NEW lock \in BOOLEAN, NEW white \in {None} \cup SUBSET Contract,
         BeginLock(u, lock, white)
  PROVE  Inv'
<1>1. PICK ask : ask = IF white = None THEN [lock |-> lock] ELSE [lock |-> lock, white |-> white]
  OBVIOUS
<1>2. IsWish(ask)
  <2>1. CASE white = None
    <3>1. DOMAIN ask = {"lock"} /\ ask["lock"] = lock
      BY <1>1, <2>1
    <3> QED BY <3>1 DEF IsWish, Fields
  <2>2. CASE white # None
    <3>1. DOMAIN ask = {"lock", "white"} /\ ask["lock"] = lock /\ ask["white"] = white
      BY <1>1, <2>2
    <3> QED BY <2>2, <3>1 DEF IsWish, Fields
  <2> QED BY <2>1, <2>2
<1>3. PICK w : w = IF white = None THEN OrDefault(settings).white ELSE white
  OBVIOUS
<1>4. w \in SUBSET Contract
  BY <1>3, RowWhite
<1>5. Request(u, "lock", ask, Merge(ask, settings), lock, w)
  BY <1>1, <1>3 DEF BeginLock
<1>6. lock = None \/ lock \in BOOLEAN
  OBVIOUS
<1> QED BY <1>2, <1>4, <1>5, <1>6, RequestKeeps

\* POST /emergency-freeze keeps the invariant.
LEMMA BeginFreezeKeeps ==
  ASSUME Inv, NEW u \in User, NEW freeze \in BOOLEAN, BeginFreeze(u, freeze)
  PROVE  Inv'
<1>1. PICK ask : ask = IF freeze THEN [lock |-> TRUE, block |-> TRUE] ELSE [lock |-> FALSE]
  OBVIOUS
<1>2. IsWish(ask)
  <2>1. CASE freeze
    <3>1. DOMAIN ask = {"lock", "block"} /\ ask["lock"] = TRUE /\ ask["block"] = TRUE
      BY <1>1, <2>1
    <3> QED BY <3>1 DEF IsWish, Fields, Toggles
  <2>2. CASE ~freeze
    <3>1. DOMAIN ask = {"lock"} /\ ask["lock"] = FALSE
      BY <1>1, <2>2
    <3> QED BY <3>1 DEF IsWish, Fields, Toggles
  <2> QED BY <2>1, <2>2
<1>3. PICK w : w = OrDefault(settings).white
  OBVIOUS
<1>4. w \in SUBSET Contract
  BY <1>3, RowWhite
<1>5. Request(u, "freeze", ask, Merge(ask, settings), freeze, w)
  BY <1>1, <1>3 DEF BeginFreeze
<1>6. freeze = None \/ freeze \in BOOLEAN
  OBVIOUS
<1> QED BY <1>2, <1>4, <1>5, <1>6, RequestKeeps

\* The request that is at a place of a merge.
LEMMA Merging ==
  ASSUME Inv, NEW u \in User, At(u, "reread") \/ At(u, "upsert") \/ At(u, "scan")
  PROVE  IsMerging(user[u])
BY DEF Inv, Tables, At, IsRequest

\* The second read of the row.
LEMMA RereadKeeps ==
  ASSUME Inv, NEW u \in User, Reread(u)
  PROVE  Inv'
<1>1. PICK s : s = user[u]
  OBVIOUS
<1>2. IsMerging(s)
  BY <1>1, Merging DEF Reread
<1>3. UNCHANGED <<scoringV2, tables>> /\ Observe
  BY DEF Reread
<1>4. CASE user' = [user EXCEPT ![u].pc = "upsert", ![u].lock = OrDefault(settings).lock,
                                ![u].white = OrDefault(settings).white]
  <2>1. PICK r : r = [s EXCEPT !.pc = "upsert", !.lock = OrDefault(settings).lock,
                               !.white = OrDefault(settings).white]
    OBVIOUS
  <2>2. OrDefault(settings).lock \in BOOLEAN /\ OrDefault(settings).white \in SUBSET Contract
    BY RowToggles, RowWhite
  <2>3. IsMerging(r)
    BY <1>2, <2>1, <2>2 DEF IsMerging
  <2>4. user' = [user EXCEPT ![u] = r]
    BY <1>1, <1>4, <2>1 DEF Inv, Tables
  <2> QED BY <1>3, <2>3, <2>4, Asked DEF IsRequest
<1>5. CASE user' = [user EXCEPT ![u] = None]
  BY <1>3, <1>5, Asked
<1> QED BY <1>4, <1>5 DEF Reread, Abort

\* A row that is written.
LEMMA WrittenIs ==
  ASSUME NEW r, IsMerging(r)
  PROVE  IsSettings(Written(r))
<1>1. ASSUME NEW f \in Fields PROVE Written(r)[f] \in (IF f = "white" THEN SUBSET Contract ELSE BOOLEAN)
  <2>1. f # "lock" /\ f # "white" => r.toggles[f] \in BOOLEAN
    BY DEF IsMerging, Fields
  <2> QED BY <2>1 DEF Written, IsMerging
<1>2. DOMAIN Written(r) = Fields
  BY DEF Written
<1> QED BY <1>1, <1>2 DEF IsSettings, IsWish

\* The requests after a step that moves or drops one of them.
LEMMA OthersKeep ==
  ASSUME Inv, NEW u \in User, NEW r, user' = [user EXCEPT ![u] = r], r = None \/ IsRequest(r)
  PROVE  /\ user' = [v \in User |-> user'[v]]
         /\ \A v \in User : user'[v] = None \/ IsRequest(user'[v])
<1>1. user' = [v \in User |-> IF v = u THEN r ELSE user[v]]
  BY DEF Inv, Tables
<1> QED BY <1>1 DEF Inv, Tables

\* The write of the settings.
LEMMA UpsertKeeps ==
  ASSUME Inv, NEW u \in User, Upsert(u)
  PROVE  Inv'
<1>1. PICK s : s = user[u]
  OBVIOUS
<1>2. IsMerging(s)
  BY <1>1, Merging DEF Upsert
<1>3. scoringV2' = scoringV2 /\ Observe
  BY DEF Upsert
<1>4. CASE user' = [user EXCEPT ![u] = None] /\ UNCHANGED tables
  BY <1>3, <1>4, Asked
<1>5. CASE settings' = Written(s) /\ UNCHANGED <<autoScan, rules, blocked>>
  <2>1. PICK r : r = IF s.kind = "update" THEN [s EXCEPT !.pc = "scan"] ELSE None
    OBVIOUS
  <2>2. r = None \/ IsRequest(r)
    BY <1>2, <2>1 DEF IsMerging, IsRequest
  <2>3. user' = [user EXCEPT ![u] = r] \/ (user' = [user EXCEPT ![u] = None] /\ UNCHANGED tables)
    BY <1>1, <2>1 DEF Upsert, Abort, Inv, Tables
  <2>4. CASE user' = [user EXCEPT ![u] = r]
    <3>1. user' = [v \in User |-> user'[v]] /\ \A v \in User : user'[v] = None \/ IsRequest(user'[v])
      BY <2>2, <2>4, OthersKeep
    <3>2. IsSettings(settings')
      BY <1>2, <1>5, WrittenIs
    <3>3. Tables'
      BY <1>3, <1>5, <3>1, <3>2 DEF Inv, Tables, IsRequest, IsMerging, IsSettings
    <3> QED BY <1>3, <3>3, Observed DEF Inv
  <2> QED BY <1>4, <2>3, <2>4
<1> QED BY <1>1, <1>4, <1>5 DEF Upsert, Abort

\* The write of the auto-scan row.
LEMMA UpsertAutoScanKeeps ==
  ASSUME Inv, NEW u \in User, UpsertAutoScan(u)
  PROVE  Inv'
<1>1. IsMerging(user[u])
  BY Merging DEF UpsertAutoScan
<1>2. UNCHANGED <<scoringV2, settings, rules, blocked>> /\ Observe /\ user' = [user EXCEPT ![u] = None]
  BY DEF UpsertAutoScan, Abort
<1>3. autoScan' \in BOOLEAN \cup {None}
  BY <1>1 DEF UpsertAutoScan, IsMerging, Toggles, Inv, Tables
<1>4. user' = [v \in User |-> user'[v]] /\ \A v \in User : user'[v] = None \/ IsRequest(user'[v])
  BY <1>2, OthersKeep
<1>5. Tables'
  BY <1>2, <1>3, <1>4 DEF Inv, Tables, IsRequest, IsMerging
<1> QED BY <1>2, <1>5, Observed DEF Inv

\* A step that only changes the rules or the blocked contracts.
LEMMA Listed ==
  ASSUME Inv, Observe, UNCHANGED <<scoringV2, settings, autoScan>>,
         rules' \in [RuleId -> Rules \cup {None}], blocked' \subseteq Spelling \X Contract,
         user' = [v \in User |-> user'[v]], \A v \in User : user'[v] = None \/ IsRequest(user'[v])
  PROVE  Inv'
<1>1. Tables'
  BY DEF Inv, Tables, IsRequest, IsMerging
<1> QED BY <1>1, Observed DEF Inv

\* A rule is created.
LEMMA CreateRuleKeeps ==
  ASSUME Inv, NEW u \in User, NEW id \in RuleId, NEW spelling \in Spelling,
         NEW kind \in {"unlimited", "usd"}, NEW limit \in Limits,
         CreateRule(u, id, spelling, kind, limit)
  PROVE  Inv'
<1>1. [spelling |-> spelling, kind |-> kind, limit |-> limit, enabled |-> TRUE] \in Rules
  BY DEF Rules
<1>2. rules' \in [RuleId -> Rules \cup {None}]
  BY <1>1 DEF CreateRule, Inv, Tables
<1>3. UNCHANGED <<scoringV2, settings, autoScan, blocked, user>> /\ Observe
  BY DEF CreateRule
<1> QED BY <1>2, <1>3, Listed DEF Inv, Tables

\* A rule is read for its update.
LEMMA ReadRuleKeeps ==
  ASSUME Inv, NEW u \in User, NEW id \in RuleId, NEW spelling \in Spelling,
         NEW enabled \in BOOLEAN \cup {None}, NEW limit \in Limits \cup {None},
         ReadRule(u, id, spelling, enabled, limit)
  PROVE  Inv'
<1>1. rules[id] \in Rules
  BY DEF ReadRule, Inv, Tables
<1>2. PICK rule : rule = [rules[id] EXCEPT !.enabled = IF enabled = None THEN @ ELSE enabled,
                                           !.limit = IF limit = None THEN @ ELSE limit]
  OBVIOUS
<1>3. rule \in Rules
  BY <1>1, <1>2 DEF Rules
<1>4. PICK r : r = [pc |-> "rule", id |-> id, rule |-> rule]
  OBVIOUS
<1>5. IsRequest(r)
  BY <1>3, <1>4 DEF IsRequest
<1>6. user' = [user EXCEPT ![u] = r]
  BY <1>2, <1>4 DEF ReadRule
<1>7. UNCHANGED <<scoringV2, tables>> /\ Observe
  BY DEF ReadRule
<1> QED BY <1>5, <1>6, <1>7, Asked

\* The merged rule is written, unless the rule is gone.
LEMMA WriteRuleKeeps ==
  ASSUME Inv, NEW u \in User, WriteRule(u)
  PROVE  Inv'
<1>1. user[u] \in [pc : {"rule"}, id : RuleId, rule : Rules]
  BY DEF WriteRule, At, Inv, Tables, IsRequest, IsMerging
<1>2. rules' \in [RuleId -> Rules \cup {None}]
  BY <1>1 DEF WriteRule, Inv, Tables
<1>3. UNCHANGED <<scoringV2, settings, autoScan, blocked>> /\ Observe /\ user' = [user EXCEPT ![u] = None]
  BY DEF WriteRule, Abort
<1>4. user' = [v \in User |-> user'[v]] /\ \A v \in User : user'[v] = None \/ IsRequest(user'[v])
  BY <1>3, OthersKeep
<1> QED BY <1>2, <1>3, <1>4, Listed DEF Inv, Tables

\* A rule is deleted.
LEMMA DeleteRuleKeeps ==
  ASSUME Inv, NEW u \in User, NEW id \in RuleId, NEW spelling \in Spelling,
         DeleteRule(u, id, spelling)
  PROVE  Inv'
<1>1. rules' \in [RuleId -> Rules \cup {None}]
  BY DEF DeleteRule, Inv, Tables
<1>2. UNCHANGED <<scoringV2, settings, autoScan, blocked, user>> /\ Observe
  BY DEF DeleteRule
<1> QED BY <1>1, <1>2, Listed DEF Inv, Tables

\* A contract is blocked or let free.
LEMMA BlockKeeps ==
  ASSUME Inv, NEW u \in User, NEW spelling \in Spelling, NEW c \in Contract,
         BlockContract(u, spelling, c) \/ UnblockContract(u, spelling, c)
  PROVE  Inv'
<1>1. blocked' \subseteq Spelling \X Contract
  BY DEF BlockContract, UnblockContract, Inv, Tables
<1>2. UNCHANGED <<scoringV2, settings, autoScan, rules, user>> /\ Observe
  BY DEF BlockContract, UnblockContract
<1> QED BY <1>1, <1>2, Listed DEF Inv, Tables

\* A step of a user keeps the invariant.
LEMMA UserStepKeeps ==
  ASSUME Inv, NEW u \in User, UserStep(u)
  PROVE  Inv'
BY BeginUpdateKeeps, BeginLockKeeps, BeginFreezeKeeps, RereadKeeps, UpsertKeeps,
   UpsertAutoScanKeeps, CreateRuleKeeps, ReadRuleKeeps, WriteRuleKeeps, DeleteRuleKeeps,
   BlockKeeps DEF UserStep

-----------------------------------------------------------------------------
(* The theorems *)

\* The invariant holds of the initial states.
LEMMA InitInv ==
  ASSUME Init
  PROVE  Inv
<1>1. IsSettings(Default)
  <2>1. DOMAIN Default = Fields
    BY DEF Default
  <2>2. ASSUME NEW f \in Fields
        PROVE  Default[f] \in (IF f = "white" THEN SUBSET Contract ELSE BOOLEAN)
    <3>1. CASE f = "white"
      <4>1. Default[f] = {}
        BY <3>1 DEF Default
      <4> QED BY <3>1, <4>1
    <3>2. CASE f # "white"
      <4>1. Default[f] = (f \in {"auto", "warn", "appr", "dapp"})
        BY <3>2 DEF Default
      <4> QED BY <3>2, <4>1
    <3> QED BY <3>1, <3>2
  <2> QED BY <2>1, <2>2 DEF IsSettings, IsWish
<1>2. Tables
  BY <1>1 DEF Init, Tables
<1>3. Analyses
  BY DEF Init, Analyses
<1> QED BY <1>2, <1>3 DEF Inv

\* A step that changes no variable keeps the invariant.
LEMMA StutterKeeps ==
  ASSUME Inv, UNCHANGED vars
  PROVE  Inv'
<1>1. UNCHANGED <<scoringV2, settings, autoScan, rules, blocked, user, analysis>>
  BY DEF vars
<1>2. Tables'
  BY <1>1 DEF Inv, Tables, IsRequest, IsMerging
<1>3. Analyses'
  BY <1>1 DEF Inv, Analyses, Knows, Watches, FactsNow, Facts, Decided, Alerted, AlertSeen, Barred, Wanted, IsAnalysis
<1> QED BY <1>2, <1>3 DEF Inv

\* The invariant of every theorem below: what every analysis knows is true of the
\* tables it reads.
THEOREM InvHolds == Spec => []Inv
<1>1. Init => Inv
  BY InitInv
<1>2. Inv /\ [Next]_vars => Inv'
  BY UserStepKeeps, AnalysisStepKeeps, StutterKeeps DEF Next
<1> QED BY <1>1, <1>2, PTL DEF Spec

\* Every row, request and analysis has the shape its handler gives it.
THEOREM TypeHolds == Spec => []TypeOK
<1>1. Inv => TypeOK
  BY DEF Inv, Tables, Analyses, Knows, TypeOK
<1> QED BY <1>1, InvHolds, PTL

\* An analysis of the dashboard rejects what a lock, a rule or a blocked contract
\* forbade all along, however the requests of users interleave with its reads.
THEOREM ForbiddenHolds == Spec => []ForbiddenIsRejected
<1>1. Inv => ForbiddenIsRejected
  BY DEF Inv, Analyses, ForbiddenIsRejected, Answered, Is, Knows, Decided
<1> QED BY <1>1, InvHolds, PTL

\* With the alerts on all along, the ingest of an approval stores the alert that the
\* lock or its risk asked for all along, and none that nothing asked for at any time.
THEOREM AlertedHolds == Spec => []ApprovalAlerted
<1>1. Inv => ApprovalAlerted
  BY DEF Inv, Analyses, ApprovalAlerted, Answered, Is, Knows, Alerted, Wanted
<1> QED BY <1>1, InvHolds, PTL

-----------------------------------------------------------------------------
(* One user at a time: a write changes what was asked for *)

\* What a merging request is about to write, of the row as it is now.
Faithful(r) ==
  /\ \A f \in Toggles : r.toggles[f] = IF f \in DOMAIN r.ask THEN r.ask[f] ELSE OrDefault(settings)[f]
  /\ r.pc = "reread" => settings = None /\ {"lock", "white"} \cap DOMAIN r.ask = {}
  /\ r.pc = "upsert" => \A f \in Fields : Written(r)[f] = IF f \in DOMAIN r.ask THEN r.ask[f]
                                                         ELSE OrDefault(settings)[f]

Careful == \A u \in User : user[u] # None /\ user[u].pc \in {"reread", "upsert"} => Faithful(user[u])

\* What is written of a request that knows its lock and its whitelist.
LEMMA WritesWhatItHolds ==
  ASSUME Inv, NEW r, IsMerging(r), r.pc = "upsert",
         \A f \in Toggles : r.toggles[f] = IF f \in DOMAIN r.ask THEN r.ask[f] ELSE OrDefault(settings)[f],
         (r.lock = TRUE) = IF "lock" \in DOMAIN r.ask THEN r.ask["lock"] ELSE OrDefault(settings)["lock"],
         (IF r.white = None THEN {} ELSE r.white)
            = IF "white" \in DOMAIN r.ask THEN r.ask["white"] ELSE OrDefault(settings)["white"]
  PROVE  Faithful(r)
<1>1. ASSUME NEW f \in Fields
      PROVE  Written(r)[f] = IF f \in DOMAIN r.ask THEN r.ask[f] ELSE OrDefault(settings)[f]
  <2>1. f \in Toggles \/ f = "lock" \/ f = "white"
    BY DEF Fields
  <2>2. f \in Toggles => Written(r)[f] = r.toggles[f]
    BY DEF Toggles, Written
  <2>3. f = "lock" => Written(r)[f] = (r.lock = TRUE)
    BY DEF Written
  <2>4. f = "white" => Written(r)[f] = IF r.white = None THEN {} ELSE r.white
    BY DEF Written
  <2> QED BY <2>1, <2>2, <2>3, <2>4
<1> QED BY <1>1 DEF Faithful

\* With one user, a step that leaves the settings and a request that knows them.
LEMMA StaysCareful ==
  ASSUME Inv, \A u, v \in User : u = v, NEW u \in User, NEW r,
         user' = [user EXCEPT ![u] = r], settings' = settings,
         r # None /\ r.pc \in {"reread", "upsert"} => Faithful(r)
  PROVE  Careful'
<1>1. user' = [v \in User |-> IF v = u THEN r ELSE user[v]]
  BY DEF Inv, Tables
<1>2. ASSUME NEW v \in User, user'[v] # None, user'[v].pc \in {"reread", "upsert"}
      PROVE  Faithful(user[v])'
  <2>1. user'[v] = r
    BY <1>1
  <2>2. Faithful(r)
    BY <1>2, <2>1
  <2>3. Faithful(r)'
    BY <2>2 DEF Faithful, Written, OrDefault
  <2> QED BY <2>1, <2>3
<1> QED BY <1>2 DEF Careful

\* A step that changes neither the settings nor a request.
LEMMA LeavesCareful ==
  ASSUME Careful, UNCHANGED <<settings, user>>
  PROVE  Careful'
BY DEF Careful, Faithful, Written, OrDefault

\* An analysis changes neither.
LEMMA AnalysesOnlyRead ==
  ASSUME NEW a \in Analyst, AnalysisStep(a)
  PROVE  UNCHANGED <<settings, user>>
BY DEF AnalysisStep, Analyse, Charge, ReadOwn, Evaluate, ReadBlocked, ReadRules, Rescore, Correlate,
       Assess, Ingest, ReadSpender, CreateAlert, Answer, tables

\* The defaults of the lock and of the whitelist.
LEMMA Defaults == Default["lock"] = FALSE /\ Default["white"] = {}
<1>1. "lock" \in Fields /\ "white" \in Fields
  BY DEF Fields
<1>2. Default["lock"] = ("lock" \in {"auto", "warn", "appr", "dapp"})
  BY <1>1 DEF Default
<1>3. Default["white"] = {}
  BY <1>1 DEF Default
<1>4. ("lock" \in {"auto", "warn", "appr", "dapp"}) = FALSE
  OBVIOUS
<1> QED BY <1>2, <1>3, <1>4

\* A new request knows the row: what it neither asks for nor finds, the row has not.
LEMMA BeginsCareful ==
  ASSUME Inv, \A u, v \in User : u = v, NEW u \in User,
         NEW kind \in {"update", "lock", "freeze"}, NEW ask, IsWish(ask),
         NEW lock, lock = None \/ lock \in BOOLEAN,
         NEW white, white = None \/ white \in SUBSET Contract,
         Request(u, kind, ask, Merge(ask, settings), lock, white),
         (lock = TRUE) = IF "lock" \in DOMAIN ask THEN ask["lock"] ELSE OrDefault(settings)["lock"],
         (IF white = None THEN {} ELSE white)
            = IF "white" \in DOMAIN ask THEN ask["white"] ELSE OrDefault(settings)["white"],
         lock = None /\ white = None => settings = None /\ {"lock", "white"} \cap DOMAIN ask = {}
  PROVE  Careful'
<1>1. PICK r : r = [pc |-> IF lock = None /\ white = None THEN "reread" ELSE "upsert",
                    kind |-> kind, ask |-> ask, toggles |-> Merge(ask, settings),
                    lock |-> lock, white |-> white]
  OBVIOUS
<1>2. IsMerging(r)
  BY <1>1, Merges DEF IsMerging
<1>3. \A f \in Toggles : r.toggles[f] = IF f \in DOMAIN r.ask THEN r.ask[f] ELSE OrDefault(settings)[f]
  BY <1>1 DEF Merge
<1>4. r.ask = ask /\ r.lock = lock /\ r.white = white
      /\ r.pc = (IF lock = None /\ white = None THEN "reread" ELSE "upsert")
  BY <1>1
<1>5. r.pc = "upsert" => Faithful(r)
  BY <1>2, <1>3, <1>4, WritesWhatItHolds
<1>6. r.pc = "reread" => Faithful(r)
  BY <1>3, <1>4 DEF Faithful
<1>7. user' = [user EXCEPT ![u] = r] /\ settings' = settings
  BY <1>1 DEF Request, tables
<1> QED BY <1>5, <1>6, <1>7, StaysCareful

\* PUT /settings begins so.
LEMMA BeginUpdateCareful ==
  ASSUME Inv, \A u, v \in User : u = v, NEW u \in User, NEW ask \in Asks, BeginUpdate(u, ask)
  PROVE  Careful'
<1> DEFINE asked(f) == IF f \in DOMAIN ask THEN ask[f] ELSE IF settings = None THEN None ELSE settings[f]
<1>1. IsWish(ask) /\ None \notin BOOLEAN /\ \A white \in SUBSET Contract : white # None
  BY AsksAssumption, NoneAssumption
<1>2. "lock" \in Fields /\ "white" \in Fields
  BY DEF Fields
<1>3. settings # None => settings["lock"] \in BOOLEAN /\ settings["white"] \in SUBSET Contract
  BY <1>2 DEF Inv, Tables, IsSettings, IsWish
<1>4. /\ "lock" \in DOMAIN ask => ask["lock"] \in BOOLEAN
      /\ "white" \in DOMAIN ask => ask["white"] \in SUBSET Contract
  BY <1>1 DEF IsWish
<1>5. PICK lock : lock = asked("lock")
  OBVIOUS
<1>6. PICK white : white = asked("white")
  OBVIOUS
<1>7. lock = None \/ lock \in BOOLEAN
  BY <1>3, <1>4, <1>5
<1>8. white = None \/ white \in SUBSET Contract
  BY <1>3, <1>4, <1>6
<1>9. (lock = TRUE) = IF "lock" \in DOMAIN ask THEN ask["lock"] ELSE OrDefault(settings)["lock"]
  BY <1>1, <1>3, <1>4, <1>5, Defaults DEF OrDefault
<1>10. (IF white = None THEN {} ELSE white)
          = IF "white" \in DOMAIN ask THEN ask["white"] ELSE OrDefault(settings)["white"]
  BY <1>1, <1>3, <1>4, <1>6, Defaults DEF OrDefault
<1>11. lock = None /\ white = None => settings = None /\ {"lock", "white"} \cap DOMAIN ask = {}
  BY <1>1, <1>3, <1>4, <1>5, <1>6
<1>12. Request(u, "update", ask, Merge(ask, settings), lock, white)
  BY <1>5, <1>6 DEF BeginUpdate
<1> HIDE DEF asked
<1> QED BY <1>1, <1>7, <1>8, <1>9, <1>10, <1>11, <1>12, BeginsCareful

\* POST /emergency-lock begins so.
LEMMA BeginLockCareful ==
  ASSUME Inv, \A u, v \in User : u = v, NEW u \in User, NEW lock \in BOOLEAN,
         NEW white \in {None} \cup SUBSET Contract, BeginLock(u, lock, white)
  PROVE  Careful'
<1>1. PICK ask : ask = IF white = None THEN [lock |-> lock] ELSE [lock |-> lock, white |-> white]
  OBVIOUS
<1>2. PICK w : w = IF white = None THEN OrDefault(settings).white ELSE white
  OBVIOUS
<1>3. ask["lock"] = lock /\ DOMAIN ask = (IF white = None THEN {"lock"} ELSE {"lock", "white"})
      /\ (white # None => ask["white"] = white)
  <2>1. CASE white = None
    BY <1>1, <2>1
  <2>2. CASE white # None
    BY <1>1, <2>2
  <2> QED BY <2>1, <2>2
<1>4. w \in SUBSET Contract /\ w # None
  <2>1. w \in SUBSET Contract
    BY <1>2, RowWhite
  <2> QED BY Zenon, <2>1, NoneAssumption
<1>5. IsWish(ask)
  BY <1>3 DEF IsWish, Fields
<1>6. (lock = TRUE) = IF "lock" \in DOMAIN ask THEN ask["lock"] ELSE OrDefault(settings)["lock"]
  BY <1>3
<1>7. (IF w = None THEN {} ELSE w)
         = IF "white" \in DOMAIN ask THEN ask["white"] ELSE OrDefault(settings)["white"]
  BY <1>2, <1>3, <1>4
<1>8. Request(u, "lock", ask, Merge(ask, settings), lock, w)
  BY <1>1, <1>2 DEF BeginLock
<1> QED BY <1>4, <1>5, <1>6, <1>7, <1>8, BeginsCareful

\* POST /emergency-freeze begins so.
LEMMA BeginFreezeCareful ==
  ASSUME Inv, \A u, v \in User : u = v, NEW u \in User, NEW freeze \in BOOLEAN, BeginFreeze(u, freeze)
  PROVE  Careful'
<1>1. PICK ask : ask = IF freeze THEN [lock |-> TRUE, block |-> TRUE] ELSE [lock |-> FALSE]
  OBVIOUS
<1>2. PICK w : w = OrDefault(settings).white
  OBVIOUS
<1>3. ask["lock"] = freeze /\ DOMAIN ask = (IF freeze THEN {"lock", "block"} ELSE {"lock"})
      /\ (freeze => ask["block"] = TRUE)
  <2>1. CASE freeze
    BY <1>1, <2>1
  <2>2. CASE ~freeze
    BY <1>1, <2>2
  <2> QED BY <2>1, <2>2
<1>4. w \in SUBSET Contract /\ w # None
  <2>1. w \in SUBSET Contract
    BY <1>2, RowWhite
  <2> QED BY Zenon, <2>1, NoneAssumption
<1>5. IsWish(ask)
  BY <1>3 DEF IsWish, Fields, Toggles
<1>6. (freeze = TRUE) = IF "lock" \in DOMAIN ask THEN ask["lock"] ELSE OrDefault(settings)["lock"]
  BY <1>3
<1>7. (IF w = None THEN {} ELSE w)
         = IF "white" \in DOMAIN ask THEN ask["white"] ELSE OrDefault(settings)["white"]
  BY <1>2, <1>3, <1>4
<1>8. Request(u, "freeze", ask, Merge(ask, settings), freeze, w)
  BY <1>1, <1>2 DEF BeginFreeze
<1> QED BY <1>4, <1>5, <1>6, <1>7, <1>8, BeginsCareful

\* The second read finds no row: it takes the defaults.
LEMMA RereadCareful ==
  ASSUME Inv, Careful, \A u, v \in User : u = v, NEW u \in User, Reread(u)
  PROVE  Careful'
<1>1. PICK s : s = user[u]
  OBVIOUS
<1>2. IsMerging(s)
  BY <1>1, Merging DEF Reread
<1>3. Faithful(s) /\ s.pc = "reread"
  BY <1>1 DEF Careful, Reread, At
<1>4. settings' = settings
  BY DEF Reread, tables
<1>5. CASE user' = [user EXCEPT ![u].pc = "upsert", ![u].lock = OrDefault(settings).lock,
                                ![u].white = OrDefault(settings).white]
  <2>1. PICK r : r = [s EXCEPT !.pc = "upsert", !.lock = OrDefault(settings).lock,
                               !.white = OrDefault(settings).white]
    OBVIOUS
  <2>2. OrDefault(settings).lock \in BOOLEAN /\ OrDefault(settings).white \in SUBSET Contract
    BY RowToggles, RowWhite
  <2>3. IsMerging(r)
    BY <1>2, <2>1, <2>2 DEF IsMerging
  <2>4. /\ r.ask = s.ask /\ r.toggles = s.toggles /\ r.pc = "upsert"
        /\ r.lock = OrDefault(settings)["lock"] /\ r.white = OrDefault(settings)["white"]
    BY <1>2, <2>1 DEF IsMerging
  <2>5. (r.lock = TRUE) = IF "lock" \in DOMAIN r.ask THEN r.ask["lock"] ELSE OrDefault(settings)["lock"]
    BY <1>3, <2>2, <2>4 DEF Faithful
  <2>6. (IF r.white = None THEN {} ELSE r.white)
          = IF "white" \in DOMAIN r.ask THEN r.ask["white"] ELSE OrDefault(settings)["white"]
    <3>1. r.white # None
      BY Zenon, <2>2, <2>4, NoneAssumption
    <3>2. "white" \notin DOMAIN r.ask
      BY <1>3, <2>4 DEF Faithful
    <3> QED BY <2>4, <3>1, <3>2
  <2>7. \A f \in Toggles : r.toggles[f] = IF f \in DOMAIN r.ask THEN r.ask[f] ELSE OrDefault(settings)[f]
    BY <1>3, <2>4 DEF Faithful
  <2>8. Faithful(r)
    BY <2>3, <2>4, <2>5, <2>6, <2>7, WritesWhatItHolds
  <2>9. user' = [user EXCEPT ![u] = r]
    BY <1>1, <1>5, <2>1 DEF Inv, Tables
  <2> QED BY <1>4, <2>8, <2>9, StaysCareful
<1>6. CASE user' = [user EXCEPT ![u] = None]
  BY <1>4, <1>6, StaysCareful
<1> QED BY <1>5, <1>6 DEF Reread, Abort

\* The write and what follows it hold no row any more.
LEMMA WritesCareful ==
  ASSUME Inv, \A u, v \in User : u = v, NEW u \in User,
         Upsert(u) \/ UpsertAutoScan(u) \/ WriteRule(u)
  PROVE  Careful'
<1>1. CASE user' = [user EXCEPT ![u] = None]
  BY <1>1 DEF Careful, Inv, Tables
<1>2. CASE user' = [user EXCEPT ![u].pc = "scan"]
  <2>1. IsMerging(user[u]) \/ UpsertAutoScan(u) \/ WriteRule(u)
    BY Merging DEF Upsert
  <2>2. CASE IsMerging(user[u])
    <3>1. user'[u].pc = "scan"
      BY <1>2, <2>2 DEF Inv, Tables, IsMerging
    <3> QED BY <3>1 DEF Careful
  <2>3. CASE UpsertAutoScan(u) \/ WriteRule(u)
    BY <1>1, <2>3 DEF UpsertAutoScan, WriteRule, Abort
  <2> QED BY <2>1, <2>2, <2>3
<1> QED BY <1>1, <1>2 DEF Upsert, UpsertAutoScan, WriteRule, Abort

\* With one user, the requests stay careful.
LEMMA CarefulKeeps ==
  ASSUME Inv, Careful, \A u, v \in User : u = v, [Next]_vars
  PROVE  Careful'
<1>1. ASSUME NEW u \in User, UserStep(u) PROVE Careful'
  <2>1. CASE (\E ask \in Asks : BeginUpdate(u, ask))
             \/ (\E lock \in BOOLEAN, white \in {None} \cup SUBSET Contract : BeginLock(u, lock, white))
             \/ (\E freeze \in BOOLEAN : BeginFreeze(u, freeze)) \/ Reread(u)
    BY <2>1, BeginUpdateCareful, BeginLockCareful, BeginFreezeCareful, RereadCareful
  <2>2. CASE Upsert(u) \/ UpsertAutoScan(u) \/ WriteRule(u)
    BY <2>2, WritesCareful
  <2>3. ASSUME NEW id \in RuleId, NEW sp \in Spelling, NEW enabled \in BOOLEAN \cup {None},
               NEW limit \in Limits \cup {None}, ReadRule(u, id, sp, enabled, limit)
        PROVE  Careful'
    <3>1. PICK r : /\ r = [pc |-> "rule", id |-> id,
                           rule |-> [rules[id] EXCEPT !.enabled = IF enabled = None THEN @ ELSE enabled,
                                                      !.limit = IF limit = None THEN @ ELSE limit]]
      OBVIOUS
    <3>2. r.pc = "rule"
      BY <3>1
    <3>3. user' = [user EXCEPT ![u] = r] /\ settings' = settings
      BY <2>3, <3>1 DEF ReadRule, tables
    <3> QED BY <3>2, <3>3, StaysCareful
  <2>4. ASSUME NEW id \in RuleId, NEW sp \in Spelling,
               (\E kind \in {"unlimited", "usd"}, limit \in Limits : CreateRule(u, id, sp, kind, limit))
                 \/ DeleteRule(u, id, sp)
        PROVE  Careful'
    <3>1. UNCHANGED <<settings, user>>
      BY <2>4 DEF CreateRule, DeleteRule
    <3> QED BY <3>1, LeavesCareful
  <2>5. ASSUME NEW sp \in Spelling, NEW c \in Contract,
               BlockContract(u, sp, c) \/ UnblockContract(u, sp, c)
        PROVE  Careful'
    <3>1. UNCHANGED <<settings, user>>
      BY <2>5 DEF BlockContract, UnblockContract
    <3> QED BY <3>1, LeavesCareful
  <2> QED BY <1>1, <2>1, <2>2, <2>3, <2>4, <2>5 DEF UserStep
<1>2. ASSUME NEW a \in Analyst, AnalysisStep(a) PROVE Careful'
  BY <1>2, AnalysesOnlyRead, LeavesCareful
<1>3. CASE UNCHANGED vars
  <2>1. UNCHANGED <<settings, user>>
    BY <1>3 DEF vars
  <2> QED BY <2>1, LeavesCareful
<1> QED BY <1>1, <1>2, <1>3 DEF Next

\* Only the write of a request changes the settings.
LEMMA OnlyUpsertWrites ==
  ASSUME Next, settings' # settings
  PROVE  \E u \in User : Upsert(u) /\ settings' = Written(user[u])
<1>1. \A a \in Analyst : ~AnalysisStep(a)
  BY AnalysesOnlyRead
<1>2. PICK u \in User : UserStep(u)
  BY <1>1 DEF Next
<1>3. Upsert(u)
  BY <1>2 DEF UserStep, BeginUpdate, BeginLock, BeginFreeze, Request, Reread, UpsertAutoScan,
              CreateRule, ReadRule, WriteRule, DeleteRule, BlockContract, UnblockContract, tables
<1> QED BY <1>3 DEF Upsert, tables

\* With one user, whose requests come one after the other, every write of the settings
\* changes what its request asked for and nothing else.
THEOREM MergeHolds ==
  ASSUME \A u, v \in User : u = v
  PROVE  Spec => OnlyAskedChanges
<1> DEFINE Merged == settings' # settings =>
             \E u \in User :
               /\ At(u, "upsert")
               /\ \A f \in Fields : settings'[f] = IF f \in DOMAIN user[u].ask THEN user[u].ask[f]
                                                   ELSE OrDefault(settings)[f]
<1>1. Inv /\ Careful /\ [Next]_vars => [Merged]_vars
  <2> SUFFICES ASSUME Careful, Next, settings' # settings PROVE Merged
    OBVIOUS
  <2>1. PICK u \in User : Upsert(u) /\ settings' = Written(user[u])
    BY OnlyUpsertWrites
  <2>2. At(u, "upsert")
    BY <2>1 DEF Upsert
  <2>3. Faithful(user[u]) /\ user[u].pc = "upsert"
    BY <2>2 DEF Careful, At
  <2> QED BY <2>1, <2>2, <2>3 DEF Faithful
<1>2. Init => Careful
  BY DEF Init, Careful
<1>3. Inv /\ Careful /\ [Next]_vars => Careful'
  BY CarefulKeeps
<1> HIDE DEF Merged
<1>4. Spec => [][Merged]_vars
  BY <1>1, <1>2, <1>3, InvHolds, PTL DEF Spec
<1> QED BY <1>4 DEF Merged, OnlyAskedChanges

-----------------------------------------------------------------------------
(* The scores: what the patterns and the groups of signals add up to *)

\* The sum of m over S, and the function the fold is made of.
SumOf(m, S) == MapThenSumSet(LAMBDA x : m[x], S)

Taken(s) == CHOOSE x \in s : TRUE

Adds(m, S, f) == f = [s \in SUBSET S |-> IF s = {} THEN 0 ELSE m[Taken(s)] + f[s \ {Taken(s)}]]

\* Induction over the numbers, for the members of a set.
LEMMA NumbersAre ==
  ASSUME NEW G, 0 \in G, \A n \in Nat : n \in G => n + 1 \in G
  PROVE  Nat \subseteq G
<1> DEFINE Below == {p \in Nat \X Nat : p[1] < p[2]}
           Bad == Nat \ G
<1>1. IsWellFoundedOn(Below, Nat)
  BY NatLessThanWellFounded DEF OpToRel
<1> SUFFICES ASSUME Bad # {} PROVE FALSE
  OBVIOUS
<1>2. PICK n \in Bad : \A k \in Bad : <<k, n>> \notin Below
  <2>1. Bad \subseteq Nat
    OBVIOUS
  <2> HIDE DEF Below, Bad
  <2> QED BY <1>1, <2>1, WFMin
<1>3. n # 0 /\ n \in Nat /\ n - 1 \in Nat /\ <<n - 1, n>> \in Below
  OBVIOUS
<1>4. n - 1 \in G
  BY <1>2, <1>3
<1> QED BY <1>3, <1>4

\* A set that is not empty has the element the fold takes.
LEMMA TakenIs ==
  ASSUME NEW s, s # {}
  PROVE  Taken(s) \in s
BY DEF Taken

\* The recursion of the fold has a solution.
LEMMA SumExists ==
  ASSUME NEW m, NEW S, IsFiniteSet(S)
  PROVE  \E f : Adds(m, S, f)
<1> DEFINE Small(n) == {s \in SUBSET S : Cardinality(s) <= n}
           step(f, s) == IF s = {} THEN 0 ELSE m[Taken(s)] + f[s \ {Taken(s)}]
           G == {n \in Nat : \E f : f = [s \in Small(n) |-> step(f, s)]}
<1>1. \A T \in SUBSET S : IsFiniteSet(T) /\ Cardinality(T) \in Nat
  BY FS_Subset, FS_CardinalityType
<1>2. 0 \in G
  <2>1. \A s \in Small(0) : s = {}
    BY <1>1, FS_EmptySet
  <2>2. PICK f : f = [s \in Small(0) |-> 0]
    OBVIOUS
  <2>3. f = [s \in Small(0) |-> step(f, s)]
    BY <2>1, <2>2
  <2> QED BY <2>3
<1>3. ASSUME NEW n \in Nat, n \in G PROVE n + 1 \in G
  <2>1. PICK f : f = [s \in Small(n) |-> step(f, s)]
    BY <1>3
  <2>2. PICK g : g = [s \in Small(n + 1) |-> step(f, s)]
    OBVIOUS
  <2>3. ASSUME NEW s \in Small(n + 1), s # {}
        PROVE  s \ {Taken(s)} \in Small(n)
    <3>1. Taken(s) \in s
      BY <2>3, TakenIs
    <3>2. Cardinality(s \ {Taken(s)}) = Cardinality(s) - 1
      BY <1>1, <3>1, FS_RemoveElement
    <3> QED BY <1>1, <3>2
  <2>4. \A s \in Small(n) : g[s] = f[s]
    <3>1. Small(n) \subseteq Small(n + 1)
      BY <1>1
    <3> HIDE DEF Small, step
    <3> QED BY <2>1, <2>2, <3>1
  <2>5. \A s \in Small(n + 1) : step(f, s) = step(g, s)
    BY <2>3, <2>4
  <2>6. g = [s \in Small(n + 1) |-> step(g, s)]
    <3> HIDE DEF Small, step
    <3> QED BY <2>2, <2>5
  <2> HIDE DEF Small, step
  <2> QED BY <2>6
<1>4. Cardinality(S) \in G
  <2>1. Nat \subseteq G
    <3> HIDE DEF G
    <3> QED BY <1>2, <1>3, NumbersAre
  <2> QED BY <1>1, <2>1
<1>5. Small(Cardinality(S)) = SUBSET S
  BY FS_Subset
<1>6. PICK f : f = [s \in Small(Cardinality(S)) |-> step(f, s)]
  BY <1>4
<1>7. f = [s \in SUBSET S |-> step(f, s)]
  BY <1>5, <1>6
<1> QED BY <1>7 DEF Adds

\* The sum, by its recursion.
LEMMA SumIs ==
  ASSUME NEW m, NEW S, IsFiniteSet(S)
  PROVE  \E f : Adds(m, S, f) /\ SumOf(m, S) = f[S]
<1>1. \E f : Adds(m, S, f)
  BY SumExists
<1>2. PICK f : f = CHOOSE g : Adds(m, S, g)
  OBVIOUS
<1>3. Adds(m, S, f)
  BY <1>1, <1>2
<1>4. SumOf(m, S) = f[S]
  BY <1>2, Zenon DEF SumOf, MapThenSumSet, MapThenFoldSet, Adds, Taken
<1> QED BY <1>3, <1>4

\* By induction over the size of its subsets: what holds of none, and of a set that it
\* holds of with one element less, holds of the whole set.
LEMMA BySize ==
  ASSUME NEW S, IsFiniteSet(S), NEW G, {} \in G,
         \A T \in SUBSET S : T # {} /\ T \ {Taken(T)} \in G => T \in G
  PROVE  \A T \in SUBSET S : T \in G
<1> DEFINE H == {n \in Nat : \A T \in SUBSET S : Cardinality(T) = n => T \in G}
<1>1. \A T \in SUBSET S : IsFiniteSet(T) /\ Cardinality(T) \in Nat
  BY FS_Subset, FS_CardinalityType
<1>2. 0 \in H
  <2>1. \A T \in SUBSET S : Cardinality(T) = 0 => T = {}
    BY <1>1, FS_EmptySet
  <2> QED BY <2>1
<1>3. ASSUME NEW n \in Nat, n \in H PROVE n + 1 \in H
  <2>1. ASSUME NEW T \in SUBSET S, Cardinality(T) = n + 1 PROVE T \in G
    <3>1. IsFiniteSet(T) /\ Cardinality(T) # 0
      BY <1>1, <2>1
    <3>2. T # {} /\ Taken(T) \in T
      BY <3>1, FS_EmptySet, TakenIs
    <3>3. Cardinality(T \ {Taken(T)}) = n
      <4>1. Cardinality(T \ {Taken(T)}) = Cardinality(T) - 1
        BY <3>1, <3>2, FS_RemoveElement
      <4> QED BY <2>1, <4>1
    <3>4. T \ {Taken(T)} \in G
      BY <1>3, <3>3
    <3> QED BY <3>2, <3>4
  <2> QED BY <2>1
<1>4. Nat \subseteq H
  <2> HIDE DEF H
  <2> QED BY <1>2, <1>3, NumbersAre
<1> QED BY <1>1, <1>4

\* Whole numbers add up to one.
LEMMA SumInt ==
  ASSUME NEW m, NEW S, IsFiniteSet(S), \A x \in S : m[x] \in Int
  PROVE  SumOf(m, S) \in Int
<1>1. PICK f : Adds(m, S, f) /\ SumOf(m, S) = f[S]
  BY SumIs
<1> DEFINE G == {T \in SUBSET S : f[T] \in Int}
<1>2. {} \in G
  BY <1>1 DEF Adds
<1>3. ASSUME NEW T \in SUBSET S, T # {}, T \ {Taken(T)} \in G PROVE T \in G
  <2>1. f[T] = m[Taken(T)] + f[T \ {Taken(T)}]
    BY <1>1, <1>3 DEF Adds
  <2>2. m[Taken(T)] \in Int
    BY <1>3, TakenIs
  <2> QED BY <1>3, <2>1, <2>2
<1>4. S \in G
  <2> HIDE DEF G
  <2> QED BY <1>2, <1>3, BySize
<1> QED BY <1>1, <1>4

\* What the patterns of a transaction weigh.
Weights(P) == Weight(25, "destination" \in P) + Weight(35, "approval" \in P)
              + Weight(20, "delegatecall" \in P) + Weight(10, "exposure" \in P)

LEMMA PatternsWeigh ==
  ASSUME NEW P, P \subseteq DOMAIN PatternRisk
  PROVE  IsFiniteSet(P) /\ SumOf(PatternRisk, P) = Weights(P)
<1>1. DOMAIN PatternRisk = {"destination", "approval", "delegatecall", "exposure"}
  BY DEF PatternRisk
<1>2. IsFiniteSet(P)
  <2>1. IsFiniteSet({"destination", "approval", "delegatecall", "exposure"})
    <3>1. IsFiniteSet({} \cup {"destination"} \cup {"approval"} \cup {"delegatecall"} \cup {"exposure"})
      BY FS_EmptySet, FS_AddElement
    <3>2. {"destination", "approval", "delegatecall", "exposure"}
            = {} \cup {"destination"} \cup {"approval"} \cup {"delegatecall"} \cup {"exposure"}
      OBVIOUS
    <3> QED BY <3>1, <3>2
  <2> QED BY <1>1, <2>1, FS_Subset
<1>3. PICK f : Adds(PatternRisk, P, f) /\ SumOf(PatternRisk, P) = f[P]
  BY <1>2, SumIs
<1> DEFINE G == {T \in SUBSET P : f[T] = Weights(T)}
<1>4. {} \in G
  BY <1>3 DEF Adds, Weights, Weight
<1>5. ASSUME NEW T \in SUBSET P, T # {}, T \ {Taken(T)} \in G PROVE T \in G
  <2>1. PICK x : x = Taken(T)
    OBVIOUS
  <2>2. x \in T /\ f[T] = PatternRisk[x] + f[T \ {x}] /\ f[T \ {x}] = Weights(T \ {x})
    BY <1>3, <1>5, <2>1, TakenIs DEF Adds
  <2>3. x \in {"destination", "approval", "delegatecall", "exposure"}
    BY <1>1, <1>5, <2>2
  <2>4. PatternRisk[x] + Weights(T \ {x}) = Weights(T)
    BY <2>2, <2>3 DEF PatternRisk, Weights, Weight
  <2> QED BY <2>2, <2>4
<1>6. P \in G
  <2> HIDE DEF G
  <2> QED BY <1>2, <1>4, <1>5, BySize
<1> QED BY <1>2, <1>3, <1>6

\* The smaller of a number and a bound.
LEMMA ClampIs ==
  ASSUME NEW n \in Int, NEW top \in Int
  PROVE  Clamp(n, top) = IF n <= top THEN n ELSE top
<1>1. \A x \in {n, top} : (\A y \in {n, top} : x <= y) => x = IF n <= top THEN n ELSE top
  OBVIOUS
<1>2. \E x \in {n, top} : \A y \in {n, top} : x <= y
  OBVIOUS
<1> QED BY <1>1, <1>2 DEF Clamp, Min

\* The larger of two numbers.
LEMMA MaxOfTwo ==
  ASSUME NEW n \in Int, NEW k \in Int
  PROVE  Max({n, k}) = IF n <= k THEN k ELSE n
<1>1. \A x \in {n, k} : (\A y \in {n, k} : x >= y) => x = IF n <= k THEN k ELSE n
  OBVIOUS
<1>2. \E x \in {n, k} : \A y \in {n, k} : x >= y
  OBVIOUS
<1> QED BY <1>1, <1>2 DEF Max

\* v1 alone never reaches 80: an approval is no upgrade.
LEMMA FirstScore ==
  ASSUME NEW tx \in Txs
  PROVE  LET v1 == V1(tx)
         IN  v1.score \in Int /\ v1.score < 80 /\ v1.action # Reject
<1>1. PICK P : P = Patterns(tx)
  OBVIOUS
<1>2. P \subseteq DOMAIN PatternRisk /\ ~("approval" \in P /\ "delegatecall" \in P)
  BY <1>1, TxsAssumption DEF Patterns, Calls
<1>3. MapThenSumSet(LAMBDA p : PatternRisk[p], P) = Weights(P)
  <2>1. SumOf(PatternRisk, P) = Weights(P)
    BY <1>2, PatternsWeigh
  <2> QED BY <2>1 DEF SumOf
<1>4. Weights(P) \in Int /\ Weights(P) <= 70
  BY <1>2 DEF Weights, Weight
<1>5. V1Score(tx) = Clamp(Weights(P), 100)
  BY <1>1, <1>3 DEF V1Score
<1>6. PICK n : n = V1Score(tx)
  OBVIOUS
<1>7. n \in Int /\ n < 80
  BY <1>4, <1>5, <1>6, ClampIs
<1>8. Band(n) \in {"Dangerous", "Warning", "Safe"}
  BY <1>7 DEF Band
<1>9. ActionOf(Band(n)) # Reject
  BY <1>8 DEF ActionOf, Reject, Review, Proceed
<1>10. V1(tx) = Result(n, Band(n), ActionOf(Band(n)))
  BY <1>6 DEF V1
<1> QED BY <1>7, <1>9, <1>10 DEF Result

\* The highest of a few risks is one of them.
LEMMA HighestIs ==
  ASSUME NEW S, S \subseteq {10, 15, 20, 22, 25, 30, 35}, S # {}
  PROVE  Max(S) \in S
<1>1. \E x \in S : \A y \in S : x >= y
  <2>1. CASE 35 \in S
    BY <2>1
  <2>2. CASE S \subseteq {10, 15, 20, 22, 25, 30} /\ 30 \in S
    BY <2>2
  <2>3. CASE S \subseteq {10, 15, 20, 22, 25} /\ 25 \in S
    BY <2>3
  <2>4. CASE S \subseteq {10, 15, 20, 22} /\ 22 \in S
    BY <2>4
  <2>5. CASE S \subseteq {10, 15, 20} /\ 20 \in S
    BY <2>5
  <2>6. CASE S \subseteq {10, 15} /\ 15 \in S
    BY <2>6
  <2>7. CASE S \subseteq {10}
    <3>1. S = {10}
      BY <2>7
    <3> QED BY <3>1
  <2> QED BY <2>1, <2>2, <2>3, <2>4, <2>5, <2>6, <2>7
<1> QED BY <1>1 DEF Max

\* The signals of a transaction that comes from no page.
LEMMA SignalsAre ==
  ASSUME NEW tx \in Txs, tx.lure = 0, ~tx.young, NEW s \in Signals(tx)
  PROVE  /\ s.risk \in {10, 15, 20, 22, 25, 30, 35}
         /\ s.key \in {"contract"} \cup Signs
         /\ \/ s.stage = "execute" /\ Patterns(tx) # {}
            \/ s.stage = "hook" /\ tx.sign # {}
<1>1. s \in TxSignals(tx) \/ s \in SignatureSignals(tx)
  BY DEF Signals, DappSignals, TemporalSignals
<1>2. CASE s \in TxSignals(tx)
  <2>1. PICK p \in Patterns(tx) : s = Signal("execute", "contract", PatternRisk[p])
    BY <1>2 DEF TxSignals
  <2>2. PatternRisk[p] \in {25, 35, 20, 10}
    BY <2>1 DEF Patterns, PatternRisk
  <2> QED BY <2>1, <2>2 DEF Signal
<1>3. CASE s \in SignatureSignals(tx)
  <2>1. PICK g \in tx.sign : s = Signal("hook", g, SignRisk[g])
    BY <1>3 DEF SignatureSignals
  <2>2. g \in Signs
    BY <2>1, TxsAssumption
  <2>3. SignRisk[g] \in {15, 22, 30, 25}
    BY <2>2 DEF Signs, SignRisk
  <2> QED BY <2>1, <2>2, <2>3 DEF Signal
<1> QED BY <1>1, <1>2, <1>3

\* The second score is a number.
LEMMA ScoreIsInt ==
  ASSUME NEW tx \in Txs, tx.lure = 0, ~tx.young
  PROVE  Score(Signals(tx)) \in Int
<1>1. PICK signals : signals = Signals(tx)
  OBVIOUS
<1>2. PICK keys : keys = {s.key : s \in signals}
  OBVIOUS
<1>3. IsFiniteSet(keys)
  <2>1. keys \subseteq {"contract", "generic", "permit", "seaport", "offchain"}
    BY <1>1, <1>2, SignalsAre DEF Signs
  <2>2. IsFiniteSet({"contract", "generic", "permit", "seaport", "offchain"})
    <3>1. IsFiniteSet({} \cup {"contract"} \cup {"generic"} \cup {"permit"} \cup {"seaport"} \cup {"offchain"})
      BY FS_EmptySet, FS_AddElement
    <3>2. {"contract", "generic", "permit", "seaport", "offchain"}
            = {} \cup {"contract"} \cup {"generic"} \cup {"permit"} \cup {"seaport"} \cup {"offchain"}
      OBVIOUS
    <3> QED BY <3>1, <3>2
  <2> QED BY <2>1, <2>2, FS_Subset
<1>4. ASSUME NEW k \in keys PROVE GroupRisk(signals, k) \in Int
  <2>1. PICK risks : risks = {s.risk : s \in {t \in signals : t.key = k}}
    OBVIOUS
  <2>2. risks # {}
    BY <1>2, <2>1
  <2>3. risks \subseteq {10, 15, 20, 22, 25, 30, 35}
    BY <1>1, <2>1, SignalsAre
  <2>4. Max(risks) \in risks
    BY <2>2, <2>3, HighestIs
  <2> QED BY <2>1, <2>3, <2>4 DEF GroupRisk
<1>5. PICK g : g = [k \in keys |-> GroupRisk(signals, k)]
  OBVIOUS
<1>6. MapThenSumSet(LAMBDA k : GroupRisk(signals, k), keys) = SumOf(g, keys)
  <2>1. \A k \in keys : g[k] = GroupRisk(signals, k)
    BY <1>5
  <2> QED BY <1>5, <2>1 DEF SumOf, MapThenSumSet, MapThenFoldSet
<1>7. SumOf(g, keys) \in Int
  BY <1>3, <1>4, <1>5, SumInt
<1>8. PICK n : n = SumOf(g, keys) + Weight(8, Cardinality(Stages(signals)) >= 2)
  OBVIOUS
<1>9. n \in Int
  BY <1>7, <1>8 DEF Weight
<1>10. Score(signals) = Clamp(n, 100)
  BY <1>2, <1>6, <1>8 DEF Score
<1> QED BY <1>1, <1>9, <1>10, ClampIs

\* Of itself it rejects only a signature request together with a pattern.
LEMMA SecondScore ==
  ASSUME NEW tx \in Txs, tx.lure = 0, ~tx.young
  PROVE  LET v2 == EvaluateSignals(Signals(tx))
         IN  /\ v2.score \in Int
             /\ v2.action = Reject => tx.sign # {} /\ Patterns(tx) # {}
<1>1. PICK signals : signals = Signals(tx)
  OBVIOUS
<1>2. PICK score : score = Score(signals)
  OBVIOUS
<1>3. PICK band : band = IF Band(score) = "Block" /\ ~AllowBlock(signals)
                         THEN "Dangerous" ELSE Band(score)
  OBVIOUS
<1>4. EvaluateSignals(signals) = Result(score, band, ActionOf(band))
  BY <1>2, <1>3 DEF EvaluateSignals
<1>5. ASSUME ActionOf(band) = Reject PROVE tx.sign # {} /\ Patterns(tx) # {}
  <2>1. band = "Block"
    BY <1>5 DEF ActionOf, Reject, Review, Proceed
  <2>2. AllowBlock(signals)
    BY <1>3, <2>1
  <2>3. Stages(signals) \subseteq {"execute", "hook"}
    BY <1>1, SignalsAre DEF Stages
  <2>4. ~(\E s \in signals : s.stage \in {"hook", "execute"} /\ s.risk >= 70)
    BY <1>1, SignalsAre
  <2>5. ~(Cardinality(Stages(signals)) >= 3)
    <3>1. IsFiniteSet({"execute", "hook"}) /\ Cardinality({"execute", "hook"}) <= 2
      <4>1. IsFiniteSet({"execute"}) /\ Cardinality({"execute"}) = 1
        BY FS_Singleton
      <4>2. {"execute", "hook"} = {"execute"} \cup {"hook"} /\ "hook" \notin {"execute"}
        OBVIOUS
      <4>3. IsFiniteSet({"execute"} \cup {"hook"}) /\ Cardinality({"execute"} \cup {"hook"}) = 2
        <5>1. PICK E : E = {"execute"}
          OBVIOUS
        <5>2. IsFiniteSet(E) /\ Cardinality(E) = 1 /\ "hook" \notin E
          BY <4>1, <4>2, <5>1
        <5>3. IsFiniteSet(E \cup {"hook"}) /\ Cardinality(E \cup {"hook"}) = 1 + 1
          BY <5>2, FS_AddElement
        <5> QED BY <5>1, <5>3
      <4> QED BY <4>2, <4>3
    <3>2. Cardinality(Stages(signals)) <= 2 /\ Cardinality(Stages(signals)) \in Nat
      <4>1. PICK S : S = Stages(signals)
        OBVIOUS
      <4>2. IsFiniteSet(S) /\ Cardinality(S) <= Cardinality({"execute", "hook"})
        BY <2>3, <3>1, <4>1, FS_Subset
      <4>3. Cardinality(S) \in Nat /\ Cardinality({"execute", "hook"}) \in Nat
        BY <3>1, <4>2, FS_CardinalityType
      <4> QED BY <3>1, <4>1, <4>2, <4>3
    <3> QED BY <3>2
  <2>6. {"hook", "execute"} \subseteq Stages(signals)
    BY <2>2, <2>3, <2>4, <2>5 DEF AllowBlock
  <2>7. PICK h \in signals, e \in signals : h.stage = "hook" /\ e.stage = "execute"
    BY <2>6 DEF Stages
  <2> QED BY <1>1, <2>7, SignalsAre
<1>6. score \in Int
  BY <1>1, <1>2, ScoreIsInt
<1> QED BY <1>1, <1>4, <1>5, <1>6 DEF Result

-----------------------------------------------------------------------------
(* What is rejected has a reason *)

\* RejectedForAReason, of an analysis.
Reason(t) ==
    \/ {"barred", "rule", "contract"} \cap t.seen # {}
    \/ "auto" \in t.seen /\ t.out.score >= 80
    \/ scoringV2 /\ t.tx.sign # {} /\ Patterns(t.tx) # {}

\* What the reads of an analysis of the dashboard have found it has seen; only v2
\* reads settings of its own.
Justified(t) ==
    /\ t.tx \in Txs /\ t.tx.lure = 0 /\ ~t.tx.young
    /\ t.first => "auto" \in t.seen
    /\ t.pc = "own" => scoringV2
    /\ t.own # None => scoringV2 /\ (t.own.block => "auto" \in t.seen)
    /\ t.out.score \in Int
    /\ t.pc = "rescore" => t.own # None /\ (t.flag => {"rule", "contract"} \cap t.seen # {})
    /\ t.pc \in {"correlate", "done"} /\ t.out.action = Reject => Reason(t)

Reasoned == \A a \in Analyst : analysis[a] # None /\ analysis[a].entry = "dashboard" =>
                                   Justified(analysis[a])

\* A step that only moves one analysis keeps the reasons, if that one has them.
LEMMA MovedForAReason ==
  ASSUME Inv, Reasoned, UNCHANGED scoringV2, NEW a \in Analyst, NEW t, Set(a, t),
         t = None \/ t.entry # "dashboard" \/ Justified(t)
  PROVE  Reasoned'
<1>1. \A b \in Analyst : analysis'[b] = IF b = a THEN t ELSE analysis[b]
  BY DEF Set, Inv, Analyses
<1>2. \A b \in Analyst : analysis'[b] # None /\ analysis'[b].entry = "dashboard" =>
                             Justified(analysis'[b])
  BY <1>1 DEF Reasoned
<1> QED BY <1>1, <1>2 DEF Reasoned, Justified, Reason
\* What an analysis under way knows.
LEMMA Reasons ==
  ASSUME Inv, Reasoned, NEW a \in Analyst, NEW s, s = analysis[a], s # None
  PROVE  /\ IsAnalysis(s)
         /\ s.entry = "dashboard" => Justified(s)
         /\ s.pc # "done" => FactsNow(s.spelling, s.tx) \subseteq s.seen
BY Current DEF Reasoned, Knows, Watches

\* An analysis starts with the toggles it reads, which it has seen.
LEMMA AnalyseReasons ==
  ASSUME Inv, Reasoned, NEW a \in Analyst, NEW entry \in {"dashboard", "extension"}, NEW tx \in Txs,
         NEW spelling \in Spelling, Analyse(a, entry, tx, spelling)
  PROVE  Reasoned'
<1> DEFINE on == settings # None /\ OrDefault(settings).warn
           pc == IF on THEN "charge" ELSE "assess"
           toggle == on /\ OrDefault(settings).block
<1>1. entry = "dashboard" => pc = "charge" /\ tx.lure = 0 /\ ~tx.young
  BY DEF Analyse
<1>2. PICK t : t = Start(pc, entry, tx, spelling, toggle)
  OBVIOUS
<1>3. /\ t.pc = pc /\ t.entry = entry /\ t.tx = tx /\ t.first = toggle /\ t.own = None
      /\ t.out = Nothing /\ t.seen = FactsNow(spelling, tx)
  BY <1>2 DEF Start
<1>4. toggle => "auto" \in FactsNow(spelling, tx)
  BY FactsAre
<1>5. Nothing.score \in Int
  BY DEF Nothing, Result
<1>6. entry = "dashboard" => Justified(t)
  <2> SUFFICES ASSUME entry = "dashboard" PROVE Justified(t)
    OBVIOUS
  <2>1. t.pc = "charge" /\ tx.lure = 0 /\ ~tx.young
    BY <1>1, <1>3
  <2> HIDE DEF on, pc, toggle
  <2> QED BY <1>3, <1>4, <1>5, <2>1 DEF Justified
<1>7. Set(a, t) /\ UNCHANGED scoringV2
  BY <1>2 DEF Analyse
<1> QED BY <1>3, <1>6, <1>7, MovedForAReason

\* v2 reads its settings only if it is switched on.
LEMMA ChargeReasons ==
  ASSUME Inv, Reasoned, NEW a \in Analyst, Charge(a)
  PROVE  Reasoned'
<1>1. PICK s : s = analysis[a]
  OBVIOUS
<1>2. IsAnalysis(s) /\ (s.entry = "dashboard" => Justified(s)) /\ s.pc = "charge"
  BY <1>1, Reasons DEF Charge, Is
<1>3. PICK t : t = [s EXCEPT !.pc = IF scoringV2 THEN "own" ELSE "evaluate"]
  OBVIOUS
<1>4. /\ t.entry = s.entry /\ t.tx = s.tx /\ t.first = s.first /\ t.own = s.own /\ t.out = s.out
      /\ t.seen = s.seen /\ t.pc = (IF scoringV2 THEN "own" ELSE "evaluate")
  BY <1>2, <1>3 DEF IsAnalysis
<1>5. t.entry = "dashboard" => Justified(t)
  BY <1>2, <1>4 DEF Justified
<1>6. (Set(a, t) \/ Set(a, None)) /\ UNCHANGED scoringV2
  BY <1>1, <1>3 DEF Charge
<1> QED BY <1>5, <1>6, MovedForAReason

\* It has seen the toggle it reads there.
LEMMA ReadOwnReasons ==
  ASSUME Inv, Reasoned, NEW a \in Analyst, ReadOwn(a)
  PROVE  Reasoned'
<1>1. PICK s : s = analysis[a]
  OBVIOUS
<1>2. /\ IsAnalysis(s) /\ (s.entry = "dashboard" => Justified(s)) /\ s.pc = "own"
      /\ FactsNow(s.spelling, s.tx) \subseteq s.seen
  BY <1>1, Reasons DEF ReadOwn, Is
<1>3. PICK own : own = [warn |-> OrDefault(settings).warn, block |-> OrDefault(settings).block]
  OBVIOUS
<1>4. PICK t : t = [s EXCEPT !.pc = "evaluate", !.own = own]
  OBVIOUS
<1>5. /\ t.entry = s.entry /\ t.tx = s.tx /\ t.first = s.first /\ t.own = own /\ t.out = s.out
      /\ t.seen = s.seen /\ t.pc = "evaluate"
  BY <1>2, <1>4 DEF IsAnalysis
<1>6. own.block => "auto" \in s.seen
  BY <1>2, <1>3, FactsAre
<1>7. t.entry = "dashboard" => Justified(t)
  BY <1>2, <1>5, <1>6 DEF Justified
<1>8. (Set(a, t) \/ Set(a, None)) /\ UNCHANGED scoringV2
  BY <1>1, <1>3, <1>4 DEF ReadOwn, Fail
<1> QED BY <1>7, <1>8, MovedForAReason

\* What Based makes of an analysis.
LEMMA BasedIs ==
  ASSUME NEW s, IsAnalysis(s), NEW result, NEW forbidden
  PROVE  LET t == Based(s, result, forbidden)
         IN  /\ t.entry = s.entry /\ t.tx = s.tx /\ t.first = s.first /\ t.own = s.own
             /\ t.seen = s.seen /\ t.out = result /\ t.flag = forbidden
             /\ t.pc \in {"rescore", "correlate"} /\ (t.pc = "rescore" => t.own # None)
BY DEF Based, AfterBase, IsAnalysis

\* The evaluation rejects under the lock, which it has seen.
LEMMA EvaluateReasons ==
  ASSUME Inv, Reasoned, NEW a \in Analyst, Evaluate(a)
  PROVE  Reasoned'
<1>1. PICK s : s = analysis[a]
  OBVIOUS
<1>2. /\ IsAnalysis(s) /\ (s.entry = "dashboard" => Justified(s)) /\ s.pc = "evaluate"
      /\ FactsNow(s.spelling, s.tx) \subseteq s.seen
  BY <1>1, Reasons DEF Evaluate, Is
<1>3. UNCHANGED scoringV2
  BY DEF Evaluate
<1> DEFINE row == OrDefault(settings)
<1>4. CASE Locked(row, s.tx) /\ Set(a, [s EXCEPT !.out = Result(100, "Block", Reject),
                                        !.pc = IF s.entry = "extension" THEN "assess" ELSE "done"])
  <2>1. PICK t : t = [s EXCEPT !.out = Result(100, "Block", Reject),
                              !.pc = IF s.entry = "extension" THEN "assess" ELSE "done"]
    OBVIOUS
  <2>2. /\ t.entry = s.entry /\ t.tx = s.tx /\ t.first = s.first /\ t.own = s.own
        /\ t.seen = s.seen /\ t.out.score \in Int
        /\ t.pc = (IF s.entry = "extension" THEN "assess" ELSE "done")
    BY <1>2, <2>1 DEF IsAnalysis, Result
  <2>3. "barred" \in s.seen
    BY <1>2, <1>4, FactsAre
  <2>4. t.entry = "dashboard" => Justified(t)
    BY <1>2, <2>2, <2>3 DEF Justified, Reason
  <2> QED BY <1>3, <1>4, <2>1, <2>4, MovedForAReason
<1>5. CASE Set(a, Based(s, Nothing, FALSE))
  <2>1. PICK no : no = FALSE
    OBVIOUS
  <2>2. PICK t : t = Based(s, Nothing, no)
    OBVIOUS
  <2>3. /\ t.entry = s.entry /\ t.tx = s.tx /\ t.first = s.first /\ t.own = s.own
        /\ t.seen = s.seen /\ t.out = Nothing /\ t.flag = no
        /\ t.pc \in {"rescore", "correlate"} /\ (t.pc = "rescore" => t.own # None)
    BY <1>2, <2>2, BasedIs
  <2>4. Nothing.score \in Int /\ Nothing.action # Reject
    BY DEF Nothing, Result, Proceed, Reject
  <2>5. t.entry = "dashboard" => Justified(t)
    BY <1>2, <2>1, <2>3, <2>4 DEF Justified
  <2> QED BY <1>3, <1>5, <2>1, <2>2, <2>5, MovedForAReason
<1>6. CASE Set(a, [s EXCEPT !.pc = "contract", !.evaluated = row.block])
  <2>1. PICK t : t = [s EXCEPT !.pc = "contract", !.evaluated = row.block]
    OBVIOUS
  <2>2. /\ t.entry = s.entry /\ t.tx = s.tx /\ t.first = s.first /\ t.own = s.own
        /\ t.seen = s.seen /\ t.out = s.out /\ t.pc = "contract"
    BY <1>2, <2>1 DEF IsAnalysis
  <2>3. t.entry = "dashboard" => Justified(t)
    BY <1>2, <2>2 DEF Justified
  <2> QED BY <1>3, <1>6, <2>1, <2>3, MovedForAReason
<1>7. CASE Set(a, None)
  BY <1>3, <1>7, MovedForAReason
<1> QED BY <1>1, <1>4, <1>5, <1>6, <1>7 DEF Evaluate, Fail

\* A blocked contract is a reason; going on to the rules decides nothing.
LEMMA ReadBlockedReasons ==
  ASSUME Inv, Reasoned, NEW a \in Analyst, ReadBlocked(a)
  PROVE  Reasoned'
<1>1. PICK s : s = analysis[a]
  OBVIOUS
<1>2. /\ IsAnalysis(s) /\ (s.entry = "dashboard" => Justified(s)) /\ s.pc = "contract"
      /\ FactsNow(s.spelling, s.tx) \subseteq s.seen
  BY <1>1, Reasons DEF ReadBlocked, Is
<1>3. UNCHANGED scoringV2
  BY DEF ReadBlocked
<1>4. CASE <<s.spelling, s.tx.to>> \in blocked /\ Set(a, Based(s, Result(100, "Block", Reject), TRUE))
  <2>1. PICK out : out = Result(100, "Block", Reject)
    OBVIOUS
  <2>2. PICK yes : yes = TRUE
    OBVIOUS
  <2>3. PICK t : t = Based(s, out, yes)
    OBVIOUS
  <2>4. /\ t.entry = s.entry /\ t.tx = s.tx /\ t.first = s.first /\ t.own = s.own
        /\ t.seen = s.seen /\ t.out = out
        /\ t.pc \in {"rescore", "correlate"} /\ (t.pc = "rescore" => t.own # None)
    BY <1>2, <2>3, BasedIs
  <2>5. "contract" \in s.seen /\ out.score \in Int
    BY <1>2, <1>4, <2>1, FactsAre DEF Result
  <2>6. t.entry = "dashboard" => Justified(t)
    BY <1>2, <2>4, <2>5 DEF Justified, Reason
  <2> QED BY <1>3, <1>4, <2>1, <2>2, <2>3, <2>6, MovedForAReason
<1>5. ASSUME NEW t, Set(a, t), t.entry = s.entry, t.tx = s.tx, t.first = s.first, t.own = s.own,
             t.seen = s.seen, t.out = s.out, t.pc = "rules"
      PROVE  Reasoned'
  <2>1. t.entry = "dashboard" => Justified(t)
    BY <1>2, <1>5 DEF Justified
  <2> QED BY <1>3, <1>5, <2>1, MovedForAReason
<1>6. CASE Set(a, [s EXCEPT !.pc = "rules"])
  BY <1>2, <1>5, <1>6 DEF IsAnalysis
<1>7. CASE Set(a, [s EXCEPT !.pc = "rules", !.missed = TRUE])
  BY <1>2, <1>5, <1>7 DEF IsAnalysis
<1> QED BY <1>1, <1>4, <1>6, <1>7 DEF ReadBlocked

\* The first score alone rejects nothing; a rule that matches is a reason.
LEMMA JudgedReasons ==
  ASSUME NEW s, IsAnalysis(s), s.entry = "dashboard" => Justified(s), s.pc = "rules",
         NEW ruled \in BOOLEAN, ruled => "rule" \in s.seen
  PROVE  LET t == Judged(s, ruled)
         IN  /\ t.entry = s.entry /\ DOMAIN t = DOMAIN s
             /\ t.entry = "dashboard" => Justified(t)
<1>1. PICK v1 : v1 = V1(s.tx)
  OBVIOUS
<1>2. PICK forbidden : forbidden = (ruled \/ (s.evaluated /\ v1.score >= 80))
  OBVIOUS
<1>3. PICK out : out = IF forbidden THEN Forbid(v1) ELSE v1
  OBVIOUS
<1>4. PICK t : t = Based(s, out, forbidden)
  OBVIOUS
<1>5. t = Judged(s, ruled)
  BY <1>1, <1>2, <1>3, <1>4 DEF Judged
<1>6. /\ t.entry = s.entry /\ t.tx = s.tx /\ t.first = s.first /\ t.own = s.own
      /\ t.seen = s.seen /\ t.out = out /\ t.flag = forbidden
      /\ t.pc \in {"rescore", "correlate"} /\ (t.pc = "rescore" => t.own # None)
  BY <1>4, BasedIs
<1>7. DOMAIN t = DOMAIN s
  BY <1>4 DEF Based
<1>8. ASSUME s.entry = "dashboard" PROVE Justified(t)
  <2>1. Justified(s)
    BY <1>8
  <2>2. v1.score \in Int /\ v1.score < 80 /\ v1.action # Reject
    BY <1>1, <2>1, FirstScore DEF Justified
  <2>3. forbidden = ruled
    BY <1>2, <2>2
  <2>4. out.score = v1.score /\ (~ruled => out.action # Reject)
    <3>1. v1 = [score |-> v1.score, band |-> v1.band, action |-> v1.action]
      BY <1>1 DEF V1, Result
    <3> QED BY <1>3, <2>2, <2>3, <3>1 DEF Forbid
  <2> QED BY <1>6, <2>1, <2>2, <2>3, <2>4 DEF Justified, Reason
<1> QED BY <1>5, <1>6, <1>7, <1>8

\* So the rules.
LEMMA ReadRulesReasons ==
  ASSUME Inv, Reasoned, NEW a \in Analyst, ReadRules(a)
  PROVE  Reasoned'
<1>1. PICK s : s = analysis[a]
  OBVIOUS
<1>2. /\ IsAnalysis(s) /\ (s.entry = "dashboard" => Justified(s)) /\ s.pc = "rules"
      /\ FactsNow(s.spelling, s.tx) \subseteq s.seen
  BY <1>1, Reasons DEF ReadRules, Is
<1>3. UNCHANGED scoringV2
  BY DEF ReadRules
<1>4. PICK ruled : ruled = RulesBlock(rules, s.spelling, s.tx)
  OBVIOUS
<1>5. ruled \in BOOLEAN /\ (ruled => "rule" \in s.seen)
  BY <1>2, <1>4, FactsAre DEF RulesBlock
<1>6. CASE Set(a, Judged(s, ruled))
  <2>1. PICK t : t = Judged(s, ruled)
    OBVIOUS
  <2>2. t.entry = s.entry /\ (t.entry = "dashboard" => Justified(t))
    BY <1>2, <1>5, <2>1, JudgedReasons
  <2> QED BY <1>3, <1>6, <2>1, <2>2, MovedForAReason
<1>7. CASE Set(a, [Judged(s, FALSE) EXCEPT !.missed = TRUE])
  <2>1. PICK no \in BOOLEAN : no = FALSE
    OBVIOUS
  <2>2. PICK j : j = Judged(s, no)
    OBVIOUS
  <2>3. PICK t : t = [j EXCEPT !.missed = TRUE]
    OBVIOUS
  <2>4. j.entry = s.entry /\ DOMAIN j = DOMAIN s /\ (j.entry = "dashboard" => Justified(j))
    BY <1>2, <2>1, <2>2, JudgedReasons
  <2>5. /\ t.entry = j.entry /\ t.tx = j.tx /\ t.first = j.first /\ t.own = j.own /\ t.out = j.out
        /\ t.seen = j.seen /\ t.flag = j.flag /\ t.pc = j.pc
    BY <2>3
  <2>6. t.entry = "dashboard" => Justified(t)
    BY <2>4, <2>5 DEF Justified, Reason
  <2> QED BY <1>3, <1>7, <2>1, <2>2, <2>3, <2>6, MovedForAReason
<1> QED BY <1>1, <1>4, <1>6, <1>7 DEF ReadRules

\* The second score rejects what was forbidden before, what a rule blocks now, a high
\* score of a wallet that blocks them, and what shows two stages of the kill chain.
LEMMA RescoredReasons ==
  ASSUME NEW s, IsAnalysis(s), s.entry = "dashboard" => Justified(s), s.pc = "rescore",
         NEW ruled \in BOOLEAN, ruled => "rule" \in s.seen
  PROVE  LET t == Rescored(s, ruled)
         IN  /\ t.entry = s.entry /\ DOMAIN t = DOMAIN s
             /\ t.entry = "dashboard" => Justified(t)
<1>1. PICK v2 : v2 = EvaluateSignals(Signals(s.tx))
  OBVIOUS
<1>2. PICK forbidden : forbidden = (s.flag \/ ruled \/ (s.own.block /\ v2.score >= 80))
  OBVIOUS
<1>3. PICK out : out = IF forbidden THEN Result(v2.score, "Block", Reject) ELSE v2
  OBVIOUS
<1>4. PICK t : t = [s EXCEPT !.pc = "correlate", !.flag = forbidden, !.out = out]
  OBVIOUS
<1>5. t = Rescored(s, ruled)
  BY <1>1, <1>2, <1>3, <1>4 DEF Rescored
<1>6. /\ t.entry = s.entry /\ t.tx = s.tx /\ t.first = s.first /\ t.own = s.own
      /\ t.seen = s.seen /\ t.out = out /\ t.pc = "correlate" /\ DOMAIN t = DOMAIN s
  BY <1>4 DEF IsAnalysis
<1>7. ASSUME s.entry = "dashboard" PROVE Justified(t)
  <2>1. Justified(s)
    BY <1>7
  <2>2. v2.score \in Int /\ (v2.action = Reject => s.tx.sign # {} /\ Patterns(s.tx) # {})
    BY <1>1, <2>1, SecondScore DEF Justified
  <2>3. out.score = v2.score
    BY <1>3 DEF Result
  <2>4. scoringV2
    BY <1>7, <2>1 DEF Justified
  <2>5. CASE forbidden
    <3>1. \/ {"barred", "rule", "contract"} \cap s.seen # {}
          \/ "auto" \in s.seen /\ v2.score >= 80
      BY <1>2, <2>1, <2>5 DEF Justified
    <3>2. Reason(t)
      BY <1>6, <2>3, <3>1 DEF Reason
    <3> QED BY <1>6, <2>1, <2>2, <2>3, <3>2 DEF Justified
  <2>6. CASE ~forbidden
    <3>1. out.action = Reject => Reason(t)
      BY <1>3, <1>6, <2>2, <2>4, <2>6 DEF Reason
    <3> QED BY <1>6, <2>1, <2>2, <2>3, <3>1 DEF Justified
  <2> QED BY <2>5, <2>6
<1> QED BY <1>5, <1>6, <1>7

\* The second scoring rejects on what it saw itself, or keeps the rejection it was given.
LEMMA RescoreReasons ==
  ASSUME Inv, Reasoned, NEW a \in Analyst, Rescore(a)
  PROVE  Reasoned'
<1>1. PICK s : s = analysis[a]
  OBVIOUS
<1>2. /\ IsAnalysis(s) /\ (s.entry = "dashboard" => Justified(s)) /\ s.pc = "rescore"
      /\ FactsNow(s.spelling, s.tx) \subseteq s.seen
  BY <1>1, Reasons DEF Rescore, Is
<1>3. UNCHANGED scoringV2
  BY DEF Rescore
<1>4. PICK ruled : ruled = RulesBlock(rules, s.spelling, s.tx)
  OBVIOUS
<1>5. ruled \in BOOLEAN /\ (ruled => "rule" \in s.seen)
  BY <1>2, <1>4, FactsAre DEF RulesBlock
<1>6. CASE Set(a, Rescored(s, ruled))
  <2>1. PICK t : t = Rescored(s, ruled)
    OBVIOUS
  <2>2. t.entry = s.entry /\ (t.entry = "dashboard" => Justified(t))
    BY <1>2, <1>5, <2>1, RescoredReasons
  <2> QED BY <1>3, <1>6, <2>1, <2>2, MovedForAReason
<1>7. CASE Set(a, [Rescored(s, FALSE) EXCEPT !.missed = TRUE])
  <2>1. PICK no \in BOOLEAN : no = FALSE
    OBVIOUS
  <2>2. PICK j : j = Rescored(s, no)
    OBVIOUS
  <2>3. PICK t : t = [j EXCEPT !.missed = TRUE]
    OBVIOUS
  <2>4. j.entry = s.entry /\ DOMAIN j = DOMAIN s /\ (j.entry = "dashboard" => Justified(j))
    BY <1>2, <2>1, <2>2, RescoredReasons
  <2>5. /\ t.entry = j.entry /\ t.tx = j.tx /\ t.first = j.first /\ t.own = j.own /\ t.out = j.out
        /\ t.seen = j.seen /\ t.flag = j.flag /\ t.pc = j.pc
    BY <2>3
  <2>6. t.entry = "dashboard" => Justified(t)
    BY <2>4, <2>5 DEF Justified, Reason
  <2> QED BY <1>3, <1>7, <2>1, <2>2, <2>3, <2>6, MovedForAReason
<1>8. CASE Set(a, None)
  BY <1>3, <1>8, MovedForAReason
<1> QED BY <1>1, <1>4, <1>6, <1>7, <1>8 DEF Rescore, Fail

\* The correlation only raises a score, and rejects a high one of a wallet whose toggle
\* was on when the analysis began.
LEMMA CorrelateReasons ==
  ASSUME Inv, Reasoned, NEW a \in Analyst, Correlate(a)
  PROVE  Reasoned'
<1>1. PICK s : s = analysis[a]
  OBVIOUS
<1>2. IsAnalysis(s) /\ (s.entry = "dashboard" => Justified(s)) /\ s.pc = "correlate"
  BY <1>1, Reasons DEF Correlate, Is
<1>3. UNCHANGED scoringV2
  BY DEF Correlate
<1> DEFINE after(out) == [s EXCEPT !.out = out,
                                  !.pc = IF s.entry = "extension" THEN "assess" ELSE "done"]
<1>4. ASSUME NEW out, Set(a, after(out)),
             s.entry = "dashboard" =>
                 /\ out.score \in Int
                 /\ out.action = Reject => \/ "auto" \in s.seen /\ out.score >= 80
                                           \/ s.out.action = Reject /\ out.score >= s.out.score
      PROVE  Reasoned'
  <2>1. PICK t : t = after(out)
    OBVIOUS
  <2>2. /\ t.entry = s.entry /\ t.tx = s.tx /\ t.first = s.first /\ t.own = s.own
        /\ t.seen = s.seen /\ t.out = out
        /\ t.pc = (IF s.entry = "extension" THEN "assess" ELSE "done")
    BY <1>2, <2>1 DEF IsAnalysis
  <2>3. ASSUME s.entry = "dashboard" PROVE Justified(t)
    <3>1. Justified(s) /\ s.out.score \in Int /\ (s.out.action = Reject => Reason(s))
      BY <1>2, <2>3 DEF Justified
    <3>2. out.action = Reject => Reason(t)
      <4>1. ASSUME out.action = Reject, s.out.action = Reject, out.score >= s.out.score
            PROVE  Reason(t)
        BY <1>4, <2>2, <2>3, <3>1, <4>1 DEF Reason
      <4>2. ASSUME "auto" \in s.seen, out.score >= 80 PROVE Reason(t)
        BY <2>2, <4>2 DEF Reason
      <4> QED BY <1>4, <2>3, <4>1, <4>2
    <3> QED BY <1>4, <2>2, <2>3, <3>1, <3>2 DEF Justified
  <2> QED BY <1>3, <1>4, <2>1, <2>2, <2>3, MovedForAReason
<1>5. CASE Set(a, after(s.out))
  <2>1. s.entry = "dashboard" => s.out.score \in Int /\ s.out.score >= s.out.score
    BY <1>2 DEF Justified
  <2> HIDE DEF after
  <2> QED BY <1>4, <1>5, <2>1
<1>6. ASSUME NEW risk \in CorrelatedRisks, Set(a, after(Correlated(s, risk))) PROVE Reasoned'
  <2>1. PICK out : out = Correlated(s, risk)
    OBVIOUS
  <2>2. PICK score : score = Max({s.out.score, risk})
    OBVIOUS
  <2>3. out.score = score /\ out.action = (IF s.first /\ score >= 80 THEN Reject ELSE s.out.action)
    BY <1>2, <2>1, <2>2 DEF Correlated, IsAnalysis
  <2>4. ASSUME s.entry = "dashboard"
        PROVE  /\ out.score \in Int
               /\ out.action = Reject => \/ "auto" \in s.seen /\ out.score >= 80
                                         \/ s.out.action = Reject /\ out.score >= s.out.score
    <3>1. s.out.score \in Int /\ risk \in Int /\ (s.first => "auto" \in s.seen)
      BY <1>2, <2>4, RisksAssumption DEF Justified
    <3>2. score \in Int /\ score >= s.out.score
      BY <2>2, <3>1, MaxOfTwo
    <3> QED BY <2>3, <3>1, <3>2
  <2> HIDE DEF after
  <2> QED BY <1>4, <1>6, <2>1, <2>4
<1> QED BY <1>1, <1>5, <1>6 DEF Correlate

\* The steps of the extension and of the approvals are not about the dashboard.
LEMMA OthersReason ==
  ASSUME Inv, Reasoned, NEW a \in Analyst,
         \/ \E ctx \in Ctxs : Assess(a, ctx)
         \/ \E tx \in Txs, spelling \in Spelling : Ingest(a, tx, spelling)
         \/ ReadSpender(a) \/ CreateAlert(a) \/ Answer(a)
  PROVE  Reasoned'
<1>1. PICK s : s = analysis[a]
  OBVIOUS
<1>2. UNCHANGED scoringV2
  BY DEF Assess, Ingest, ReadSpender, CreateAlert, Answer
<1>3. \A b \in Analyst : b # a => analysis'[b] = analysis[b]
  BY DEF Assess, Ingest, ReadSpender, CreateAlert, Answer, Set, Inv, Analyses
<1>4. Inv'
  BY AssessKeeps, IngestKeeps, ReadSpenderKeeps, CreateAlertKeeps, AnswerKeeps
<1>5. analysis'[a] = None \/ analysis'[a].entry # "dashboard"
  <2>1. CASE \E ctx \in Ctxs : Assess(a, ctx)
    <3>1. PICK ctx \in Ctxs : Assess(a, ctx)
      BY <2>1
    <3>2. IsAnalysis(s) /\ s.pc = "assess"
      BY <1>1, <3>1, Reasons DEF Assess, Is
    <3>3. s.entry = "extension"
      BY <3>2 DEF IsAnalysis
    <3>4. analysis'[a].entry = s.entry
      BY <1>1, <3>1, <3>2 DEF Assess, Set, Inv, Analyses, IsAnalysis
    <3> QED BY <3>3, <3>4
  <2>2. CASE \E tx \in Txs, spelling \in Spelling : Ingest(a, tx, spelling)
    <3>1. PICK tx \in Txs, spelling \in Spelling : Ingest(a, tx, spelling)
      BY <2>2
    <3>2. PICK t : t = Start("spender", "approval", tx, spelling, OrDefault(settings).appr)
      OBVIOUS
    <3>3. t.entry = "approval" /\ DOMAIN t = DOMAIN t
      BY <3>2 DEF Start
    <3>4. analysis'[a] = t \/ analysis'[a] = [t EXCEPT !.pc = "alert", !.out = [@ EXCEPT !.score = 100]]
      BY <3>1, <3>2 DEF Ingest, Set, Inv, Analyses
    <3> QED BY <3>2, <3>3, <3>4 DEF Start
  <2>3. CASE ReadSpender(a) \/ CreateAlert(a)
    <3>1. IsAnalysis(s) /\ s.pc \in {"spender", "alert"}
      BY <1>1, <2>3, Reasons DEF ReadSpender, CreateAlert, Is
    <3>2. s.entry = "approval"
      BY <3>1 DEF IsAnalysis
    <3>3. analysis'[a].entry = s.entry
      <4>1. CASE CreateAlert(a)
        <5>1. \/ analysis'[a] = [s EXCEPT !.pc = "done", !.flag = TRUE]
              \/ analysis'[a] = [s EXCEPT !.pc = "done", !.missed = TRUE]
          BY <1>1, <4>1 DEF CreateAlert, Set, Inv, Analyses
        <5> QED BY <3>1, <5>1 DEF IsAnalysis
      <4>2. CASE ReadSpender(a)
        <5> DEFINE scored(score) == [s EXCEPT !.out = [@ EXCEPT !.score = score],
                                       !.pc = IF s.first /\ score >= 50 THEN "alert" ELSE "done"]
        <5>1. PICK score : \/ Set(a, scored(score))
                           \/ Set(a, [scored(score) EXCEPT !.missed = TRUE])
          BY <1>1, <4>2 DEF ReadSpender
        <5>2. PICK t : t = scored(score)
          OBVIOUS
        <5>3. t.entry = s.entry /\ DOMAIN t = DOMAIN s
          BY <3>1, <5>2 DEF IsAnalysis
        <5> HIDE DEF scored
        <5>4. analysis'[a] = t \/ analysis'[a] = [t EXCEPT !.missed = TRUE]
          BY <5>1, <5>2 DEF Set, Inv, Analyses
        <5>5. PICK w : w = [t EXCEPT !.missed = TRUE]
          OBVIOUS
        <5>6. w.entry = t.entry
          BY <3>1, <5>3, <5>5 DEF IsAnalysis
        <5> QED BY <5>3, <5>4, <5>5, <5>6
      <4> QED BY <2>3, <4>1, <4>2
    <3> QED BY <3>2, <3>3
  <2>4. CASE Answer(a)
    BY <2>4 DEF Answer, Set, Inv, Analyses
  <2> QED BY <2>1, <2>2, <2>3, <2>4
<1>6. \A b \in Analyst : analysis'[b] # None /\ analysis'[b].entry = "dashboard" =>
                             Justified(analysis'[b])
  BY <1>3, <1>5 DEF Reasoned
<1> QED BY <1>2, <1>6 DEF Reasoned, Justified, Reason

\* Whatever an analysis does next, a rejection it carries rests on what it saw.
LEMMA AnalysisStepReasons ==
  ASSUME Inv, Reasoned, NEW a \in Analyst, AnalysisStep(a)
  PROVE  Reasoned'
BY AnalyseReasons, ChargeReasons, ReadOwnReasons, EvaluateReasons, ReadBlockedReasons,
   ReadRulesReasons, RescoreReasons, CorrelateReasons, OthersReason DEF AnalysisStep

\* Through the steps of the users an analysis sees more, and forgets nothing.
LEMMA ObservedReasons ==
  ASSUME Inv, Reasoned, Observe, UNCHANGED scoringV2
  PROVE  Reasoned'
<1>1. ASSUME NEW a \in Analyst, analysis'[a] # None, analysis'[a].entry = "dashboard"
      PROVE  Justified(analysis'[a])
  <2>1. PICK s : s = analysis[a]
    OBVIOUS
  <2>2. PICK now : now = Facts(settings', rules', blocked', s.spelling, s.tx)
    OBVIOUS
  <2>3. PICK t : t = Watched(s, now)
    OBVIOUS
  <2>4. s # None /\ s.pc # "done" /\ analysis'[a] = t
    BY <1>1, <2>1, <2>2, <2>3 DEF Observe
  <2>5. IsAnalysis(s) /\ (s.entry = "dashboard" => Justified(s))
    BY <2>1, <2>4, Reasons
  <2>6. /\ t.pc = s.pc /\ t.entry = s.entry /\ t.tx = s.tx /\ t.out = s.out /\ t.flag = s.flag
        /\ t.first = s.first /\ t.own = s.own /\ s.seen \subseteq t.seen
    BY <2>3, <2>5 DEF Watched, IsAnalysis
  <2>7. Justified(s)
    BY <1>1, <2>4, <2>5, <2>6
  <2>8. Reason(s) => Reason(t)
    BY <2>6 DEF Reason
  <2> QED BY <2>4, <2>6, <2>7, <2>8 DEF Justified
<1> QED BY <1>1 DEF Reasoned, Justified, Reason

\* A step of a user changes no analysis but what it watches.
LEMMA UserStepObserved ==
  ASSUME NEW u \in User, UserStep(u)
  PROVE  Observe /\ UNCHANGED scoringV2
<1>1. CASE \E ask \in Asks : BeginUpdate(u, ask)
  BY <1>1 DEF BeginUpdate, Request
<1>2. CASE \E lock \in BOOLEAN, white \in {None} \cup SUBSET Contract : BeginLock(u, lock, white)
  BY <1>2 DEF BeginLock, Request
<1>3. CASE \E freeze \in BOOLEAN : BeginFreeze(u, freeze)
  BY <1>3 DEF BeginFreeze, Request
<1>4. CASE Reread(u) \/ Upsert(u) \/ UpsertAutoScan(u) \/ WriteRule(u)
  BY <1>4 DEF Reread, Upsert, UpsertAutoScan, WriteRule
<1>5. CASE \E id \in RuleId, sp \in Spelling :
         \/ \E kind \in {"unlimited", "usd"}, limit \in Limits : CreateRule(u, id, sp, kind, limit)
         \/ \E enabled \in BOOLEAN \cup {None}, limit \in Limits \cup {None} :
               ReadRule(u, id, sp, enabled, limit)
         \/ DeleteRule(u, id, sp)
  BY <1>5 DEF CreateRule, ReadRule, DeleteRule
<1>6. CASE \E sp \in Spelling, c \in Contract : BlockContract(u, sp, c) \/ UnblockContract(u, sp, c)
  BY <1>6 DEF BlockContract, UnblockContract
<1> QED BY <1>1, <1>2, <1>3, <1>4, <1>5, <1>6 DEF UserStep

\* An analysis of the dashboard rejects nothing without a reason: for every set of
\* transactions and rules and every answer of the correlation, however the requests of
\* users interleave with its reads.
THEOREM RejectedHolds == Spec => []RejectedForAReason
<1>1. Init => Inv /\ Reasoned
  BY InitInv DEF Init, Reasoned
<1>2. Inv /\ Reasoned /\ [Next]_vars => Inv' /\ Reasoned'
  <2> SUFFICES ASSUME Inv, Reasoned, [Next]_vars PROVE Inv' /\ Reasoned'
    OBVIOUS
  <2>1. CASE UNCHANGED vars
    <3>1. analysis' = analysis /\ scoringV2' = scoringV2
      BY <2>1 DEF vars
    <3>2. Reasoned'
      BY <3>1 DEF Reasoned, Justified, Reason
    <3> QED BY <2>1, <3>2, StutterKeeps
  <2>2. ASSUME NEW u \in User, UserStep(u) PROVE Inv' /\ Reasoned'
    BY <2>2, UserStepKeeps, UserStepObserved, ObservedReasons
  <2>3. ASSUME NEW a \in Analyst, AnalysisStep(a) PROVE Inv' /\ Reasoned'
    BY <2>3, AnalysisStepKeeps, AnalysisStepReasons
  <2> QED BY <2>1, <2>2, <2>3 DEF Next
<1>3. Inv /\ Reasoned => RejectedForAReason
  BY DEF Inv, Analyses, Reasoned, RejectedForAReason, Answered, Is, Justified, Reason
<1> QED BY <1>1, <1>2, <1>3, PTL DEF Spec

=============================================================================
