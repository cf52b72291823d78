---------------------------- MODULE ThreatsProofs ----------------------------
(***************************************************************************)
(* Theorems about Threats: what closes a threat, for any number of requests  *)
(* at once, any verdicts, clocks and failures.                               *)
(*                                                                         *)
(* The argument: types and contracts of threats, recorded actions and the     *)
(* history of blocked contracts only grow (Grows), so the evidence a           *)
(* verification has read stays evidence until it marks and closes (IsJob).     *)
(* Two more invariants: Typed is the type of every row and local, and Alone,     *)
(* which holds while requests come one at a time, says that what the request     *)
(* under way has read is still so: no duplicate, no lost update, no stale score. *)
(***************************************************************************)
EXTENDS Threats, SequenceTheorems, FiniteSetTheorems, WellFoundedInduction, TLAPS

\* What justifies closing a threat by verification.
Evidence(t) == Mitigated(t) \/ (threat[t].type \in TxTypes /\ threat[t].contract \in wasBlocked)

IsThreat(x) ==
  /\ DOMAIN x = {"type", "contract", "campaign", "status", "sev", "at", "verification", "auto"}
  /\ x.status \in {"open", "resolved", "dismissed"}

\* An analysis: what it merges into is a threat.
Ingests(j) ==
  /\ DOMAIN j = {"pc", "sig", "ev", "corr", "camp", "tid"}
  /\ j.pc \in Ingesting \cup Storing \cup {"alert"}
  /\ j.pc \in {"mergeCampaign", "mergeContract"} => j.tid \in DOMAIN threat

\* A verification: what it has found mitigated has its evidence.
Verifies(j) ==
  /\ DOMAIN j = {"pc", "did", "todo", "tid", "ok", "cost"}
  /\ j.pc \in {"actions", "blocked", "mark", "close", "cost", "rest", "store"}
  /\ j.todo \subseteq DOMAIN threat
  /\ j.pc \in {"blocked", "mark", "close"} => j.tid \in DOMAIN threat
  /\ j.pc \in {"blocked", "mark"} => j.ok \in BOOLEAN /\ (j.ok => Evidence(j.tid))
  /\ j.pc = "blocked" => threat[j.tid].type \in TxTypes
  /\ j.pc = "close" => Evidence(j.tid)

IsJob(j) == j = Idle \/ Ingests(j) \/ Verifies(j)

IsSeq(s) == \E S : s \in Seq(S)

Rows == /\ IsSeq(threat)
        /\ \A t \in DOMAIN threat : IsThreat(threat[t])
        /\ ClosedOnEvidence

Jobs == /\ job = [r \in Reqs |-> job[r]]
        /\ \A r \in Reqs : IsJob(job[r])

Inv == Rows /\ Jobs /\ blocked \subseteq wasBlocked /\ faults \in Nat /\ VerifiedIsClosed

\* What no step takes back.
Grows == /\ DOMAIN threat \subseteq DOMAIN threat'
         /\ \A t \in DOMAIN threat : threat'[t].type = threat[t].type
                                     /\ threat'[t].contract = threat[t].contract
         /\ acted \subseteq acted' /\ wasBlocked \subseteq wasBlocked'

-----------------------------------------------------------------------------
(* Lemmas *)

\* A sequence and one more element.
LEMMA Appended ==
  ASSUME NEW s, IsSeq(s), NEW x
  PROVE  /\ IsSeq(Append(s, x)) /\ DOMAIN Append(s, x) = DOMAIN s \cup {Len(s) + 1}
         /\ Len(s) + 1 \notin DOMAIN s
         /\ \A i \in DOMAIN s : Append(s, x)[i] = s[i]
         /\ Append(s, x)[Len(s) + 1] = x
<1>1. PICK S : s \in Seq(S)
  BY DEF IsSeq
<1>2. PICK T : T = S \cup {x}
  OBVIOUS
<1>3. s \in Seq(T) /\ x \in T
  BY <1>1, <1>2
<1>4. DOMAIN s = 1 .. Len(s) /\ Len(s) \in Nat
  BY <1>3
<1>5. Append(s, x) \in Seq(T) /\ Len(Append(s, x)) = Len(s) + 1
      /\ (\A i \in 1 .. Len(s) : Append(s, x)[i] = s[i]) /\ Append(s, x)[Len(s) + 1] = x
  BY <1>3, AppendProperties
<1>6. DOMAIN Append(s, x) = 1 .. Len(s) + 1
  BY <1>5
<1> QED BY <1>4, <1>5, <1>6 DEF IsSeq

\* A sequence with one element changed.
LEMMA Changed ==
  ASSUME NEW s, IsSeq(s), NEW i \in DOMAIN s, NEW x
  PROVE  /\ IsSeq([s EXCEPT ![i] = x]) /\ DOMAIN [s EXCEPT ![i] = x] = DOMAIN s
         /\ \A k \in DOMAIN s : [s EXCEPT ![i] = x][k] = IF k = i THEN x ELSE s[k]
<1>1. PICK S : s \in Seq(S)
  BY DEF IsSeq
<1>2. PICK T : T = S \cup {x}
  OBVIOUS
<1>3. s \in Seq(T) /\ x \in T
  BY <1>1, <1>2
<1>4. [s EXCEPT ![i] = x] \in Seq(T)
  BY <1>3
<1> QED BY <1>4 DEF IsSeq

\* Evidence stays.
LEMMA EvidenceStays ==
  ASSUME Grows, NEW t \in DOMAIN threat, Evidence(t)
  PROVE  Evidence(t)'
<1>1. threat'[t].type = threat[t].type /\ threat'[t].contract = threat[t].contract
  BY DEF Grows
<1>2. acted \subseteq acted' /\ wasBlocked \subseteq wasBlocked'
  BY DEF Grows
<1> QED BY <1>1, <1>2 DEF Evidence, Mitigated

\* So does what a request holds.
LEMMA JobStays ==
  ASSUME Grows, NEW j, IsJob(j)
  PROVE  IsJob(j)'
<1>1. CASE j = Idle
  BY <1>1 DEF IsJob
<1>2. CASE Ingests(j)
  BY <1>2 DEF IsJob, Ingests, Grows
<1>3. CASE Verifies(j)
  <2>1. j.pc \in {"blocked", "mark", "close"} => j.tid \in DOMAIN threat /\ j.tid \in DOMAIN threat'
    BY <1>3 DEF Verifies, Grows
  <2>2. j.tid \in DOMAIN threat /\ Evidence(j.tid) => Evidence(j.tid)'
    BY EvidenceStays
  <2>3. j.tid \in DOMAIN threat => threat'[j.tid].type = threat[j.tid].type
    BY DEF Grows
  <2>4. j.todo \subseteq DOMAIN threat'
    BY <1>3 DEF Verifies, Grows
  <2>5. Verifies(j)'
    BY <1>3, <2>1, <2>2, <2>3, <2>4 DEF Verifies
  <2> QED BY <2>5 DEF IsJob
<1> QED BY <1>1, <1>2, <1>3 DEF IsJob

\* The jobs after a step of one request.
LEMMA JobsStay ==
  ASSUME Jobs, Grows, NEW r \in Reqs, NEW j, job' = [job EXCEPT ![r] = j], IsJob(j)'
  PROVE  Jobs'
<1>1. job' = [q \in Reqs |-> IF q = r THEN j ELSE job[q]]
  BY DEF Jobs
<1>2. ASSUME NEW q \in Reqs PROVE IsJob(job[q])'
  <2>1. CASE q = r
    <3>1. job'[q] = j
      BY <1>1, <2>1
    <3> QED BY <3>1
  <2>2. CASE q # r
    <3>1. job'[q] = job[q]
      BY <1>1, <2>2
    <3>2. PICK s : s = job[q]
      OBVIOUS
    <3>3. IsJob(s)'
      BY <3>2, JobStays DEF Jobs
    <3> QED BY <3>1, <3>2, <3>3
  <2> QED BY <2>1, <2>2
<1> QED BY <1>1, <1>2 DEF Jobs

\* A step that leaves the threats.
LEMMA RowsStay ==
  ASSUME Rows, UNCHANGED threat, acted \subseteq acted', wasBlocked \subseteq wasBlocked'
  PROVE  Rows' /\ Grows
<1>1. Grows
  BY DEF Grows
<1>2. IsSeq(threat)' /\ \A t \in DOMAIN threat' : IsThreat(threat'[t])
  BY DEF Rows, IsSeq, IsThreat
<1>3. ASSUME NEW t \in DOMAIN threat', threat'[t].auto \/ threat'[t].verification = "verified"
      PROVE  Evidence(t)'
  <2>1. Evidence(t)
    BY <1>3 DEF Rows, ClosedOnEvidence, Evidence
  <2> QED BY <1>1, <2>1, EvidenceStays
<1>4. ClosedOnEvidence'
  BY <1>3 DEF ClosedOnEvidence, Evidence
<1> QED BY <1>1, <1>2, <1>4 DEF Rows

\* A request that goes on without a write to the threats, and was not about to close one.
LEMMA Moved ==
  ASSUME Inv, NEW r \in Reqs, NEW j, job' = [job EXCEPT ![r] = j], IsJob(j), job[r].pc # "close",
         UNCHANGED <<threat, acted, blocked, wasBlocked, faults>>
  PROVE  Inv'
<1>1. Rows' /\ Grows
  BY RowsStay DEF Inv
<1>2. IsJob(j)'
  BY <1>1, JobStays
<1>3. Jobs'
  BY <1>1, <1>2, JobsStay DEF Inv
<1>4. VerifiedIsClosed'
  <2>1. job' = [q \in Reqs |-> IF q = r THEN j ELSE job[q]]
    BY DEF Inv, Jobs
  <2>2. \A q \in Reqs : job[q].pc = "close" => job'[q] = job[q]
    BY <2>1
  <2> QED BY <2>2 DEF Inv, VerifiedIsClosed, OpenThreats
<1> QED BY <1>1, <1>3, <1>4 DEF Inv

\* A step that fails.
LEMMA Failed ==
  ASSUME Inv, NEW r \in Reqs, NEW j, job' = [job EXCEPT ![r] = j], IsJob(j), Fault
  PROVE  Inv'
<1>1. UNCHANGED <<threat, acted, blocked, wasBlocked>> /\ faults' = faults + 1
  BY DEF Fault, tables
<1>2. Rows' /\ Grows
  BY <1>1, RowsStay DEF Inv
<1>3. IsJob(j)'
  BY <1>2, JobStays
<1>4. Jobs'
  BY <1>2, <1>3, JobsStay DEF Inv
<1>5. faults' \in Nat /\ faults' # 0
  BY <1>1 DEF Inv
<1>6. VerifiedIsClosed'
  BY <1>5 DEF VerifiedIsClosed
<1> QED BY <1>1, <1>2, <1>4, <1>5, <1>6 DEF Inv

\* What a request holds.
LEMMA Current ==
  ASSUME Inv, NEW r \in Reqs
  PROVE  IsJob(job[r])
BY DEF Inv, Jobs

\* An analysis at one of its places, and a verification at one of its own.
LEMMA Places ==
  ASSUME NEW j, IsJob(j)
  PROVE  /\ j.pc \in Ingesting \cup Storing \cup {"alert"} => Ingests(j)
         /\ j.pc \in {"actions", "blocked", "mark", "close", "cost", "rest", "store"} => Verifies(j)
BY DEF IsJob, Idle, Ingests, Verifies, Ingesting, Storing

-----------------------------------------------------------------------------
(* Steps that leave the threats *)

\* A request that starts.
LEMMA BeginKeeps ==
  ASSUME Inv, NEW r \in Reqs, NEW j, IsJob(j), Begin(r, j)
  PROVE  Inv'
<1>1. job[r].pc # "close"
  BY DEF Begin, Idle
<1>2. UNCHANGED <<threat, acted, blocked, wasBlocked, faults>> /\ job' = [job EXCEPT ![r] = j]
  BY DEF Begin, Counted, tables
<1> QED BY <1>1, <1>2, Moved

\* A request that goes on or ends.
LEMMA GotoKeeps ==
  ASSUME Inv, NEW r \in Reqs, NEW j, IsJob(j), Goto(r, j), job[r].pc # "close",
         UNCHANGED <<threat, acted, blocked>>
  PROVE  Inv'
<1>1. UNCHANGED <<threat, acted, blocked, wasBlocked, faults>> /\ job' = [job EXCEPT ![r] = j]
  BY DEF Goto
<1> QED BY <1>1, Moved

\* A request that ends.
LEMMA FinishKeeps ==
  ASSUME Inv, NEW r \in Reqs, NEW did, Finish(r, did), job[r].pc # "close",
         UNCHANGED <<threat, acted, blocked>>
  PROVE  Inv'
<1>1. UNCHANGED <<threat, acted, blocked, wasBlocked, faults>> /\ job' = [job EXCEPT ![r] = Idle]
  BY DEF Finish
<1> QED BY <1>1, Moved DEF IsJob

\* After the correlation.
LEMMA AfterIngestKeeps ==
  ASSUME Inv, NEW r \in Reqs, NEW j, Ingests(j), AfterIngest(r, j), job[r].pc # "close",
         UNCHANGED <<threat, acted, blocked>>
  PROVE  Inv'
<1>1. CASE Finish(r, Nothing)
  BY <1>1, FinishKeeps
<1>2. CASE Goto(r, [j EXCEPT !.pc = IF Joined(j) THEN "byCampaign" ELSE ByContractOrInsert(j)])
  <2>1. PICK pc : pc = IF Joined(j) THEN "byCampaign" ELSE ByContractOrInsert(j)
    OBVIOUS
  <2>2. pc \in {"byCampaign", "byContract", "insert"}
    BY <2>1 DEF ByContractOrInsert
  <2>3. PICK t : t = [j EXCEPT !.pc = pc]
    OBVIOUS
  <2>4. Ingests(t)
    BY <2>2, <2>3 DEF Ingests, Ingesting, Storing
  <2> QED BY <1>2, <2>1, <2>3, <2>4, GotoKeeps DEF IsJob
<1> QED BY <1>1, <1>2 DEF AfterIngest

\* The statements of a correlation.
LEMMA IngestKeeps ==
  ASSUME Inv, NEW r \in Reqs,
         RecordEvent(r) \/ ReadEvents(r) \/ FindCampaign(r) \/ WriteCampaign(r) \/ AddEvidence(r)
  PROVE  Inv'
<1>1. PICK s : s = job[r]
  OBVIOUS
<1>2. s.pc \in Ingesting
  BY <1>1 DEF RecordEvent, ReadEvents, FindCampaign, WriteCampaign, AddEvidence, Ingesting
<1>3. Ingests(s) /\ job[r].pc # "close"
  BY <1>1, <1>2, Current, Places DEF Ingesting
<1>4. UNCHANGED <<threat, acted, blocked>>
  BY DEF RecordEvent, ReadEvents, FindCampaign, WriteCampaign, AddEvidence, tables
<1>5. ASSUME NEW t, DOMAIN t = DOMAIN s, t.pc \in Ingesting, Goto(r, t)
      PROVE  Inv'
  <2>1. Ingests(t)
    BY <1>3, <1>5 DEF Ingests, Ingesting, Storing
  <2> QED BY <1>3, <1>4, <1>5, <2>1, GotoKeeps DEF IsJob
<1>6. CASE AfterIngest(r, s)
  BY <1>3, <1>4, <1>6, AfterIngestKeeps
<1>7. CASE RecordEvent(r)
  <2>1. PICK t : t = [s EXCEPT !.pc = "events", !.ev = Len(event) + 1]
    OBVIOUS
  <2>2. DOMAIN t = DOMAIN s /\ t.pc \in Ingesting
    BY <1>3, <2>1 DEF Ingests, Ingesting
  <2>3. Goto(r, t)
    BY <1>1, <1>7, <2>1 DEF RecordEvent
  <2> QED BY <1>5, <2>2, <2>3
<1>8. CASE ReadEvents(r)
  <2>1. CASE \E corr : Goto(r, [s EXCEPT !.pc = "find", !.corr = corr])
    <3>1. PICK corr : Goto(r, [s EXCEPT !.pc = "find", !.corr = corr])
      BY <2>1
    <3>2. PICK t : t = [s EXCEPT !.pc = "find", !.corr = corr]
      OBVIOUS
    <3>3. DOMAIN t = DOMAIN s /\ t.pc \in Ingesting
      BY <1>3, <3>2 DEF Ingests, Ingesting
    <3>4. Goto(r, t)
      BY <3>1, <3>2
    <3> QED BY <1>5, <3>3, <3>4
  <2> QED BY <1>1, <1>6, <1>8, <2>1 DEF ReadEvents
<1>9. CASE FindCampaign(r)
  <2>1. PICK k : Goto(r, [s EXCEPT !.pc = "campaign", !.camp = k])
    BY <1>1, <1>9 DEF FindCampaign
  <2>2. PICK t : t = [s EXCEPT !.pc = "campaign", !.camp = k]
    OBVIOUS
  <2>3. DOMAIN t = DOMAIN s /\ t.pc \in Ingesting
    BY <1>3, <2>2 DEF Ingests, Ingesting
  <2>4. Goto(r, t)
    BY <2>1, <2>2
  <2> QED BY <1>5, <2>3, <2>4
<1>10. CASE WriteCampaign(r)
  <2>1. PICK t : /\ \/ t = [s EXCEPT !.pc = "evidence"]
                    \/ t = [s EXCEPT !.pc = "evidence", !.camp = Len(campaign) + 1]
                 /\ Goto(r, t)
    BY <1>1, <1>10 DEF WriteCampaign
  <2>2. DOMAIN t = DOMAIN s /\ t.pc \in Ingesting
    BY <1>3, <2>1 DEF Ingests, Ingesting
  <2> QED BY <1>5, <2>1, <2>2
<1> QED BY <1>1, <1>2, <1>6, <1>7, <1>8, <1>9, <1>10 DEF AddEvidence

\* What a threat is merged into is a threat.
LEMMA FindKeeps ==
  ASSUME Inv, NEW r \in Reqs, FindByCampaign(r) \/ FindByContract(r)
  PROVE  Inv'
<1>1. PICK s : s = job[r]
  OBVIOUS
<1>2. Ingests(s) /\ job[r].pc # "close"
  BY <1>1, Current, Places DEF FindByCampaign, FindByContract, Storing
<1>3. PICK T, found, missing :
        /\ T \subseteq DOMAIN threat /\ found \in {"mergeCampaign", "mergeContract"}
        /\ missing \in {"byContract", "insert"} /\ Select(r, T, found, missing)
  <2>1. CASE FindByCampaign(r)
    BY <2>1 DEF FindByCampaign, OpenOfCampaign, ByContractOrInsert
  <2>2. CASE FindByContract(r)
    BY <2>2 DEF FindByContract, OpenOfContract
  <2> QED BY <2>1, <2>2
<1>4. UNCHANGED <<threat, acted, blocked>>
  BY <1>3 DEF Select, tables
<1>5. CASE Goto(r, [s EXCEPT !.pc = missing])
  <2>1. PICK t : t = [s EXCEPT !.pc = missing]
    OBVIOUS
  <2>2. Ingests(t)
    BY <1>2, <1>3, <2>1 DEF Ingests, Storing
  <2> QED BY <1>2, <1>4, <1>5, <2>1, <2>2, GotoKeeps DEF IsJob
<1>6. ASSUME NEW i \in T, Goto(r, [s EXCEPT !.pc = found, !.tid = i]) PROVE Inv'
  <2>1. PICK t : t = [s EXCEPT !.pc = found, !.tid = i]
    OBVIOUS
  <2>2. Ingests(t)
    BY <1>2, <1>3, <1>6, <2>1 DEF Ingests, Storing
  <2> QED BY <1>2, <1>4, <1>6, <2>1, <2>2, GotoKeeps DEF IsJob
<1> QED BY <1>1, <1>3, <1>5, <1>6 DEF Select, Newest

\* The jobs after a step of none.
LEMMA JobsRest ==
  ASSUME Jobs, Grows, UNCHANGED job
  PROVE  Jobs'
<1>1. ASSUME NEW q \in Reqs PROVE IsJob(job[q])'
  <2>1. PICK s : s = job[q]
    OBVIOUS
  <2>2. IsJob(s)'
    BY <2>1, JobStays DEF Jobs
  <2> QED BY <2>1, <2>2
<1> QED BY <1>1 DEF Jobs

\* A step of the user that leaves the threats, or of time.
LEMMA Aside ==
  ASSUME Inv, UNCHANGED <<threat, job, faults>>, acted \subseteq acted',
         wasBlocked \subseteq wasBlocked', blocked' \subseteq wasBlocked'
  PROVE  Inv'
<1>1. Rows' /\ Grows
  BY RowsStay DEF Inv
<1>2. Jobs'
  BY <1>1, JobsRest DEF Inv
<1>3. VerifiedIsClosed'
  BY DEF Inv, VerifiedIsClosed, OpenThreats
<1> QED BY <1>1, <1>2, <1>3 DEF Inv

-----------------------------------------------------------------------------
(* Steps that write a threat *)

\* One row is written, which keeps its type and contract.
LEMMA Touched ==
  ASSUME Inv, NEW t \in DOMAIN threat, NEW x, threat' = [threat EXCEPT ![t] = x], IsThreat(x),
         x.type = threat[t].type, x.contract = threat[t].contract,
         x.auto \/ x.verification = "verified" => Evidence(t),
         UNCHANGED <<acted, wasBlocked>>
  PROVE  Rows' /\ Grows
<1>1. /\ IsSeq(threat') /\ DOMAIN threat' = DOMAIN threat
      /\ \A k \in DOMAIN threat : threat'[k] = IF k = t THEN x ELSE threat[k]
  BY Changed DEF Inv, Rows
<1>2. Grows
  BY <1>1 DEF Grows
<1>3. \A k \in DOMAIN threat' : IsThreat(threat'[k])
  BY <1>1 DEF Inv, Rows
<1>4. ASSUME NEW k \in DOMAIN threat', threat'[k].auto \/ threat'[k].verification = "verified"
      PROVE  Evidence(k)'
  <2>1. Evidence(k)
    <3>1. CASE k = t
      BY <1>1, <1>4, <3>1
    <3>2. CASE k # t
      BY <1>1, <1>4, <3>2 DEF Inv, Rows, ClosedOnEvidence, Evidence
    <3> QED BY <3>1, <3>2
  <2> QED BY <1>1, <1>2, <2>1, EvidenceStays
<1>5. ClosedOnEvidence'
  BY <1>4 DEF ClosedOnEvidence, Evidence
<1> QED BY <1>1, <1>2, <1>3, <1>5 DEF Rows, IsThreat

\* A row is written that keeps what verifications are about.
LEMMA Merged ==
  ASSUME Inv, NEW r \in Reqs, NEW j, job' = [job EXCEPT ![r] = j], IsJob(j), job[r].pc # "close",
         NEW t \in DOMAIN threat, NEW x, threat' = [threat EXCEPT ![t] = x],
         DOMAIN x = DOMAIN threat[t], x.type = threat[t].type, x.contract = threat[t].contract,
         x.status = threat[t].status, x.auto = threat[t].auto,
         x.verification = threat[t].verification,
         UNCHANGED <<acted, blocked, wasBlocked, faults>>
  PROVE  Inv'
<1>1. IsThreat(x)
  BY DEF Inv, Rows, IsThreat
<1>2. x.auto \/ x.verification = "verified" => Evidence(t)
  BY DEF Inv, Rows, ClosedOnEvidence, Evidence
<1>3. Rows' /\ Grows
  BY <1>1, <1>2, Touched
<1>4. IsJob(j)'
  BY <1>3, JobStays
<1>5. Jobs'
  BY <1>3, <1>4, JobsStay DEF Inv
<1>6. /\ DOMAIN threat' = DOMAIN threat
      /\ \A k \in DOMAIN threat : threat'[k] = IF k = t THEN x ELSE threat[k]
  BY Changed DEF Inv, Rows
<1>7. job' = [q \in Reqs |-> IF q = r THEN j ELSE job[q]]
  BY DEF Inv, Jobs
<1>8. VerifiedIsClosed'
  <2>1. \A k \in DOMAIN threat : threat'[k].status = threat[k].status
                                /\ threat'[k].verification = threat[k].verification
    BY <1>6
  <2>2. \A q \in Reqs : job[q].pc = "close" => job'[q] = job[q]
    BY <1>7
  <2> QED BY <1>6, <2>1, <2>2 DEF Inv, VerifiedIsClosed, OpenThreats
<1> QED BY <1>3, <1>5, <1>8 DEF Inv

\* After the threat is stored: an alert or the end.
LEMMA AfterThreatIs ==
  ASSUME NEW r, NEW s, Ingests(s), AfterThreat(r, s)
  PROVE  \E j : IsJob(j) /\ job' = [job EXCEPT ![r] = j] /\ UNCHANGED <<wasBlocked, faults>>
<1>1. PICK t : t = [s EXCEPT !.pc = "alert"]
  OBVIOUS
<1>2. Ingests(t)
  BY <1>1 DEF Ingests, Storing
<1>3. CASE Goto(r, t)
  BY <1>2, <1>3 DEF Goto, IsJob
<1>4. CASE Finish(r, Found(s))
  BY <1>4 DEF Finish, IsJob
<1> QED BY <1>1, <1>3, <1>4 DEF AfterThreat

\* A finding is merged into a threat.
LEMMA MergeKeeps ==
  ASSUME Inv, NEW r \in Reqs, MergeThreat(r)
  PROVE  Inv'
<1>1. PICK s : s = job[r]
  OBVIOUS
<1>2. Ingests(s) /\ job[r].pc # "close" /\ s.tid \in DOMAIN threat
  BY <1>1, Current, Places DEF MergeThreat, Storing, Ingests
<1>3. PICK c : threat' = [threat EXCEPT ![s.tid].sev = FinalSev(s), ![s.tid].at = day,
                                       ![s.tid].campaign = c]
  BY <1>1 DEF MergeThreat
<1>4. PICK x : x = [threat[s.tid] EXCEPT !.sev = FinalSev(s), !.at = day, !.campaign = c]
  OBVIOUS
<1>5. threat' = [threat EXCEPT ![s.tid] = x]
  BY <1>2, <1>3, <1>4
<1>6. PICK y : y = threat[s.tid]
  OBVIOUS
<1>7. IsThreat(y)
  BY <1>2, <1>6 DEF Inv, Rows
<1>8. /\ DOMAIN x = DOMAIN y /\ x.type = y.type /\ x.contract = y.contract
      /\ x.status = y.status /\ x.auto = y.auto /\ x.verification = y.verification
  BY <1>4, <1>6, <1>7 DEF IsThreat
<1>9. PICK j : IsJob(j) /\ job' = [job EXCEPT ![r] = j] /\ UNCHANGED <<wasBlocked, faults>>
  BY <1>1, <1>2, AfterThreatIs DEF MergeThreat
<1>10. UNCHANGED <<acted, blocked>>
  BY DEF MergeThreat
<1> QED BY <1>2, <1>5, <1>6, <1>8, <1>9, <1>10, Merged

\* A new threat is open and unverified.
LEMMA InsertKeeps ==
  ASSUME Inv, NEW r \in Reqs, InsertThreat(r)
  PROVE  Inv'
<1>1. PICK s : s = job[r]
  OBVIOUS
<1>2. Ingests(s) /\ job[r].pc # "close"
  BY <1>1, Current, Places DEF InsertThreat, Storing
<1>3. PICK x : x = [type |-> s.sig.type, contract |-> s.sig.contract,
                    campaign |-> IF v2 THEN s.camp ELSE 0, status |-> "open", sev |-> FinalSev(s),
                    at |-> day, verification |-> "pending", auto |-> FALSE]
  OBVIOUS
<1>4. IsThreat(x) /\ x.auto = FALSE /\ x.verification = "pending"
  BY <1>3 DEF IsThreat
<1>5. threat' = Append(threat, x)
  BY <1>1, <1>3 DEF InsertThreat
<1>6. PICK n : n = Len(threat) + 1
  OBVIOUS
<1>7. /\ IsSeq(threat') /\ DOMAIN threat' = DOMAIN threat \cup {n} /\ n \notin DOMAIN threat
      /\ \A i \in DOMAIN threat : threat'[i] = threat[i]
      /\ threat'[n] = x
  BY <1>5, <1>6, Appended DEF Inv, Rows
<1>8. PICK j : IsJob(j) /\ job' = [job EXCEPT ![r] = j] /\ UNCHANGED <<wasBlocked, faults>>
  BY <1>1, <1>2, AfterThreatIs DEF InsertThreat
<1>9. UNCHANGED <<acted, blocked>>
  BY DEF InsertThreat
<1>10. Grows
  BY <1>7, <1>8, <1>9 DEF Grows
<1>11. \A t \in DOMAIN threat' : IsThreat(threat'[t])
  BY <1>4, <1>7 DEF Inv, Rows
<1>12. ASSUME NEW t \in DOMAIN threat', threat'[t].auto \/ threat'[t].verification = "verified"
       PROVE  Evidence(t)'
  <2>1. t \in DOMAIN threat
    BY <1>4, <1>7, <1>12
  <2>2. Evidence(t)
    BY <1>7, <1>12, <2>1 DEF Inv, Rows, ClosedOnEvidence, Evidence
  <2> QED BY <1>10, <2>1, <2>2, EvidenceStays
<1>13. Rows'
  BY <1>7, <1>11, <1>12 DEF Rows, ClosedOnEvidence, Evidence, IsThreat
<1>14. IsJob(j)'
  BY <1>8, <1>10, JobStays
<1>15. Jobs'
  BY <1>8, <1>10, <1>14, JobsStay DEF Inv
<1>16. job' = [q \in Reqs |-> IF q = r THEN j ELSE job[q]]
  BY <1>8 DEF Inv, Jobs
<1>17. VerifiedIsClosed'
  <2>1. \A q \in Reqs : job[q].pc = "close" => job'[q] = job[q]
    BY <1>2, <1>16
  <2> QED BY <1>4, <1>7, <1>8, <2>1 DEF Inv, VerifiedIsClosed, OpenThreats
<1> QED BY <1>8, <1>9, <1>13, <1>15, <1>17 DEF Inv

\* The alert after a finding.
LEMMA CreateAlertKeeps ==
  ASSUME Inv, NEW r \in Reqs, CreateAlert(r)
  PROVE  Inv'
<1>1. job[r].pc # "close" /\ UNCHANGED <<threat, acted, blocked>> /\ Finish(r, Found(job[r]))
  BY DEF CreateAlert
<1> QED BY <1>1, FinishKeeps

-----------------------------------------------------------------------------
(* Verification *)

\* The threat under examination.
LEMMA ExaminedIs ==
  ASSUME NEW s, Verifies(s), s.pc = "actions", NEW t \in s.todo, NEW ok \in BOOLEAN, ok => Evidence(t)
  PROVE  Verifies(Examined(s, t, ok))
<1>1. PICK pc : pc = IF threat[t].type \in TxTypes /\ threat[t].contract # None THEN "blocked" ELSE "mark"
  OBVIOUS
<1>2. PICK j : j = [s EXCEPT !.tid = t, !.ok = ok, !.pc = pc]
  OBVIOUS
<1>3. /\ DOMAIN j = DOMAIN s /\ j.tid = t /\ j.ok = ok /\ j.pc = pc /\ j.todo = s.todo
  BY <1>2 DEF Verifies
<1>4. pc \in {"blocked", "mark"} /\ (pc = "blocked" => threat[t].type \in TxTypes)
  BY <1>1
<1>5. t \in DOMAIN threat
  BY DEF Verifies
<1>6. Verifies(j)
  BY <1>3, <1>4, <1>5 DEF Verifies
<1> QED BY <1>1, <1>2, <1>6 DEF Examined

\* After a threat, the next one or the score.
LEMMA NextThreatIs ==
  ASSUME NEW s, Verifies(s)
  PROVE  Verifies(NextThreat(s)) /\ NextThreat(s).pc # "close"
<1>1. PICK pc : pc = IF s.todo = {s.tid} THEN "cost" ELSE "actions"
  OBVIOUS
<1>2. PICK j : j = [s EXCEPT !.pc = pc, !.todo = @ \ {s.tid}, !.tid = 0, !.ok = FALSE]
  OBVIOUS
<1>3. DOMAIN j = DOMAIN s /\ j.pc = pc /\ j.todo = s.todo \ {s.tid}
  BY <1>2 DEF Verifies
<1>4. Verifies(j) /\ j.pc # "close"
  BY <1>1, <1>3 DEF Verifies
<1> QED BY <1>1, <1>2, <1>4 DEF NextThreat

\* A verification starts with threats that exist.
LEMMA VerificationIs ==
  ASSUME NEW did, NEW todo, todo \subseteq DOMAIN threat
  PROVE  IsJob(Verification(did, todo))
<1>1. PICK pc : pc = IF todo = {} THEN "cost" ELSE "actions"
  OBVIOUS
<1>2. PICK j : j = [pc |-> pc, did |-> did, todo |-> todo, tid |-> 0, ok |-> FALSE, cost |-> 0]
  OBVIOUS
<1>3. Verifies(j)
  BY <1>1, <1>2 DEF Verifies
<1> QED BY <1>1, <1>2, <1>3 DEF Verification, IsJob

\* The recorded actions and the blocked contracts are evidence.
LEMMA ReadKeeps ==
  ASSUME Inv, NEW r \in Reqs, ReadActions(r) \/ ReadBlocked(r)
  PROVE  Inv'
<1>1. PICK s : s = job[r]
  OBVIOUS
<1>2. Verifies(s) /\ job[r].pc # "close"
  BY <1>1, Current, Places DEF ReadActions, ReadBlocked
<1>3. UNCHANGED <<threat, acted, blocked>>
  BY DEF ReadActions, ReadBlocked, tables
<1>4. CASE ReadActions(r)
  <2>1. PICK t \in s.todo : Goto(r, Examined(s, t, Mitigated(t)))
    BY <1>1, <1>4 DEF ReadActions
  <2>2. s.pc = "actions" /\ Mitigated(t) \in BOOLEAN /\ (Mitigated(t) => Evidence(t))
    BY <1>1, <1>4 DEF ReadActions, Mitigated, Evidence
  <2>3. Verifies(Examined(s, t, Mitigated(t)))
    BY <1>2, <2>2, ExaminedIs
  <2> QED BY <1>2, <1>3, <2>1, <2>3, GotoKeeps DEF IsJob
<1>5. CASE ReadBlocked(r)
  <2>1. PICK ok : ok = (s.ok \/ threat[s.tid].contract \in blocked)
    OBVIOUS
  <2>2. PICK j : j = [s EXCEPT !.pc = "mark", !.ok = ok]
    OBVIOUS
  <2>3. s.pc = "blocked" /\ Goto(r, j)
    BY <1>1, <1>5, <2>1, <2>2 DEF ReadBlocked
  <2>4. s.ok \in BOOLEAN /\ (s.ok => Evidence(s.tid)) /\ threat[s.tid].type \in TxTypes
        /\ s.tid \in DOMAIN threat
    BY <1>2, <2>3 DEF Verifies
  <2>5. threat[s.tid].contract \in blocked => Evidence(s.tid)
    BY <2>4 DEF Inv, Evidence
  <2>6. ok \in BOOLEAN /\ (ok => Evidence(s.tid))
    BY <2>1, <2>4, <2>5
  <2>7. DOMAIN j = DOMAIN s /\ j.pc = "mark" /\ j.ok = ok /\ j.tid = s.tid /\ j.todo = s.todo
    BY <1>2, <2>2 DEF Verifies
  <2>8. Verifies(j)
    BY <1>2, <2>4, <2>6, <2>7 DEF Verifies
  <2> QED BY <1>2, <1>3, <2>3, <2>8, GotoKeeps DEF IsJob
<1> QED BY <1>4, <1>5

\* A threat is marked, and closed next if it was verified.
LEMMA MarkKeeps ==
  ASSUME Inv, NEW r \in Reqs, MarkVerification(r)
  PROVE  Inv'
<1>1. PICK s : s = job[r]
  OBVIOUS
<1>2. Verifies(s) /\ s.pc = "mark"
  BY <1>1, Current, Places DEF MarkVerification
<1>3. s.tid \in DOMAIN threat /\ s.ok \in BOOLEAN /\ (s.ok => Evidence(s.tid))
  BY <1>2 DEF Verifies
<1>4. PICK y : y = threat[s.tid]
  OBVIOUS
<1>5. IsThreat(y)
  BY <1>3, <1>4 DEF Inv, Rows
<1>6. PICK x : x = [y EXCEPT !.verification = Outcome(s)]
  OBVIOUS
<1>7. /\ DOMAIN x = DOMAIN y /\ x.type = y.type /\ x.contract = y.contract /\ x.status = y.status
      /\ x.auto = y.auto /\ x.verification = Outcome(s)
  BY <1>5, <1>6 DEF IsThreat
<1>8. threat' = [threat EXCEPT ![s.tid] = x]
  BY <1>1, <1>3, <1>4, <1>6 DEF MarkVerification
<1>9. Outcome(s) = "verified" => s.ok
  BY <1>3 DEF Outcome
<1>10. IsThreat(x)
  BY <1>5, <1>7 DEF IsThreat
<1>11. x.auto \/ x.verification = "verified" => Evidence(s.tid)
  BY <1>3, <1>4, <1>7, <1>9 DEF Inv, Rows, ClosedOnEvidence, Evidence
<1>12. UNCHANGED <<acted, blocked, wasBlocked, faults>>
  BY DEF MarkVerification, Goto
<1>13. Rows' /\ Grows
  BY <1>3, <1>4, <1>7, <1>8, <1>10, <1>11, <1>12, Touched
<1>14. PICK j : j = IF s.ok THEN [s EXCEPT !.pc = "close"] ELSE NextThreat(s)
  OBVIOUS
<1>15. job' = [job EXCEPT ![r] = j]
  BY <1>1, <1>14 DEF MarkVerification, Goto
<1>16. Verifies(j) /\ (s.ok => j.pc = "close" /\ j.tid = s.tid)
  <2>1. CASE s.ok
    <3>1. DOMAIN j = DOMAIN s /\ j.pc = "close" /\ j.tid = s.tid /\ j.todo = s.todo
      BY <1>2, <1>14, <2>1 DEF Verifies
    <3> QED BY <1>2, <1>3, <2>1, <3>1 DEF Verifies
  <2>2. CASE ~s.ok
    BY <1>2, <1>14, <2>2, NextThreatIs
  <2> QED BY <2>1, <2>2
<1>17. IsJob(j)'
  <2>1. IsJob(j)
    BY <1>16 DEF IsJob
  <2> QED BY <1>13, <2>1, JobStays
<1>18. Jobs'
  BY <1>13, <1>15, <1>17, JobsStay DEF Inv
<1>19. VerifiedIsClosed'
  <2>1. /\ DOMAIN threat' = DOMAIN threat
        /\ \A k \in DOMAIN threat : threat'[k] = IF k = s.tid THEN x ELSE threat[k]
    BY <1>3, <1>8, Changed DEF Inv, Rows
  <2>2. job' = [q \in Reqs |-> IF q = r THEN j ELSE job[q]]
    BY <1>15 DEF Inv, Jobs
  <2>3. ASSUME faults' = 0, NEW t \in DOMAIN threat', threat'[t].status = "open",
               threat'[t].verification = "verified"
        PROVE  \E q \in Reqs : job'[q].pc = "close" /\ job'[q].tid = t
    <3>1. CASE t = s.tid
      <4>1. s.ok
        BY <1>7, <1>9, <2>1, <2>3, <3>1
      <4> QED BY <1>16, <2>2, <3>1, <4>1
    <3>2. CASE t # s.tid
      <4>1. PICK q \in Reqs : job[q].pc = "close" /\ job[q].tid = t
        BY <1>12, <2>1, <2>3, <3>2 DEF Inv, VerifiedIsClosed, OpenThreats
      <4>2. q # r
        BY <1>1, <1>2, <4>1
      <4> QED BY <2>2, <4>1, <4>2
    <3> QED BY <3>1, <3>2
  <2> QED BY <2>3 DEF VerifiedIsClosed, OpenThreats
<1> QED BY <1>12, <1>13, <1>18, <1>19 DEF Inv

\* A row is closed: by the user, or by the request j that verified it.
LEMMA Closes ==
  ASSUME Inv, NEW t \in DOMAIN threat, NEW x, threat' = [threat EXCEPT ![t] = x],
         DOMAIN x = DOMAIN threat[t], x.type = threat[t].type, x.contract = threat[t].contract,
         x.status \in {"resolved", "dismissed"}, x.verification = threat[t].verification,
         x.auto => threat[t].auto \/ Evidence(t),
         UNCHANGED <<acted, blocked, wasBlocked, faults>>,
         \A q \in Reqs : job[q].pc = "close" /\ job[q].tid # t => job'[q] = job[q],
         Grows => Jobs'
  PROVE  Inv'
<1>1. IsThreat(x)
  BY DEF Inv, Rows, IsThreat
<1>2. x.auto \/ x.verification = "verified" => Evidence(t)
  BY DEF Inv, Rows, ClosedOnEvidence, Evidence
<1>3. Rows' /\ Grows
  BY <1>1, <1>2, Touched
<1>4. /\ DOMAIN threat' = DOMAIN threat
      /\ \A k \in DOMAIN threat : threat'[k] = IF k = t THEN x ELSE threat[k]
  BY Changed DEF Inv, Rows
<1>5. ASSUME faults' = 0, NEW k \in DOMAIN threat', threat'[k].status = "open",
             threat'[k].verification = "verified"
      PROVE  \E q \in Reqs : job'[q].pc = "close" /\ job'[q].tid = k
  <2>1. k # t /\ k \in DOMAIN threat /\ threat'[k] = threat[k]
    BY <1>4, <1>5
  <2>2. PICK q \in Reqs : job[q].pc = "close" /\ job[q].tid = k
    BY <1>5, <2>1 DEF Inv, VerifiedIsClosed, OpenThreats
  <2>3. job'[q] = job[q]
    BY <2>1, <2>2
  <2> QED BY <2>2, <2>3
<1>6. VerifiedIsClosed'
  BY <1>5 DEF VerifiedIsClosed, OpenThreats
<1> QED BY <1>3, <1>6 DEF Inv

\* The user closes a threat.
LEMMA UserClosesKeeps ==
  ASSUME Inv, NEW t \in DOMAIN threat, Resolve(t) \/ Dismiss(t)
  PROVE  Inv'
<1>1. PICK status : status \in {"resolved", "dismissed"} /\ threat' = [threat EXCEPT ![t].status = status]
  BY DEF Resolve, Dismiss, Close
<1>2. PICK y : y = threat[t]
  OBVIOUS
<1>3. IsThreat(y)
  BY <1>2 DEF Inv, Rows
<1>4. PICK x : x = [y EXCEPT !.status = status]
  OBVIOUS
<1>5. /\ DOMAIN x = DOMAIN y /\ x.type = y.type /\ x.contract = y.contract
      /\ x.status \in {"resolved", "dismissed"} /\ x.verification = y.verification /\ x.auto = y.auto
  BY <1>1, <1>3, <1>4 DEF IsThreat
<1>6. threat' = [threat EXCEPT ![t] = x]
  BY <1>1, <1>2, <1>4
<1>7. UNCHANGED <<acted, blocked, wasBlocked, faults, job>>
  BY DEF Resolve, Dismiss, Instant, Counted
<1>8. Grows => Jobs'
  BY <1>7, JobsRest DEF Inv
<1>9. x.auto => threat[t].auto \/ Evidence(t)
  BY <1>2, <1>5
<1> QED BY <1>2, <1>5, <1>6, <1>7, <1>8, <1>9, Closes

\* The verification closes its threat.
LEMMA CloseVerifiedKeeps ==
  ASSUME Inv, NEW r \in Reqs, CloseVerified(r)
  PROVE  Inv'
<1>1. PICK s : s = job[r]
  OBVIOUS
<1>2. Verifies(s) /\ s.pc = "close"
  BY <1>1, Current, Places DEF CloseVerified
<1>3. s.tid \in DOMAIN threat /\ Evidence(s.tid)
  BY <1>2 DEF Verifies
<1>4. PICK y : y = threat[s.tid]
  OBVIOUS
<1>5. IsThreat(y)
  BY <1>3, <1>4 DEF Inv, Rows
<1>6. PICK x : x = [y EXCEPT !.status = "resolved", !.auto = TRUE]
  OBVIOUS
<1>7. /\ DOMAIN x = DOMAIN y /\ x.type = y.type /\ x.contract = y.contract
      /\ x.status \in {"resolved", "dismissed"} /\ x.verification = y.verification
  BY <1>5, <1>6 DEF IsThreat
<1>8. threat' = [threat EXCEPT ![s.tid] = x]
  <2>1. threat' = [[threat EXCEPT ![s.tid].status = "resolved"] EXCEPT ![s.tid].auto = TRUE]
    BY <1>1 DEF CloseVerified, Close
  <2> QED BY <1>3, <1>4, <1>6, <2>1
<1>9. PICK j : j = NextThreat(s)
  OBVIOUS
<1>10. IsJob(j)
  BY <1>2, <1>9, NextThreatIs DEF IsJob
<1>11. job' = [job EXCEPT ![r] = j] /\ UNCHANGED <<acted, blocked, wasBlocked, faults>>
  BY <1>1, <1>9 DEF CloseVerified, Goto
<1>12. Grows => Jobs'
  BY <1>10, <1>11, JobStays, JobsStay DEF Inv
<1>13. \A q \in Reqs : job[q].pc = "close" /\ job[q].tid # s.tid => job'[q] = job[q]
  <2>1. job' = [q \in Reqs |-> IF q = r THEN j ELSE job[q]]
    BY <1>11 DEF Inv, Jobs
  <2> QED BY <1>1, <2>1
<1> QED BY <1>3, <1>4, <1>7, <1>8, <1>11, <1>12, <1>13, Closes

\* The score: reads and the store of it.
LEMMA ScoreKeeps ==
  ASSUME Inv, NEW r \in Reqs, ReadCost(r) \/ ReadRest(r) \/ StoreScore(r)
  PROVE  Inv'
<1>1. PICK s : s = job[r]
  OBVIOUS
<1>2. Verifies(s) /\ job[r].pc # "close"
  BY <1>1, Current, Places DEF ReadCost, ReadRest, StoreScore
<1>3. UNCHANGED <<threat, acted, blocked>>
  BY DEF ReadCost, ReadRest, StoreScore, tables
<1>4. ASSUME NEW pc \in {"rest", "store"}, NEW cost, Goto(r, [s EXCEPT !.pc = pc, !.cost = cost])
      PROVE  Inv'
  <2>1. PICK j : j = [s EXCEPT !.pc = pc, !.cost = cost]
    OBVIOUS
  <2>2. DOMAIN j = DOMAIN s /\ j.pc = pc /\ j.todo = s.todo
    BY <1>2, <2>1 DEF Verifies
  <2>3. Verifies(j)
    BY <1>2, <2>2 DEF Verifies
  <2> QED BY <1>2, <1>3, <1>4, <2>1, <2>3, GotoKeeps DEF IsJob
<1>5. CASE ReadCost(r)
  <2>1. PICK cost : Goto(r, [s EXCEPT !.pc = "rest", !.cost = cost])
    BY <1>1, <1>5 DEF ReadCost
  <2> QED BY <1>4, <2>1
<1>6. CASE ReadRest(r)
  <2>1. PICK cost : cost = s.cost + (IF v2 THEN CampaignCost ELSE AlertCost)
    OBVIOUS
  <2>2. Goto(r, [s EXCEPT !.pc = "store", !.cost = cost])
    BY <1>1, <1>2, <1>6, <2>1 DEF ReadRest, Verifies
  <2> QED BY <1>4, <2>2
<1>7. CASE StoreScore(r)
  <2>1. Finish(r, [did |-> s.did])
    BY <1>1, <1>7 DEF StoreScore
  <2> QED BY <1>2, <1>3, <2>1, FinishKeeps
<1> QED BY <1>5, <1>6, <1>7

\* The statements of requests.
LEMMA StepKeeps ==
  ASSUME Inv, NEW r \in Reqs, Step(r)
  PROVE  Inv'
BY IngestKeeps, FindKeeps, MergeKeeps, InsertKeeps, CreateAlertKeeps, ReadKeeps, MarkKeeps,
   CloseVerifiedKeeps, ScoreKeeps DEF Step

-----------------------------------------------------------------------------
(* Starts, statements of the user, failures *)

\* Requests that start.
LEMMA StartKeeps ==
  ASSUME Inv, NEW r \in Reqs,
         (\E s \in Load.signals : Analyse(r, s)) \/ (\E t \in DOMAIN threat : Verify(r, t))
           \/ VerifyAll(r) \/ Refresh(r)
  PROVE  Inv'
<1>1. ASSUME NEW s \in Load.signals, Analyse(r, s) PROVE Inv'
  <2>1. PICK j : j = [pc |-> "event", sig |-> s, ev |-> 0, corr |-> NoCorrelation,
                      camp |-> 0, tid |-> 0]
    OBVIOUS
  <2>2. IsJob(j)
    BY <2>1 DEF IsJob, Ingests, Ingesting
  <2>3. Begin(r, j)
    BY <1>1, <2>1 DEF Analyse
  <2> QED BY <2>2, <2>3, BeginKeeps
<1>2. ASSUME NEW did, NEW todo, todo \subseteq DOMAIN threat, Begin(r, Verification(did, todo))
      PROVE  Inv'
  BY <1>2, VerificationIs, BeginKeeps
<1>3. ASSUME NEW t \in DOMAIN threat, Verify(r, t) PROVE Inv'
  BY <1>2, <1>3 DEF Verify
<1>4. ASSUME VerifyAll(r) PROVE Inv'
  BY <1>2, <1>4 DEF VerifyAll, OpenThreats
<1>5. ASSUME Refresh(r) PROVE Inv'
  BY <1>2, <1>5 DEF Refresh
<1> QED BY <1>1, <1>3, <1>4, <1>5

\* Recorded actions, blocked contracts, read alerts, days, and nothing.
LEMMA AsideKeeps ==
  ASSUME Inv, \/ \E t \in DOMAIN threat, a \in Load.actions : RecordAction(t, a)
              \/ \E c \in Load.contracts : BlockContract(c) \/ UnblockContract(c)
              \/ MarkAlertsRead \/ NextDay \/ UNCHANGED vars
  PROVE  Inv'
<1>1. blocked \subseteq wasBlocked
  BY DEF Inv
<1>2. ASSUME NEW t \in DOMAIN threat, NEW a \in Load.actions, RecordAction(t, a) PROVE Inv'
  BY <1>1, <1>2, Aside DEF RecordAction, Instant, Counted
<1>3. ASSUME NEW c \in Load.contracts, BlockContract(c) \/ UnblockContract(c) PROVE Inv'
  BY <1>1, <1>3, Aside DEF BlockContract, UnblockContract, Instant, Counted
<1>4. ASSUME MarkAlertsRead \/ NextDay \/ UNCHANGED vars PROVE Inv'
  BY <1>1, <1>4, Aside DEF MarkAlertsRead, NextDay, Instant, Counted, vars, tables
<1> QED BY <1>2, <1>3, <1>4

\* Requests that die, and failures that handlers drop.
LEMMA FaultKeeps ==
  ASSUME Inv, NEW r \in Reqs, Abandon(r) \/ Swallow(r) \/ MissEvidence(r)
  PROVE  Inv'
<1>1. PICK s : s = job[r]
  OBVIOUS
<1>2. IsJob(Idle)
  BY DEF IsJob
<1>3. CASE Abandon(r)
  BY <1>2, <1>3, Failed DEF Abandon
<1>4. CASE Swallow(r)
  <2>1. Ingests(s)
    BY <1>1, <1>4, Current, Places DEF Swallow
  <2>2. PICK k : k = IF s.pc \in Ingesting THEN [s EXCEPT !.camp = 0, !.corr = NoCorrelation] ELSE s
    OBVIOUS
  <2>3. DOMAIN k = DOMAIN s
    BY <2>1, <2>2 DEF Ingests
  <2>4. ASSUME NEW pc \in {"byContract", "insert", "alert"}, job' = [job EXCEPT ![r] = [k EXCEPT !.pc = pc]]
        PROVE  Inv'
    <3>1. PICK j : j = [k EXCEPT !.pc = pc]
      OBVIOUS
    <3>2. DOMAIN j = DOMAIN s /\ j.pc = pc
      BY <2>1, <2>3, <3>1 DEF Ingests
    <3>3. Ingests(j)
      BY <2>1, <3>2 DEF Ingests, Storing
    <3> QED BY <1>4, <2>4, <3>1, <3>3, Failed DEF IsJob, Swallow
  <2>5. ByContractOrInsert(k) \in {"byContract", "insert"}
    BY DEF ByContractOrInsert
  <2>6. CASE job' = [job EXCEPT ![r] = Idle]
    BY <1>2, <1>4, <2>6, Failed DEF Swallow
  <2>7. CASE job' = [job EXCEPT ![r] = [k EXCEPT !.pc = ByContractOrInsert(k)]]
    BY <2>4, <2>5, <2>7
  <2>8. CASE job' = [job EXCEPT ![r] = [k EXCEPT !.pc = "alert"]]
    BY <2>4, <2>8
  <2> QED BY <1>1, <1>4, <2>2, <2>6, <2>7, <2>8 DEF Swallow
<1>5. CASE MissEvidence(r)
  <2>1. Verifies(s)
    BY <1>1, <1>5, Current, Places DEF MissEvidence
  <2>2. CASE s.pc = "actions" /\ \E t \in s.todo : job' = [job EXCEPT ![r] = Examined(s, t, FALSE)]
    <3>1. PICK t \in s.todo : job' = [job EXCEPT ![r] = Examined(s, t, FALSE)]
      BY <2>2
    <3>2. Verifies(Examined(s, t, FALSE))
      BY <2>1, <2>2, ExaminedIs
    <3> QED BY <1>5, <3>1, <3>2, Failed DEF IsJob, MissEvidence
  <2>3. CASE s.pc = "blocked" /\ job' = [job EXCEPT ![r].pc = "mark"]
    <3>1. PICK j : j = [s EXCEPT !.pc = "mark"]
      OBVIOUS
    <3>2. job' = [job EXCEPT ![r] = j]
      BY <1>1, <2>3, <3>1 DEF Inv, Jobs
    <3>3. DOMAIN j = DOMAIN s /\ j.pc = "mark" /\ j.ok = s.ok /\ j.tid = s.tid /\ j.todo = s.todo
      BY <2>1, <3>1 DEF Verifies
    <3>4. Verifies(j)
      BY <2>1, <2>3, <3>3 DEF Verifies
    <3> QED BY <1>5, <3>2, <3>4, Failed DEF IsJob, MissEvidence
  <2> QED BY <1>1, <1>5, <2>2, <2>3 DEF MissEvidence
<1> QED BY <1>3, <1>4, <1>5

-----------------------------------------------------------------------------
(* The theorems *)

\* The invariant holds of the initial state.
LEMMA InitInv ==
  ASSUME Init
  PROVE  Inv
<1>1. threat \in Seq({}) /\ DOMAIN threat = {}
  BY DEF Init
<1>2. Rows
  BY <1>1 DEF Rows, IsSeq, ClosedOnEvidence
<1>3. Jobs
  BY DEF Init, Jobs, IsJob
<1>4. VerifiedIsClosed
  BY <1>1 DEF VerifiedIsClosed, OpenThreats
<1> QED BY <1>2, <1>3, <1>4 DEF Init, Inv

\* Every step keeps it.
LEMMA NextInv ==
  ASSUME Inv, [Next]_vars
  PROVE  Inv'
BY StepKeeps, StartKeeps, AsideKeeps, FaultKeeps, UserClosesKeeps DEF Next

\* The invariant of the theorems below: the evidence a verification has read stays
\* evidence until it marks and closes its threat.
THEOREM InvHolds == Spec => []Inv
<1>1. Init => Inv
  BY InitInv
<1>2. Inv /\ [Next]_vars => Inv'
  BY NextInv
<1> QED BY <1>1, <1>2, PTL DEF Spec

\* A threat that a verification closed or marked as verified had its evidence, however
\* requests interleave and fail.
THEOREM EvidenceHolds == Spec => []ClosedOnEvidence
<1>1. Inv => ClosedOnEvidence
  BY DEF Inv, Rows
<1> QED BY <1>1, InvHolds, PTL

\* A threat shown as verified is closed or about to be, as long as nothing fails.
THEOREM VerifiedHolds == Spec => []VerifiedIsClosed
<1>1. Inv => VerifiedIsClosed
  BY DEF Inv
<1> QED BY <1>1, InvHolds, PTL

\* What a verification says of a threat is true: both of the above.
THEOREM VerificationHolds == Spec => []VerificationIsTrue
<1>1. Inv => VerificationIsTrue
  BY DEF Inv, Rows, VerificationIsTrue
<1> QED BY <1>1, InvHolds, PTL

\* No step reopens a threat.
LEMMA NoneReopens ==
  ASSUME Inv, Next, NEW t \in DOMAIN threat, threat[t].status # "open"
  PROVE  threat'[t].status # "open"
<1>1. IsSeq(threat) /\ IsThreat(threat[t])
  BY DEF Inv, Rows
<1>2. ASSUME NEW i \in DOMAIN threat, NEW x, threat' = [threat EXCEPT ![i] = x],
             x.status \in {threat[i].status, "resolved", "dismissed"}
      PROVE  threat'[t].status # "open"
  BY <1>1, <1>2, Changed
<1>3. ASSUME NEW r \in Reqs, MergeThreat(r) PROVE threat'[t].status # "open"
  <2>1. PICK s : s = job[r]
    OBVIOUS
  <2>2. s.tid \in DOMAIN threat
    BY <1>3, <2>1, Current, Places DEF MergeThreat, Storing, Ingests
  <2>3. PICK c : threat' = [threat EXCEPT ![s.tid].sev = FinalSev(s), ![s.tid].at = day,
                                         ![s.tid].campaign = c]
    BY <1>3, <2>1 DEF MergeThreat
  <2>4. PICK x : x = [threat[s.tid] EXCEPT !.sev = FinalSev(s), !.at = day, !.campaign = c]
    OBVIOUS
  <2>5. x.status = threat[s.tid].status
    BY <2>2, <2>4 DEF Inv, Rows, IsThreat
  <2>6. threat' = [threat EXCEPT ![s.tid] = x]
    BY <2>2, <2>3, <2>4
  <2> QED BY <1>2, <2>2, <2>5, <2>6
<1>4. ASSUME NEW r \in Reqs, InsertThreat(r) PROVE threat'[t].status # "open"
  <2>1. PICK x : threat' = Append(threat, x)
    BY <1>4 DEF InsertThreat
  <2> QED BY <1>1, <2>1, Appended
<1>5. ASSUME NEW r \in Reqs, MarkVerification(r) PROVE threat'[t].status # "open"
  <2>1. PICK s : s = job[r]
    OBVIOUS
  <2>2. s.tid \in DOMAIN threat
    BY <1>5, <2>1, Current, Places DEF MarkVerification, Verifies
  <2>3. PICK x : x = [threat[s.tid] EXCEPT !.verification = Outcome(s)]
    OBVIOUS
  <2>4. x.status = threat[s.tid].status
    BY <2>2, <2>3 DEF Inv, Rows, IsThreat
  <2>5. threat' = [threat EXCEPT ![s.tid] = x]
    BY <1>5, <2>1, <2>2, <2>3 DEF MarkVerification
  <2> QED BY <1>2, <2>2, <2>4, <2>5
<1>6. ASSUME NEW r \in Reqs, CloseVerified(r) PROVE threat'[t].status # "open"
  <2>1. PICK s : s = job[r]
    OBVIOUS
  <2>2. s.tid \in DOMAIN threat
    BY <1>6, <2>1, Current, Places DEF CloseVerified, Verifies
  <2>3. PICK x : x = [threat[s.tid] EXCEPT !.status = "resolved", !.auto = TRUE]
    OBVIOUS
  <2>4. x.status = "resolved"
    BY <2>2, <2>3 DEF Inv, Rows, IsThreat
  <2>5. threat' = [[threat EXCEPT ![s.tid].status = "resolved"] EXCEPT ![s.tid].auto = TRUE]
    BY <1>6, <2>1 DEF CloseVerified, Close
  <2>6. threat' = [threat EXCEPT ![s.tid] = x]
    BY <2>2, <2>3, <2>5
  <2> QED BY <1>2, <2>2, <2>4, <2>6
<1>7. ASSUME NEW i \in DOMAIN threat, Resolve(i) \/ Dismiss(i) PROVE threat'[t].status # "open"
  <2>1. PICK status : status \in {"resolved", "dismissed"} /\ threat' = [threat EXCEPT ![i].status = status]
    BY <1>7 DEF Resolve, Dismiss, Close
  <2>2. PICK x : x = [threat[i] EXCEPT !.status = status]
    OBVIOUS
  <2>3. x.status = status
    BY <2>2 DEF Inv, Rows, IsThreat
  <2>4. threat' = [threat EXCEPT ![i] = x]
    BY <2>1, <2>2
  <2> QED BY <1>2, <2>1, <2>3, <2>4
<1>8. ASSUME NEW r \in Reqs, Step(r) PROVE threat' = threat \/ threat'[t].status # "open"
  BY <1>3, <1>4, <1>5, <1>6, <1>8
     DEF Step, RecordEvent, ReadEvents, FindCampaign, WriteCampaign, AddEvidence, FindByCampaign,
         FindByContract, Select, CreateAlert, ReadActions, ReadBlocked, ReadCost, ReadRest,
         StoreScore, tables
<1>9. ASSUME NEW r \in Reqs, Abandon(r) \/ Swallow(r) \/ MissEvidence(r) PROVE threat' = threat
  BY <1>9 DEF Abandon, Swallow, MissEvidence, Fault, tables
<1>10. ASSUME NEW r \in Reqs, NEW j, Begin(r, j) PROVE threat' = threat
  BY <1>10 DEF Begin, tables
<1>11. ASSUME NEW r \in Reqs,
              (\E s \in Load.signals : Analyse(r, s)) \/ (\E i \in DOMAIN threat : Verify(r, i))
                \/ VerifyAll(r) \/ Refresh(r)
       PROVE  threat' = threat
  BY <1>10, <1>11 DEF Analyse, Verify, VerifyAll, Refresh
<1>12. ASSUME \/ \E i \in DOMAIN threat, a \in Load.actions : RecordAction(i, a)
              \/ \E c \in Load.contracts : BlockContract(c) \/ UnblockContract(c)
              \/ MarkAlertsRead \/ NextDay
       PROVE  threat' = threat
  BY <1>12 DEF RecordAction, BlockContract, UnblockContract, MarkAlertsRead, NextDay, tables
<1> QED BY <1>7, <1>8, <1>9, <1>11, <1>12 DEF Next

\* No request reopens a threat, whatever it read before.
THEOREM ClosedHolds == Spec => ClosedStaysClosed
<1> DEFINE Stays == \A t \in DOMAIN threat : threat[t].status # "open" => threat'[t].status # "open"
<1>1. Inv /\ [Next]_vars => [Stays]_vars
  BY NoneReopens
<1> HIDE DEF Stays
<1>2. Spec => [][Stays]_vars
  BY <1>1, InvHolds, PTL DEF Spec
<1> QED BY <1>2 DEF Stays, ClosedStaysClosed

-----------------------------------------------------------------------------
(* The types of the tables, and that scores and risks keep their bounds      *)

IsEvent(e) == e.risk \in 1 .. 100 /\ e.conf \in 1 .. 100

IsCampaign(c) == /\ DOMAIN c = {"type", "risk", "conf", "seen"}
                 /\ c.risk \in 1 .. 100 /\ c.conf \in 1 .. 100 /\ c.seen \in Int

\* What a request holds: the verdict of an analysis and the rows it found or made, and
\* the half of a score.
Holds(j) ==
  /\ "sig" \in DOMAIN j =>
       /\ j.sig \in SignalType /\ j.camp \in {0} \cup DOMAIN campaign
       /\ j.pc \in {"events", "find", "campaign", "evidence"} => j.ev \in DOMAIN event
       /\ j.pc = "events" => event[j.ev].at = day
       /\ j.pc \in {"find", "campaign"} => j.corr.risk \in 1 .. 100 /\ j.corr.conf \in 1 .. 100
       /\ j.pc = "evidence" => j.camp # 0
  /\ "cost" \in DOMAIN j => j.cost \in Int

Analysed == /\ IsSeq(event) /\ \A i \in DOMAIN event : IsEvent(event[i])
            /\ IsSeq(campaign) /\ \A k \in DOMAIN campaign : IsCampaign(campaign[k])
            /\ evidence \subseteq (DOMAIN campaign) \X (DOMAIN event)

Stored == /\ \A t \in DOMAIN threat :
                /\ threat[t].campaign \in {0} \cup DOMAIN campaign
                /\ threat[t].verification \in {"pending", "verified", "failed", "not_applicable"}
          /\ acted \subseteq (DOMAIN threat) \X Actions
          /\ wasBlocked \subseteq Contracts

Rest == /\ v2 \in BOOLEAN /\ crowd \in Crowds /\ day \in Nat
        /\ IsSeq(alert) /\ score \in 0 .. 100

Typed == Analysed /\ Stored /\ Rest /\ \A r \in Reqs : Holds(job[r])

\* A set of numbers up to 100 has a largest one.
LEMMA TopIs ==
  ASSUME NEW S, S \subseteq 1 .. 100, S # {}
  PROVE  Top(S) \in S
<1> DEFINE Below == {p \in Nat \X Nat : p[1] < p[2]}
           T == {100 - n : n \in S}
<1>1. IsWellFoundedOn(Below, Nat)
  BY NatLessThanWellFounded DEF OpToRel
<1>2. T \subseteq Nat /\ T # {}
  <2>1. \A n \in S : n \in 1 .. 100 /\ 100 - n \in Nat
    OBVIOUS
  <2>2. PICK n : n \in S
    OBVIOUS
  <2>3. 100 - n \in T
    BY <2>2
  <2> QED BY <2>1, <2>3
<1> HIDE DEF Below
<1>3. PICK m \in T : \A k \in T : ~ (<<k, m>> \in Below)
  BY <1>1, <1>2, WFMin
<1>4. PICK n \in S : m = 100 - n
  BY <1>3
<1>5. ASSUME NEW k \in S PROVE k <= n
  <2>1. 100 - k \in T /\ 100 - k \in Nat /\ m \in Nat
    BY <1>2, <1>3
  <2>2. ~ (<<100 - k, m>> \in Below)
    BY <1>3, <2>1
  <2>3. ~ (100 - k < m)
    BY <2>1, <2>2 DEF Below
  <2>4. k \in Int /\ n \in Int
    OBVIOUS
  <2> QED BY <1>4, <2>3, <2>4
<1>6. \E x \in S : \A k \in S : k <= x
  BY <1>5
<1> QED BY <1>6 DEF Top

\* A percentage.
LEMMA PercentIs ==
  ASSUME NEW n \in Int
  PROVE  Percent(n) \in 0 .. 100 /\ (n >= 1 => Percent(n) \in 1 .. 100)
BY DEF Percent

\* A correlation of events has their bounds, bonuses included.
LEMMA CorrelationIs ==
  ASSUME NEW E, E \subseteq DOMAIN event, E # {}, \A i \in DOMAIN event : IsEvent(event[i])
  PROVE  Correlation(E).risk \in 1 .. 100 /\ Correlation(E).conf \in 1 .. 100
<1>1. Top({ event[i].risk : i \in E }) \in 1 .. 100
  <2>1. { event[i].risk : i \in E } \subseteq 1 .. 100 /\ { event[i].risk : i \in E } # {}
    BY DEF IsEvent
  <2> QED BY <2>1, TopIs
<1>2. Top({ event[i].conf : i \in E }) \in 1 .. 100
  <2>1. { event[i].conf : i \in E } \subseteq 1 .. 100 /\ { event[i].conf : i \in E } # {}
    BY DEF IsEvent
  <2> QED BY <2>1, TopIs
<1>3. PICK risk \in 1 .. 100 : risk = Top({ event[i].risk : i \in E })
  BY <1>1
<1>4. PICK conf \in 1 .. 100 : conf = Larger(risk, Top({ event[i].conf : i \in E }))
  BY <1>2 DEF Larger
<1>5. ASSUME NEW cond, NEW n \in Nat PROVE When(cond, n) \in Nat
  BY DEF When
<1>6. PICK a \in Nat : a = When(Sequence(E), 8)
  BY <1>5
<1>7. PICK b \in Nat : b = When(Cardinality({ event[i].cat : i \in E }) >= 3, 6)
  BY <1>5
<1>8. PICK c \in Nat : c = When(Cardinality({ event[i].cat : i \in E }) >= 2, 10)
  BY <1>5
<1>9. PICK d \in Nat : d = When(Sequence(E), 10)
  BY <1>5
<1>10. PICK e \in Nat : e = When(Repeated(E), 8)
  BY <1>5
<1>11. Correlation(E).risk = Percent(risk + a + b) /\ Correlation(E).conf = Percent(conf + c + d + e)
  BY <1>3, <1>4, <1>6, <1>7, <1>8, <1>9, <1>10 DEF Correlation
<1>12. risk + a + b \in Int /\ risk + a + b >= 1 /\ conf + c + d + e \in Int /\ conf + c + d + e >= 1
  OBVIOUS
<1> QED BY <1>11, <1>12, PercentIs
\* What a request holds it still holds when rows were added.
LEMMA HoldsStays ==
  ASSUME DOMAIN campaign \subseteq DOMAIN campaign', DOMAIN event \subseteq DOMAIN event',
         \A i \in DOMAIN event : event'[i] = event[i], day' = day, NEW j, Holds(j)
  PROVE  Holds(j)'
BY DEF Holds

\* The jobs after a step of one request.
LEMMA HeldAfter ==
  ASSUME Inv, Typed, DOMAIN campaign \subseteq DOMAIN campaign', DOMAIN event \subseteq DOMAIN event',
         \A i \in DOMAIN event : event'[i] = event[i], day' = day,
         NEW r \in Reqs, NEW j, job' = [job EXCEPT ![r] = j], Holds(j)'
  PROVE  \A q \in Reqs : Holds(job[q])'
<1>1. job' = [q \in Reqs |-> IF q = r THEN j ELSE job[q]]
  BY DEF Inv, Jobs
<1>2. ASSUME NEW q \in Reqs PROVE Holds(job[q])'
  <2>1. CASE q = r
    <3>1. job'[q] = j
      BY <1>1, <2>1
    <3> QED BY <3>1
  <2>2. CASE q # r
    <3>1. PICK s : s = job[q]
      OBVIOUS
    <3>2. Holds(s)'
      BY <3>1, HoldsStays DEF Typed
    <3>3. job'[q] = s
      BY <1>1, <2>2, <3>1
    <3> QED BY <3>2, <3>3
  <2> QED BY <2>1, <2>2
<1> QED BY <1>2

\* A step of one request that leaves the tables.
LEMMA TypedMoved ==
  ASSUME Inv, Typed, NEW r \in Reqs, NEW j, job' = [job EXCEPT ![r] = j], Holds(j),
         UNCHANGED <<v2, crowd, tables, day, wasBlocked>>
  PROVE  Typed'
<1>1. UNCHANGED <<event, campaign, evidence, threat, acted, alert, score>>
  BY DEF tables
<1>2. Holds(j)'
  BY <1>1, HoldsStays
<1>3. \A q \in Reqs : Holds(job[q])'
  BY <1>1, <1>2, HeldAfter
<1>4. Analysed' /\ Stored' /\ Rest'
  BY <1>1 DEF Typed, Analysed, Stored, Rest, IsSeq, IsEvent, IsCampaign
<1> QED BY <1>3, <1>4 DEF Typed

\* The campaign found is one.
LEMMA RunningIs ==
  ASSUME NEW type
  PROVE  RunningOf(type) \subseteq DOMAIN campaign
BY DEF RunningOf

\* After the correlation and after the threat a request goes on with what it holds.
LEMMA HoldsOn ==
  ASSUME NEW r \in Reqs, NEW j, Ingests(j), Holds(j), AfterIngest(r, j) \/ AfterThreat(r, j)
  PROVE  \E k : Holds(k) /\ job' = [job EXCEPT ![r] = k] /\ UNCHANGED <<v2, crowd, day, wasBlocked>>
<1>1. Holds(Idle)
  BY DEF Holds, Idle
<1>2. ASSUME NEW did, Finish(r, did)
      PROVE  job' = [job EXCEPT ![r] = Idle] /\ UNCHANGED <<v2, crowd, day, wasBlocked>>
  BY <1>2 DEF Finish
<1>3. ASSUME NEW pc \in Storing \cup {"alert"}, Goto(r, [j EXCEPT !.pc = pc])
      PROVE  \E k : Holds(k) /\ job' = [job EXCEPT ![r] = k] /\ UNCHANGED <<v2, crowd, day, wasBlocked>>
  <2>1. PICK k : k = [j EXCEPT !.pc = pc]
    OBVIOUS
  <2>2. /\ DOMAIN k = DOMAIN j /\ k.pc = pc /\ k.sig = j.sig /\ k.camp = j.camp
    BY <2>1 DEF Ingests
  <2>3. Holds(k)
    BY <2>2 DEF Holds, Storing, Ingests
  <2> QED BY <1>3, <2>1, <2>3 DEF Goto
<1>4. CASE AfterIngest(r, j)
  <2>1. (IF Joined(j) THEN "byCampaign" ELSE ByContractOrInsert(j)) \in Storing \cup {"alert"}
    BY DEF ByContractOrInsert, Storing
  <2> QED BY <1>1, <1>2, <1>3, <1>4, <2>1 DEF AfterIngest
<1>5. CASE AfterThreat(r, j)
  BY <1>1, <1>2, <1>3, <1>5 DEF AfterThreat
<1> QED BY <1>4, <1>5

\* The event is stored.
LEMMA RecordEventTyped ==
  ASSUME Inv, Typed, NEW r \in Reqs, RecordEvent(r)
  PROVE  Typed'
<1>1. PICK s : s = job[r]
  OBVIOUS
<1>2. Ingests(s) /\ Holds(s)
  BY <1>1, Current, Places DEF RecordEvent, Ingesting, Typed
<1>3. PICK n : n = Len(event) + 1
  OBVIOUS
<1>4. PICK e : e = [cat |-> s.sig.cat, stage |-> s.sig.stage, risk |-> s.sig.risk,
                    conf |-> Confidence(s.sig), contract |-> s.sig.contract,
                    domain |-> s.sig.domain, at |-> day]
  OBVIOUS
<1>5. PICK j : j = [s EXCEPT !.pc = "events", !.ev = n]
  OBVIOUS
<1>6. event' = Append(event, e) /\ job' = [job EXCEPT ![r] = j]
      /\ UNCHANGED <<campaign, evidence, threat, acted, blocked, alert, score, v2, crowd, day, wasBlocked>>
  BY <1>1, <1>3, <1>4, <1>5 DEF RecordEvent, Goto
<1>7. /\ IsSeq(event') /\ DOMAIN event' = DOMAIN event \cup {n}
      /\ \A i \in DOMAIN event : event'[i] = event[i]
      /\ event'[n] = e
  BY <1>3, <1>6, Appended DEF Typed, Analysed
<1>8. s.sig \in SignalType
  BY <1>2 DEF Holds, Ingests
<1>9. s.sig.risk \in 1 .. 100
  BY <1>8 DEF SignalType
<1>10. Confidence(s.sig) \in 1 .. 100
  BY DEF Confidence
<1>11. IsEvent(e) /\ e.at = day
  BY <1>4, <1>9, <1>10 DEF IsEvent
<1>12. Analysed'
  BY <1>6, <1>7, <1>11 DEF Typed, Analysed, IsCampaign, IsSeq
<1>13. DOMAIN j = DOMAIN s /\ j.pc = "events" /\ j.ev = n /\ j.sig = s.sig /\ j.camp = s.camp
  BY <1>2, <1>5 DEF Ingests
<1>14. Holds(j)'
  BY <1>2, <1>6, <1>7, <1>11, <1>13 DEF Holds, Ingests
<1>15. \A q \in Reqs : Holds(job[q])'
  BY <1>6, <1>7, <1>14, HeldAfter
<1>16. Stored' /\ Rest'
  BY <1>6 DEF Typed, Stored, Rest, IsSeq
<1> QED BY <1>12, <1>15, <1>16 DEF Typed

\* Its correlation with those of the last day: the event itself is among them.
LEMMA ReadEventsTyped ==
  ASSUME Inv, Typed, NEW r \in Reqs, ReadEvents(r)
  PROVE  Typed'
<1>1. PICK s : s = job[r]
  OBVIOUS
<1>2. Ingests(s) /\ Holds(s) /\ s.pc = "events"
  BY <1>1, Current, Places DEF ReadEvents, Ingesting, Typed
<1>3. PICK E : E = { i \in DOMAIN event : Recent(event[i].at, LookbackDays) }
  OBVIOUS
<1>4. s.ev \in E
  <2>1. s.ev \in DOMAIN event /\ event[s.ev].at = day
    BY <1>2 DEF Holds, Ingests
  <2>2. Recent(day, LookbackDays)
    BY DaysNat DEF Recent, Typed, Rest
  <2> QED BY <1>3, <2>1, <2>2
<1>5. PICK c : c = Correlation(E)
  OBVIOUS
<1>6. c.risk \in 1 .. 100 /\ c.conf \in 1 .. 100
  BY <1>3, <1>4, <1>5, CorrelationIs DEF Typed, Analysed
<1>7. UNCHANGED tables
  BY DEF ReadEvents
<1>8. CASE Goto(r, [s EXCEPT !.pc = "find", !.corr = c])
  <2>1. PICK j : j = [s EXCEPT !.pc = "find", !.corr = c]
    OBVIOUS
  <2>2. DOMAIN j = DOMAIN s /\ j.pc = "find" /\ j.corr = c /\ j.sig = s.sig /\ j.camp = s.camp
        /\ j.ev = s.ev
    BY <1>2, <2>1 DEF Ingests
  <2>3. Holds(j)
    BY <1>2, <1>6, <2>2 DEF Holds, Ingests
  <2>4. job' = [job EXCEPT ![r] = j] /\ UNCHANGED <<v2, crowd, day, wasBlocked>>
    BY <1>8, <2>1 DEF Goto
  <2> QED BY <1>7, <2>3, <2>4, TypedMoved
<1>9. CASE AfterIngest(r, s)
  <2>1. PICK k : Holds(k) /\ job' = [job EXCEPT ![r] = k] /\ UNCHANGED <<v2, crowd, day, wasBlocked>>
    BY <1>2, <1>9, HoldsOn
  <2> QED BY <1>7, <2>1, TypedMoved
<1> QED BY <1>1, <1>3, <1>5, <1>8, <1>9 DEF ReadEvents

\* The campaign it joins.
LEMMA FindCampaignTyped ==
  ASSUME Inv, Typed, NEW r \in Reqs, FindCampaign(r)
  PROVE  Typed'
<1>1. PICK s : s = job[r]
  OBVIOUS
<1>2. Ingests(s) /\ Holds(s) /\ s.pc = "find"
  BY <1>1, Current, Places DEF FindCampaign, Ingesting, Typed
<1>3. PICK k \in {0} \cup DOMAIN campaign : Goto(r, [s EXCEPT !.pc = "campaign", !.camp = k])
  BY <1>1, RunningIs DEF FindCampaign, Newest
<1>4. PICK j : j = [s EXCEPT !.pc = "campaign", !.camp = k]
  OBVIOUS
<1>5. DOMAIN j = DOMAIN s /\ j.pc = "campaign" /\ j.corr = s.corr /\ j.sig = s.sig /\ j.camp = k
      /\ j.ev = s.ev
  BY <1>2, <1>4 DEF Ingests
<1>6. Holds(j)
  BY <1>2, <1>5 DEF Holds, Ingests
<1>7. job' = [job EXCEPT ![r] = j] /\ UNCHANGED <<v2, crowd, tables, day, wasBlocked>>
  BY <1>3, <1>4 DEF Goto, FindCampaign
<1> QED BY <1>6, <1>7, TypedMoved

\* The campaign is written.
LEMMA WriteCampaignTyped ==
  ASSUME Inv, Typed, NEW r \in Reqs, WriteCampaign(r)
  PROVE  Typed'
<1>1. PICK s : s = job[r]
  OBVIOUS
<1>2. Ingests(s) /\ Holds(s) /\ s.pc = "campaign"
  BY <1>1, Current, Places DEF WriteCampaign, Ingesting, Typed
<1>3. PICK c : c = [type |-> s.corr.type, risk |-> s.corr.risk, conf |-> s.corr.conf, seen |-> day]
  OBVIOUS
<1>4. IsCampaign(c)
  <2>1. s.corr.risk \in 1 .. 100 /\ s.corr.conf \in 1 .. 100 /\ day \in Int
    BY <1>2 DEF Holds, Ingests, Typed, Rest
  <2> QED BY <1>3, <2>1 DEF IsCampaign
<1>5. UNCHANGED <<event, evidence, threat, acted, blocked, alert, score, v2, crowd, day, wasBlocked>>
  BY DEF WriteCampaign, Goto
<1>6. PICK n \in DOMAIN campaign' :
        /\ n # 0 /\ IsSeq(campaign') /\ DOMAIN campaign \subseteq DOMAIN campaign'
        /\ \A k \in DOMAIN campaign' : campaign'[k] = c \/ (campaign'[k] = campaign[k] /\ k \in DOMAIN campaign)
        /\ job' = [job EXCEPT ![r] = [s EXCEPT !.pc = "evidence", !.camp = n]]
  <2>1. CASE s.camp # 0
    <3>1. s.camp \in DOMAIN campaign
      BY <1>2, <2>1 DEF Holds, Ingests
    <3>2. campaign' = [campaign EXCEPT ![s.camp] = c] /\ job' = [job EXCEPT ![r] = [s EXCEPT !.pc = "evidence"]]
      BY <1>1, <1>3, <2>1 DEF WriteCampaign, Goto
    <3>3. [s EXCEPT !.pc = "evidence"] = [s EXCEPT !.pc = "evidence", !.camp = s.camp]
      BY <1>2 DEF Ingests
    <3>4. /\ IsSeq(campaign') /\ DOMAIN campaign' = DOMAIN campaign
          /\ \A k \in DOMAIN campaign : campaign'[k] = IF k = s.camp THEN c ELSE campaign[k]
      BY <3>1, <3>2, Changed DEF Typed, Analysed
    <3> QED BY <2>1, <3>1, <3>2, <3>3, <3>4
  <2>2. CASE s.camp = 0
    <3>1. PICK n : n = Len(campaign) + 1
      OBVIOUS
    <3>2. campaign' = Append(campaign, c)
          /\ job' = [job EXCEPT ![r] = [s EXCEPT !.pc = "evidence", !.camp = n]]
      BY <1>1, <1>3, <2>2, <3>1 DEF WriteCampaign, Goto
    <3>3. /\ IsSeq(campaign') /\ DOMAIN campaign' = DOMAIN campaign \cup {n}
          /\ \A k \in DOMAIN campaign : campaign'[k] = campaign[k]
          /\ campaign'[n] = c
      BY <3>1, <3>2, Appended DEF Typed, Analysed
    <3>4. n # 0
      <4>1. PICK S : campaign \in Seq(S)
        BY DEF Typed, Analysed, IsSeq
      <4>2. Len(campaign) \in Nat
        BY <4>1
      <4> QED BY <3>1, <4>2
    <3> QED BY <3>2, <3>3, <3>4
  <2> QED BY <2>1, <2>2
<1>7. PICK j : j = [s EXCEPT !.pc = "evidence", !.camp = n]
  OBVIOUS
<1>8. DOMAIN j = DOMAIN s /\ j.pc = "evidence" /\ j.sig = s.sig /\ j.camp = n /\ j.ev = s.ev
  BY <1>2, <1>7 DEF Ingests
<1>9. Holds(j)'
  BY <1>2, <1>5, <1>6, <1>8 DEF Holds, Ingests
<1>10. \A q \in Reqs : Holds(job[q])'
  BY <1>5, <1>6, <1>7, <1>9, HeldAfter
<1>11. Analysed'
  <2>1. \A k \in DOMAIN campaign' : IsCampaign(campaign'[k])
    BY <1>4, <1>6 DEF Typed, Analysed
  <2> QED BY <1>5, <1>6, <2>1 DEF Typed, Analysed, IsEvent, IsSeq
<1>12. Stored' /\ Rest'
  BY <1>5, <1>6 DEF Typed, Stored, Rest, IsSeq
<1> QED BY <1>10, <1>11, <1>12 DEF Typed

\* The event becomes evidence of the campaign.
LEMMA AddEvidenceTyped ==
  ASSUME Inv, Typed, NEW r \in Reqs, AddEvidence(r)
  PROVE  Typed'
<1>1. PICK s : s = job[r]
  OBVIOUS
<1>2. Ingests(s) /\ Holds(s) /\ s.pc = "evidence"
  BY <1>1, Current, Places DEF AddEvidence, Ingesting, Typed
<1>3. UNCHANGED <<event, campaign, threat, acted, blocked, alert, score>>
      /\ evidence' = evidence \cup {<<s.camp, s.ev>>} /\ AfterIngest(r, s)
  BY <1>1 DEF AddEvidence
<1>4. PICK k : Holds(k) /\ job' = [job EXCEPT ![r] = k] /\ UNCHANGED <<v2, crowd, day, wasBlocked>>
  BY <1>2, <1>3, HoldsOn
<1>5. s.camp \in DOMAIN campaign /\ s.ev \in DOMAIN event
  BY <1>2 DEF Holds, Ingests
<1>6. Analysed'
  BY <1>3, <1>5 DEF Typed, Analysed, IsEvent, IsCampaign, IsSeq
<1>7. Stored' /\ Rest'
  BY <1>3, <1>4 DEF Typed, Stored, Rest, IsSeq
<1>8. Holds(k)'
  BY <1>3, <1>4, HoldsStays
<1>9. \A q \in Reqs : Holds(job[q])'
  BY <1>3, <1>4, <1>8, HeldAfter
<1> QED BY <1>6, <1>7, <1>9 DEF Typed

\* What a threat is merged into.
LEMMA FindTyped ==
  ASSUME Inv, Typed, NEW r \in Reqs, FindByCampaign(r) \/ FindByContract(r)
  PROVE  Typed'
<1>1. PICK s : s = job[r]
  OBVIOUS
<1>2. Ingests(s) /\ Holds(s)
  BY <1>1, Current, Places DEF FindByCampaign, FindByContract, Storing, Typed
<1>3. PICK T, found, missing : found \in Storing /\ missing \in Storing /\ Select(r, T, found, missing)
  <2>1. CASE FindByCampaign(r)
    BY <2>1 DEF FindByCampaign, ByContractOrInsert, Storing
  <2>2. CASE FindByContract(r)
    BY <2>2 DEF FindByContract, Storing
  <2> QED BY <2>1, <2>2
<1>4. ASSUME NEW pc \in Storing, NEW i, NEW j,
             j = [s EXCEPT !.pc = pc] \/ j = [s EXCEPT !.pc = pc, !.tid = i], Goto(r, j)
      PROVE  Typed'
  <2>1. DOMAIN j = DOMAIN s /\ j.pc = pc /\ j.sig = s.sig /\ j.camp = s.camp
    BY <1>2, <1>4 DEF Ingests
  <2>2. Holds(j)
    BY <1>2, <2>1 DEF Holds, Ingests, Storing
  <2>3. job' = [job EXCEPT ![r] = j] /\ UNCHANGED <<v2, crowd, tables, day, wasBlocked>>
    BY <1>3, <1>4 DEF Goto, Select
  <2> QED BY <2>2, <2>3, TypedMoved
<1> QED BY <1>1, <1>3, <1>4 DEF Select

\* The rows of threats and actions after one threat was written.
LEMMA StoredAfter ==
  ASSUME Inv, Typed, NEW t \in DOMAIN threat, NEW x, threat' = [threat EXCEPT ![t] = x],
         x.campaign \in {0} \cup DOMAIN campaign,
         x.verification \in {"pending", "verified", "failed", "not_applicable"},
         UNCHANGED <<campaign, acted, wasBlocked>>
  PROVE  Stored'
<1>1. /\ DOMAIN threat' = DOMAIN threat
      /\ \A k \in DOMAIN threat : threat'[k] = IF k = t THEN x ELSE threat[k]
  BY Changed DEF Inv, Rows
<1> QED BY <1>1 DEF Typed, Stored

\* A step of one request that writes threats or alerts, or the score.
LEMMA TypedWrites ==
  ASSUME Inv, Typed, NEW r \in Reqs, NEW j, job' = [job EXCEPT ![r] = j], Holds(j), Stored',
         IsSeq(alert)', score' \in 0 .. 100,
         UNCHANGED <<v2, crowd, day, event, campaign, evidence>>
  PROVE  Typed'
<1>1. Holds(j)'
  BY HoldsStays
<1>2. \A q \in Reqs : Holds(job[q])'
  BY <1>1, HeldAfter
<1>3. Analysed' /\ Rest'
  BY DEF Typed, Analysed, Rest, IsEvent, IsCampaign, IsSeq
<1> QED BY <1>2, <1>3 DEF Typed

\* A finding is merged or stored.
LEMMA StoreTyped ==
  ASSUME Inv, Typed, NEW r \in Reqs, MergeThreat(r) \/ InsertThreat(r)
  PROVE  Typed'
<1>1. PICK s : s = job[r]
  OBVIOUS
<1>2. Ingests(s) /\ Holds(s)
  BY <1>1, Current, Places DEF MergeThreat, InsertThreat, Storing, Typed
<1>3. AfterThreat(r, s) /\ UNCHANGED <<event, campaign, evidence, acted, blocked, alert, score>>
  BY <1>1 DEF MergeThreat, InsertThreat
<1>4. PICK k : Holds(k) /\ job' = [job EXCEPT ![r] = k] /\ UNCHANGED <<v2, crowd, day, wasBlocked>>
  BY <1>2, <1>3, HoldsOn
<1>5. s.camp \in {0} \cup DOMAIN campaign
  BY <1>2 DEF Holds, Ingests
<1>6. Stored'
  <2>1. CASE MergeThreat(r)
    <3>1. s.tid \in DOMAIN threat
      BY <1>1, <1>2, <2>1 DEF MergeThreat, Ingests
    <3>2. PICK y : y = threat[s.tid]
      OBVIOUS
    <3>3. IsThreat(y) /\ y.campaign \in {0} \cup DOMAIN campaign
          /\ y.verification \in {"pending", "verified", "failed", "not_applicable"}
      BY <3>1, <3>2 DEF Inv, Rows, Typed, Stored
    <3>4. PICK c \in {0} \cup DOMAIN campaign :
            threat' = [threat EXCEPT ![s.tid].sev = FinalSev(s), ![s.tid].at = day,
                                     ![s.tid].campaign = c]
      BY <1>1, <1>5, <2>1, <3>2, <3>3 DEF MergeThreat
    <3>5. PICK x : x = [y EXCEPT !.sev = FinalSev(s), !.at = day, !.campaign = c]
      OBVIOUS
    <3>6. threat' = [threat EXCEPT ![s.tid] = x]
      BY <3>1, <3>2, <3>4, <3>5
    <3>7. x.campaign = c /\ x.verification = y.verification
      BY <3>3, <3>5 DEF IsThreat
    <3> QED BY <1>3, <1>4, <3>1, <3>3, <3>6, <3>7, StoredAfter
  <2>2. CASE InsertThreat(r)
    <3>1. PICK x : threat' = Append(threat, x) /\ x.campaign \in {0} \cup DOMAIN campaign
                   /\ x.verification = "pending"
      BY <1>1, <1>5, <2>2 DEF InsertThreat
    <3>2. /\ DOMAIN threat' = DOMAIN threat \cup {Len(threat) + 1}
          /\ \A i \in DOMAIN threat : threat'[i] = threat[i]
          /\ threat'[Len(threat) + 1] = x
      BY <3>1, Appended DEF Inv, Rows
    <3> QED BY <1>3, <1>4, <3>1, <3>2 DEF Typed, Stored
  <2> QED BY <2>1, <2>2
<1>7. IsSeq(alert)' /\ score' \in 0 .. 100
  BY <1>3 DEF Typed, Rest, IsSeq
<1> QED BY <1>3, <1>4, <1>6, <1>7, TypedWrites

\* The alert.
LEMMA CreateAlertTyped ==
  ASSUME Inv, Typed, NEW r \in Reqs, CreateAlert(r)
  PROVE  Typed'
<1>1. PICK x : alert' = Append(alert, x)
  BY DEF CreateAlert
<1>2. UNCHANGED <<v2, crowd, day, event, campaign, evidence, threat, acted, score, wasBlocked>>
      /\ job' = [job EXCEPT ![r] = Idle]
  BY DEF CreateAlert, Finish
<1>3. IsSeq(alert)'
  <2>1. IsSeq(Append(alert, x))
    BY Appended DEF Typed, Rest
  <2> QED BY <1>1, <2>1 DEF IsSeq
<1>4. Holds(Idle)
  BY DEF Holds, Idle
<1>5. Stored' /\ score' \in 0 .. 100
  BY <1>2 DEF Typed, Stored, Rest
<1> QED BY <1>2, <1>3, <1>4, <1>5, TypedWrites

\* Marking and closing a threat.
LEMMA VerifyTyped ==
  ASSUME Inv, Typed, NEW r \in Reqs, MarkVerification(r) \/ CloseVerified(r)
  PROVE  Typed'
<1>1. PICK s : s = job[r]
  OBVIOUS
<1>2. Verifies(s) /\ Holds(s) /\ s.tid \in DOMAIN threat
  BY <1>1, Current, Places DEF MarkVerification, CloseVerified, Typed, Verifies
<1>3. PICK y : y = threat[s.tid]
  OBVIOUS
<1>4. IsThreat(y) /\ y.campaign \in {0} \cup DOMAIN campaign
      /\ y.verification \in {"pending", "verified", "failed", "not_applicable"}
  BY <1>2, <1>3 DEF Inv, Rows, Typed, Stored
<1>5. UNCHANGED <<event, campaign, evidence, acted, alert, score, v2, crowd, day, wasBlocked>>
  BY DEF MarkVerification, CloseVerified, Goto
<1>6. Stored'
  <2>1. CASE MarkVerification(r)
    <3>1. PICK x : x = [y EXCEPT !.verification = Outcome(s)]
      OBVIOUS
    <3>2. x.campaign = y.campaign /\ x.verification = Outcome(s)
      BY <1>4, <3>1 DEF IsThreat
    <3>3. threat' = [threat EXCEPT ![s.tid] = x]
      BY <1>1, <1>2, <1>3, <2>1, <3>1 DEF MarkVerification
    <3>4. Outcome(s) \in {"pending", "verified", "failed", "not_applicable"}
      BY DEF Outcome
    <3> QED BY <1>2, <1>4, <1>5, <3>2, <3>3, <3>4, StoredAfter
  <2>2. CASE CloseVerified(r)
    <3>1. PICK x : x = [y EXCEPT !.status = "resolved", !.auto = TRUE]
      OBVIOUS
    <3>2. x.campaign = y.campaign /\ x.verification = y.verification
      BY <1>4, <3>1 DEF IsThreat
    <3>3. threat' = [[threat EXCEPT ![s.tid].status = "resolved"] EXCEPT ![s.tid].auto = TRUE]
      BY <1>1, <2>2 DEF CloseVerified, Close
    <3>4. threat' = [threat EXCEPT ![s.tid] = x]
      BY <1>2, <1>3, <3>1, <3>3
    <3> QED BY <1>2, <1>4, <1>5, <3>2, <3>4, StoredAfter
  <2> QED BY <2>1, <2>2
<1>7. PICK j : (j = [s EXCEPT !.pc = "close"] \/ j = NextThreat(s)) /\ job' = [job EXCEPT ![r] = j]
  BY <1>1 DEF MarkVerification, CloseVerified, Goto
<1>8. DOMAIN j = DOMAIN s /\ j.cost = s.cost
  BY <1>2, <1>7 DEF Verifies, NextThreat
<1>9. Holds(j)
  BY <1>2, <1>8 DEF Holds, Verifies
<1>10. IsSeq(alert)' /\ score' \in 0 .. 100
  BY <1>5 DEF Typed, Rest, IsSeq
<1> QED BY <1>5, <1>6, <1>7, <1>9, <1>10, TypedWrites

\* The fields of a verification that has read a threat's actions.
LEMMA ExaminedFields ==
  ASSUME NEW s, Verifies(s), NEW t, NEW ok
  PROVE  /\ DOMAIN Examined(s, t, ok) = DOMAIN s
         /\ Examined(s, t, ok).pc = IF threat[t].type \in TxTypes /\ threat[t].contract # None
                                    THEN "blocked" ELSE "mark"
         /\ Examined(s, t, ok).tid = t /\ Examined(s, t, ok).ok = ok
         /\ Examined(s, t, ok).todo = s.todo /\ Examined(s, t, ok).did = s.did
         /\ Examined(s, t, ok).cost = s.cost
<1>1. PICK pc : pc = IF threat[t].type \in TxTypes /\ threat[t].contract # None
                     THEN "blocked" ELSE "mark"
  OBVIOUS
<1>2. PICK j : j = [s EXCEPT !.tid = t, !.ok = ok, !.pc = pc]
  OBVIOUS
<1>3. /\ DOMAIN j = DOMAIN s /\ j.tid = t /\ j.ok = ok /\ j.pc = pc /\ j.todo = s.todo
      /\ j.did = s.did /\ j.cost = s.cost
  BY <1>2 DEF Verifies
<1>4. Examined(s, t, ok) = j
  BY <1>1, <1>2 DEF Examined
<1> QED BY <1>1, <1>3, <1>4

\* The fields of a verification that is through with a threat.
LEMMA NextThreatFields ==
  ASSUME NEW s, Verifies(s)
  PROVE  /\ DOMAIN NextThreat(s) = DOMAIN s
         /\ NextThreat(s).pc = IF s.todo = {s.tid} THEN "cost" ELSE "actions"
         /\ NextThreat(s).todo = s.todo \ {s.tid} /\ NextThreat(s).did = s.did
         /\ NextThreat(s).cost = s.cost
<1>1. PICK pc : pc = IF s.todo = {s.tid} THEN "cost" ELSE "actions"
  OBVIOUS
<1>2. PICK j : j = [s EXCEPT !.pc = pc, !.todo = @ \ {s.tid}, !.tid = 0, !.ok = FALSE]
  OBVIOUS
<1>3. /\ DOMAIN j = DOMAIN s /\ j.pc = pc /\ j.todo = s.todo \ {s.tid}
      /\ j.did = s.did /\ j.cost = s.cost
  BY <1>2 DEF Verifies
<1>4. NextThreat(s) = j
  BY <1>1, <1>2 DEF NextThreat
<1> QED BY <1>1, <1>3, <1>4

\* Reading the evidence.
LEMMA ReadTyped ==
  ASSUME Inv, Typed, NEW r \in Reqs, ReadActions(r) \/ ReadBlocked(r)
  PROVE  Typed'
<1>1. PICK s : s = job[r]
  OBVIOUS
<1>2. Verifies(s) /\ Holds(s)
  BY <1>1, Current, Places DEF ReadActions, ReadBlocked, Typed
<1>3. PICK j : job' = [job EXCEPT ![r] = j] /\ DOMAIN j = DOMAIN s /\ j.cost = s.cost
  <2>1. CASE ReadActions(r)
    <3>1. PICK t \in s.todo : Goto(r, Examined(s, t, Mitigated(t)))
      BY <1>1, <2>1 DEF ReadActions
    <3>2. PICK j : j = Examined(s, t, Mitigated(t))
      OBVIOUS
    <3>3. DOMAIN j = DOMAIN s /\ j.cost = s.cost
      BY <1>2, <3>2, ExaminedFields
    <3> QED BY <3>1, <3>2, <3>3 DEF Goto
  <2>2. CASE ReadBlocked(r)
    <3>1. PICK ok : Goto(r, [s EXCEPT !.pc = "mark", !.ok = ok])
      BY <1>1, <2>2 DEF ReadBlocked
    <3>2. PICK j : j = [s EXCEPT !.pc = "mark", !.ok = ok]
      OBVIOUS
    <3>3. DOMAIN j = DOMAIN s /\ j.cost = s.cost
      BY <1>2, <3>2 DEF Verifies
    <3> QED BY <3>1, <3>2, <3>3 DEF Goto
  <2> QED BY <2>1, <2>2
<1>4. Holds(j)
  BY <1>2, <1>3 DEF Holds, Verifies
<1>5. UNCHANGED <<v2, crowd, tables, day, wasBlocked>>
  BY DEF ReadActions, ReadBlocked, Goto
<1> QED BY <1>3, <1>4, <1>5, TypedMoved

\* The penalties are numbers.
LEMMA CostsAre ==
  ASSUME Inv, Typed
  PROVE  AlertCost \in Nat /\ ThreatCost \in Nat /\ CampaignCost \in Nat
<1>1. ASSUME NEW s, IsSeq(s), NEW S, S \subseteq DOMAIN s PROVE Cardinality(S) \in Nat
  <2>1. PICK T : s \in Seq(T)
    BY <1>1 DEF IsSeq
  <2>2. DOMAIN s = 1 .. Len(s) /\ Len(s) \in Nat
    BY <2>1
  <2>3. IsFiniteSet(DOMAIN s)
    BY <2>2, FS_Interval
  <2> QED BY <1>1, <2>3, FS_Subset, FS_CardinalityType
<1>2. IsSeq(threat) /\ IsSeq(campaign) /\ IsSeq(alert)
  BY DEF Inv, Rows, Typed, Analysed, Rest
<1>3. ASSUME NEW low, NEW high PROVE Risky(low, high) \in Nat
  BY <1>1, <1>2 DEF Risky
<1>4. ASSUME NEW sev PROVE Severe(sev) \in Nat
  BY <1>1, <1>2 DEF Severe, OpenThreats
<1>5. AlertCost \in Nat
  BY <1>1, <1>2 DEF AlertCost
<1>6. ThreatCost \in Nat
  BY <1>4 DEF ThreatCost
<1>7. CampaignCost \in Nat
  BY <1>3 DEF CampaignCost
<1> QED BY <1>5, <1>6, <1>7

\* The score.
LEMMA ScoreTyped ==
  ASSUME Inv, Typed, NEW r \in Reqs, ReadCost(r) \/ ReadRest(r) \/ StoreScore(r)
  PROVE  Typed'
<1>1. PICK s : s = job[r]
  OBVIOUS
<1>2. Verifies(s) /\ Holds(s)
  BY <1>1, Current, Places DEF ReadCost, ReadRest, StoreScore, Typed
<1>3. s.cost \in Int
  BY <1>2 DEF Holds, Verifies
<1>4. CASE StoreScore(r)
  <2>1. UNCHANGED <<v2, crowd, day, event, campaign, evidence, threat, acted, alert, wasBlocked>>
        /\ score' = Percent(100 - s.cost) /\ job' = [job EXCEPT ![r] = Idle]
    BY <1>1, <1>4 DEF StoreScore, Finish
  <2>2. Holds(Idle)
    BY DEF Holds, Idle
  <2>3. score' \in 0 .. 100
    <3>1. 100 - s.cost \in Int
      BY <1>3
    <3> QED BY <2>1, <3>1, PercentIs
  <2>4. Stored' /\ IsSeq(alert)'
    BY <2>1 DEF Typed, Stored, Rest, IsSeq
  <2> QED BY <2>1, <2>2, <2>3, <2>4, TypedWrites
<1>5. ASSUME NEW cost \in Int, NEW pc, Goto(r, [s EXCEPT !.pc = pc, !.cost = cost]), UNCHANGED tables
      PROVE  Typed'
  <2>1. PICK j : j = [s EXCEPT !.pc = pc, !.cost = cost]
    OBVIOUS
  <2>2. DOMAIN j = DOMAIN s /\ j.cost = cost
    BY <1>2, <2>1 DEF Verifies
  <2>3. Holds(j)
    BY <1>2, <2>2 DEF Holds, Verifies
  <2>4. job' = [job EXCEPT ![r] = j] /\ UNCHANGED <<v2, crowd, day, wasBlocked>>
    BY <1>5, <2>1 DEF Goto
  <2> QED BY <1>5, <2>3, <2>4, TypedMoved
<1>6. CASE ReadCost(r)
  <2>1. PICK cost \in Int : cost = IF v2 THEN AlertCost ELSE ThreatCost
    BY CostsAre
  <2> QED BY <1>1, <1>5, <1>6, <2>1 DEF ReadCost
<1>7. CASE ReadRest(r)
  <2>1. PICK cost \in Int : cost = s.cost + (IF v2 THEN CampaignCost ELSE AlertCost)
    BY <1>3, CostsAre
  <2>2. Goto(r, [s EXCEPT !.pc = "store", !.cost = cost]) /\ UNCHANGED tables
    BY <1>1, <1>2, <1>7, <2>1 DEF ReadRest, Verifies
  <2> QED BY <1>5, <2>2
<1> QED BY <1>4, <1>6, <1>7


\* Requests that start.
LEMMA StartTyped ==
  ASSUME Inv, Typed, NEW r \in Reqs,
         (\E s \in Load.signals : Analyse(r, s)) \/ (\E t \in DOMAIN threat : Verify(r, t))
           \/ VerifyAll(r) \/ Refresh(r)
  PROVE  Typed'
<1>1. ASSUME NEW j, Holds(j), Begin(r, j) PROVE Typed'
  <2>1. job' = [job EXCEPT ![r] = j] /\ UNCHANGED <<v2, crowd, tables, day, wasBlocked>>
    BY <1>1 DEF Begin, Counted
  <2> QED BY <1>1, <2>1, TypedMoved
<1>2. ASSUME NEW s \in Load.signals, Analyse(r, s) PROVE Typed'
  <2>1. s \in SignalType
    BY AskedTyped DEF Load, Typed, Rest
  <2>2. PICK j : j = [pc |-> "event", sig |-> s, ev |-> 0, corr |-> NoCorrelation,
                      camp |-> 0, tid |-> 0]
    OBVIOUS
  <2>3. Holds(j)
    BY <2>1, <2>2 DEF Holds
  <2>4. Begin(r, j)
    BY <1>2, <2>2 DEF Analyse
  <2> QED BY <1>1, <2>3, <2>4
<1>3. ASSUME NEW did, NEW todo PROVE Holds(Verification(did, todo))
  <2>1. PICK j : j = Verification(did, todo)
    OBVIOUS
  <2>2. DOMAIN j = {"pc", "did", "todo", "tid", "ok", "cost"} /\ j.cost = 0
    BY <2>1 DEF Verification
  <2>3. Holds(j)
    BY <2>2 DEF Holds
  <2> QED BY <2>1, <2>3
<1> QED BY <1>1, <1>2, <1>3 DEF Verify, VerifyAll, Refresh

\* Requests that die, and failures that handlers drop.
LEMMA FaultTyped ==
  ASSUME Inv, Typed, NEW r \in Reqs, Abandon(r) \/ Swallow(r) \/ MissEvidence(r)
  PROVE  Typed'
<1>1. PICK s : s = job[r]
  OBVIOUS
<1>2. Holds(s) /\ IsJob(s)
  BY <1>1, Current DEF Typed
<1>3. UNCHANGED <<v2, crowd, tables, day, wasBlocked>>
  BY DEF Abandon, Swallow, MissEvidence, Fault
<1>4. Holds(Idle)
  BY DEF Holds, Idle
<1>5. CASE Abandon(r)
  BY <1>3, <1>4, <1>5, TypedMoved DEF Abandon
<1>6. CASE Swallow(r)
  <2>1. Ingests(s)
    BY <1>1, <1>6, Current, Places DEF Swallow
  <2>2. PICK k : k = IF s.pc \in Ingesting THEN [s EXCEPT !.camp = 0, !.corr = NoCorrelation] ELSE s
    OBVIOUS
  <2>3. DOMAIN k = DOMAIN s /\ k.sig = s.sig /\ (k.camp = s.camp \/ k.camp = 0)
    BY <2>1, <2>2 DEF Ingests
  <2>4. ASSUME NEW pc \in {"byContract", "insert", "alert"}, job' = [job EXCEPT ![r] = [k EXCEPT !.pc = pc]]
        PROVE  Typed'
    <3>1. PICK j : j = [k EXCEPT !.pc = pc]
      OBVIOUS
    <3>2. DOMAIN j = DOMAIN s /\ j.pc = pc /\ j.sig = k.sig /\ j.camp = k.camp
      BY <2>1, <2>3, <3>1 DEF Ingests
    <3>3. Holds(j)
      BY <1>2, <2>1, <2>3, <3>2 DEF Holds, Ingests
    <3> QED BY <1>3, <2>4, <3>1, <3>3, TypedMoved
  <2>5. ByContractOrInsert(k) \in {"byContract", "insert"}
    BY DEF ByContractOrInsert
  <2>6. CASE job' = [job EXCEPT ![r] = Idle]
    BY <1>3, <1>4, <2>6, TypedMoved
  <2>7. CASE job' = [job EXCEPT ![r] = [k EXCEPT !.pc = ByContractOrInsert(k)]]
    BY <2>4, <2>5, <2>7
  <2>8. CASE job' = [job EXCEPT ![r] = [k EXCEPT !.pc = "alert"]]
    BY <2>4, <2>8
  <2> QED BY <1>1, <1>6, <2>2, <2>6, <2>7, <2>8 DEF Swallow
<1>7. CASE MissEvidence(r)
  <2>1. Verifies(s)
    BY <1>1, <1>7, Current, Places DEF MissEvidence
  <2>2. ASSUME NEW j, job' = [job EXCEPT ![r] = j], DOMAIN j = DOMAIN s, j.cost = s.cost
        PROVE  Typed'
    <3>1. Holds(j)
      BY <1>2, <2>1, <2>2 DEF Holds, Verifies
    <3> QED BY <1>3, <2>2, <3>1, TypedMoved
  <2>3. CASE \E t \in s.todo : job' = [job EXCEPT ![r] = Examined(s, t, FALSE)]
    <3>1. PICK ok : ok = FALSE
      OBVIOUS
    <3>2. PICK t \in s.todo : job' = [job EXCEPT ![r] = Examined(s, t, ok)]
      BY <2>3, <3>1
    <3>3. PICK j : j = Examined(s, t, ok)
      OBVIOUS
    <3>4. DOMAIN j = DOMAIN s /\ j.cost = s.cost
      BY <2>1, <3>3, ExaminedFields
    <3> QED BY <2>2, <3>2, <3>3, <3>4
  <2>4. CASE job' = [job EXCEPT ![r].pc = "mark"]
    <3>1. PICK j : j = [s EXCEPT !.pc = "mark"]
      OBVIOUS
    <3>2. job' = [job EXCEPT ![r] = j]
      BY <1>1, <2>4, <3>1 DEF Inv, Jobs
    <3>3. DOMAIN j = DOMAIN s /\ j.cost = s.cost
      BY <2>1, <3>1 DEF Verifies
    <3> QED BY <2>2, <3>2, <3>3
  <2> QED BY <1>1, <1>7, <2>3, <2>4 DEF MissEvidence
<1> QED BY <1>5, <1>6, <1>7

\* Nothing of a request changes while only day moves, if no request runs, or rows of
\* threats, actions, blocked contracts and alerts are written.
LEMMA AsideHeld ==
  ASSUME Typed, UNCHANGED <<v2, crowd, event, campaign, evidence, job, score>>,
         UNCHANGED day \/ (AllIdle /\ day' \in Nat), Stored', IsSeq(alert)'
  PROVE  Typed'
<1>1. Analysed' /\ Rest'
  BY DEF Typed, Analysed, Rest, IsEvent, IsCampaign, IsSeq
<1>2. ASSUME NEW q \in Reqs PROVE Holds(job[q])'
  <2>1. CASE UNCHANGED day
    <3>1. PICK s : s = job[q]
      OBVIOUS
    <3>2. Holds(s)'
      BY <2>1, <3>1, HoldsStays DEF Typed
    <3> QED BY <3>1, <3>2
  <2>2. CASE AllIdle
    BY <2>2 DEF AllIdle, Holds, Idle
  <2> QED BY <2>1, <2>2
<1> QED BY <1>1, <1>2 DEF Typed

\* Statements of the user, days, and nothing.
LEMMA AsideTyped ==
  ASSUME Inv, Typed,
         \/ \E t \in DOMAIN threat : Resolve(t) \/ Dismiss(t)
         \/ \E t \in DOMAIN threat, a \in Load.actions : RecordAction(t, a)
         \/ \E c \in Load.contracts : BlockContract(c) \/ UnblockContract(c)
         \/ MarkAlertsRead \/ NextDay \/ UNCHANGED vars
  PROVE  Typed'
<1>1. IsSeq(alert) /\ Stored /\ crowd \in Crowds /\ day \in Nat
  BY DEF Typed, Rest
<1>2. ASSUME NEW t \in DOMAIN threat, Resolve(t) \/ Dismiss(t) PROVE Typed'
  <2>1. PICK status : threat' = [threat EXCEPT ![t].status = status]
    BY <1>2 DEF Resolve, Dismiss, Close
  <2>2. PICK y : y = threat[t]
    OBVIOUS
  <2>3. IsThreat(y) /\ y.campaign \in {0} \cup DOMAIN campaign
        /\ y.verification \in {"pending", "verified", "failed", "not_applicable"}
    BY <2>2 DEF Inv, Rows, Typed, Stored
  <2>4. PICK x : x = [y EXCEPT !.status = status]
    OBVIOUS
  <2>5. x.campaign = y.campaign /\ x.verification = y.verification
    BY <2>3, <2>4 DEF IsThreat
  <2>6. threat' = [threat EXCEPT ![t] = x]
    BY <2>1, <2>2, <2>4
  <2>7. UNCHANGED <<v2, crowd, event, campaign, evidence, job, score, day, alert, acted, wasBlocked>>
    BY <1>2 DEF Resolve, Dismiss, Instant, Counted
  <2>8. Stored'
    BY <2>3, <2>5, <2>6, <2>7, StoredAfter
  <2> QED BY <1>1, <2>7, <2>8, AsideHeld DEF IsSeq
<1>3. ASSUME NEW t \in DOMAIN threat, NEW a \in Load.actions, RecordAction(t, a) PROVE Typed'
  <2>1. a \in Actions
    BY <1>1, AskedTyped DEF Load
  <2>2. UNCHANGED <<v2, crowd, event, campaign, evidence, job, score, day, alert, threat, wasBlocked>>
        /\ acted' = acted \cup {<<t, a>>}
    BY <1>3 DEF RecordAction, Instant, Counted
  <2>3. Stored'
    BY <1>1, <2>1, <2>2 DEF Stored
  <2> QED BY <1>1, <2>2, <2>3, AsideHeld DEF IsSeq
<1>4. ASSUME NEW c \in Load.contracts, BlockContract(c) \/ UnblockContract(c) PROVE Typed'
  <2>1. c \in Contracts
    BY <1>1, AskedTyped DEF Load
  <2>2. UNCHANGED <<v2, crowd, event, campaign, evidence, job, score, day, alert, threat, acted>>
        /\ wasBlocked' \subseteq wasBlocked \cup {c}
    BY <1>4 DEF BlockContract, UnblockContract, Instant, Counted
  <2>3. Stored'
    BY <1>1, <2>1, <2>2 DEF Stored
  <2> QED BY <1>1, <2>2, <2>3, AsideHeld DEF IsSeq
<1>5. CASE MarkAlertsRead
  <2>1. PICK A : alert' = MarkRead(A)
    BY <1>5 DEF MarkAlertsRead
  <2>2. UNCHANGED <<v2, crowd, event, campaign, evidence, job, score, day, threat, acted, wasBlocked>>
    BY <1>5 DEF MarkAlertsRead, Instant, Counted
  <2>3. PICK S : alert \in Seq(S)
    BY <1>1 DEF IsSeq
  <2>4. DOMAIN alert = 1 .. Len(alert) /\ Len(alert) \in Nat
    BY <2>3
  <2>5. PICK T : T = {alert'[a] : a \in DOMAIN alert}
    OBVIOUS
  <2>6. alert' \in [1 .. Len(alert) -> T]
    BY <2>1, <2>4, <2>5 DEF MarkRead
  <2>7. alert' \in Seq(T)
    BY <2>4, <2>6
  <2>8. IsSeq(alert)' /\ Stored'
    BY <1>1, <2>2, <2>7 DEF Stored, IsSeq
  <2> QED BY <2>2, <2>8, AsideHeld
<1>6. CASE NextDay
  <2>1. UNCHANGED <<v2, crowd, tables, job, wasBlocked>> /\ AllIdle /\ day' \in Nat
    BY <1>1, <1>6 DEF NextDay
  <2>2. Stored' /\ IsSeq(alert)'
    BY <1>1, <2>1 DEF Stored, IsSeq, tables
  <2> QED BY <2>1, <2>2, AsideHeld DEF tables
<1>7. CASE UNCHANGED vars
  <2>1. UNCHANGED <<v2, crowd, tables, job, wasBlocked, day>>
    BY <1>7 DEF vars, tables
  <2>2. Stored' /\ IsSeq(alert)'
    BY <1>1, <2>1 DEF Stored, IsSeq, tables
  <2> QED BY <2>1, <2>2, AsideHeld DEF tables
<1> QED BY <1>2, <1>3, <1>4, <1>5, <1>6, <1>7

\* The types hold of the initial state.
LEMMA InitTyped ==
  ASSUME Init
  PROVE  Typed
<1>1. event \in Seq({}) /\ campaign \in Seq({}) /\ alert \in Seq({})
      /\ DOMAIN event = {} /\ DOMAIN campaign = {} /\ DOMAIN threat = {}
  BY DEF Init
<1>2. \A r \in Reqs : Holds(job[r])
  BY DEF Init, Holds, Idle
<1>3. Analysed /\ Stored /\ Rest
  BY <1>1 DEF Init, Analysed, Stored, Rest, IsSeq
<1> QED BY <1>2, <1>3 DEF Typed

\* Every step keeps them.
LEMMA NextTyped ==
  ASSUME Inv, Typed, [Next]_vars
  PROVE  Typed'
<1>1. ASSUME NEW r \in Reqs, Step(r) PROVE Typed'
  BY <1>1, RecordEventTyped, ReadEventsTyped, FindCampaignTyped, WriteCampaignTyped,
     AddEvidenceTyped, FindTyped, StoreTyped, CreateAlertTyped, ReadTyped, VerifyTyped,
     ScoreTyped DEF Step
<1> QED BY <1>1, StartTyped, FaultTyped, AsideTyped DEF Next

\* The invariant of the proof of TypeOK: the rows that requests hold exist, and the risks
\* they computed are percentages.
THEOREM TypedHolds == Spec => []Typed
<1>1. Init => Typed
  BY InitTyped
<1>2. Inv /\ Typed /\ [Next]_vars => Typed'
  BY NextTyped
<1> QED BY <1>1, <1>2, InvHolds, PTL DEF Spec

\* Tables and locals keep their types: risks and scores stay percentages, evidence, actions
\* and threats name rows that exist, and only contracts the user named are blocked.
THEOREM TypesHold == Spec => []TypeOK
<1>1. Inv /\ Typed => TypeOK
  <2> SUFFICES ASSUME Inv, Typed PROVE TypeOK
    OBVIOUS
  <2>1. ASSUME NEW r \in Reqs PROVE job[r].pc \in Labels
    <3>1. IsJob(job[r])
      BY Current
    <3>2. CASE job[r] = Idle
      BY <3>2 DEF Idle, Labels
    <3>3. CASE Ingests(job[r]) \/ Verifies(job[r])
      BY <3>3 DEF Ingests, Verifies, Labels
    <3> QED BY <3>1, <3>2, <3>3 DEF IsJob
  <2>2. \A t \in DOMAIN threat : threat[t].status \in {"open", "resolved", "dismissed"}
    BY DEF Inv, Rows, IsThreat
  <2> QED BY <2>1, <2>2 DEF TypeOK, Inv, Typed, Analysed, Stored, Rest, IsEvent, IsCampaign
<1> QED BY <1>1, InvHolds, TypedHolds, PTL

-----------------------------------------------------------------------------
(* One request at a time                                                     *)

\* No evidence that a threat was mitigated.
Unmitigated(t) ==
  ~Mitigated(t) /\ (threat[t].type \in TxTypes => threat[t].contract \notin blocked)

\* A finding that is an open threat of today and of its campaign.
Shown(sev, camp) ==
  \E t \in OpenThreats : /\ threat[t].at = day /\ threat[t].sev = sev
                         /\ threat[t].campaign = camp \/ camp = 0

\* What an analysis knows: the campaign it joins is the running one of its type, the threat
\* it merges into is open, and there is none of its campaign if it looks further.
Learns(j) ==
  /\ j.pc = "campaign" => IF j.camp = 0 THEN RunningOf(j.corr.type) = {}
                                        ELSE j.camp \in RunningOf(j.corr.type)
  /\ j.pc \in {"byCampaign", "byContract", "mergeCampaign", "mergeContract"} => v2
  /\ j.pc \in {"byCampaign", "mergeCampaign"} => j.camp # 0
  /\ j.pc \in {"byContract", "mergeContract", "insert"} /\ v2 /\ j.camp # 0 =>
       OpenOfCampaign(j.camp) = {}
  /\ j.pc \in {"mergeCampaign", "mergeContract"} => j.tid \in OpenThreats
  /\ j.pc = "mergeCampaign" => threat[j.tid].campaign = j.camp
  /\ j.pc = "alert" /\ faults = 0 => Shown(FinalSev(j), IF v2 THEN j.camp ELSE 0)

\* What a verification knows: what is still open and not on its list has no evidence, nor
\* has a threat it found none of; and the first half of the score.
Looks(j) ==
  /\ j.did \in {"verify", "verifyAll", "refresh"}
  /\ faults = 0 /\ j.did = "verifyAll" => \A t \in OpenThreats : t \in j.todo \/ Unmitigated(t)
  /\ faults = 0 /\ j.pc \in {"blocked", "mark"} /\ ~j.ok => ~Mitigated(j.tid)
  /\ faults = 0 /\ j.pc = "mark" /\ ~j.ok => Unmitigated(j.tid)
  /\ j.pc \in {"cost", "rest", "store"} => j.todo = {}
  /\ j.pc = "rest" => j.cost = IF v2 THEN AlertCost ELSE ThreatCost
  /\ j.pc = "store" => j.cost = AlertCost + (IF v2 THEN CampaignCost ELSE ThreatCost)

Aware(j) == ("sig" \in DOMAIN j => Learns(j)) /\ ("cost" \in DOMAIN j => Looks(j))

OneBusy == \A q, r \in Reqs : job[q] # Idle /\ job[r] # Idle => q = r

\* The two halves of NoDuplicates; a campaign was not seen in the future.
OneOpen == \A t, u \in OpenThreats :
             threat[t].campaign = threat[u].campaign /\ threat[t].campaign # 0 => t = u

OneRunning ==
  /\ \A k, l \in DOMAIN campaign :
       Recent(campaign[k].seen, CampaignDays) /\ Recent(campaign[l].seen, CampaignDays)
         /\ campaign[k].type = campaign[l].type => k = l
  /\ \A k \in DOMAIN campaign : campaign[k].seen <= day

Told == FindingIsOpen /\ VerifyAllIsComplete /\ RefreshedScoreIsLive

Alone ==
  /\ OneBusy
  /\ \A r \in Reqs : job[r] # Idle => last = Nothing /\ Aware(job[r])
  /\ OneOpen /\ OneRunning /\ Told

AInv == crowd = 1 => Alone

\* A request that runs: the others are idle, nothing was said, and what it knows.
LEMMA Running ==
  ASSUME Alone, NEW r \in Reqs, job[r] # Idle
  PROVE  /\ \A q \in Reqs : q # r => job[q] = Idle
         /\ last = Nothing /\ Aware(job[r])
BY DEF Alone, OneBusy

\* The jobs after a step of the one request that runs or starts.
LEMMA AloneAfter ==
  ASSUME Inv, NEW r \in Reqs, \A q \in Reqs : q # r => job[q] = Idle,
         NEW j, job' = [job EXCEPT ![r] = j], j = Idle \/ (last' = Nothing /\ Aware(j)'),
         OneOpen', OneRunning', last' = Nothing \/ Told'
  PROVE  Alone'
<1>1. job' = [q \in Reqs |-> IF q = r THEN j ELSE job[q]]
  BY DEF Inv, Jobs
<1>2. \A q \in Reqs : job'[q] # Idle => q = r /\ j # Idle /\ job'[q] = j
  BY <1>1
<1>3. OneBusy'
  BY <1>2 DEF OneBusy
<1>4. ASSUME NEW q \in Reqs, job'[q] # Idle PROVE last' = Nothing /\ Aware(job[q])'
  <2>1. job'[q] = j /\ j # Idle
    BY <1>2, <1>4
  <2> QED BY <2>1
<1>5. Told'
  <2>1. CASE last' = Nothing
    <3>1. last'.did \notin {"found", "verifyAll", "verify", "refresh"}
      BY <2>1 DEF Nothing
    <3> QED BY <3>1 DEF Told, FindingIsOpen, VerifyAllIsComplete, RefreshedScoreIsLive
  <2> QED BY <2>1
<1>6. \A q \in Reqs : (job[q])' # Idle => last' = Nothing /\ Aware(job[q])'
  BY <1>4
<1> QED BY <1>3, <1>5, <1>6 DEF Alone

\* Open threats are those they were, and so are running campaigns.
LEMMA RowsRest ==
  ASSUME OneOpen, OneRunning, UNCHANGED <<threat, campaign, day>>
  PROVE  OneOpen' /\ OneRunning'
BY DEF OneOpen, OneRunning, OpenThreats, Recent

\* A step of the one request that leaves threats and campaigns.
LEMMA AloneMoved ==
  ASSUME Inv, Alone, NEW r \in Reqs, job[r] # Idle, NEW j, job' = [job EXCEPT ![r] = j],
         j = Idle \/ (last' = Nothing /\ Aware(j)'), last' = Nothing \/ Told',
         UNCHANGED <<threat, campaign, day>>
  PROVE  Alone'
<1>1. OneOpen' /\ OneRunning'
  BY RowsRest DEF Alone
<1> QED BY <1>1, Running, AloneAfter

\* At these places an analysis knows nothing of the tables.
LEMMA Unaware ==
  ASSUME NEW j, DOMAIN j = {"pc", "sig", "ev", "corr", "camp", "tid"},
         j.pc \in {"event", "events", "find", "evidence"}
  PROVE  Aware(j) /\ Aware(j)'
BY DEF Aware, Learns

\* After the correlation.
LEMMA AfterIngestAware ==
  ASSUME NEW r, NEW s, Ingests(s), AfterIngest(r, s), last = Nothing
  PROVE  /\ last' = Nothing /\ UNCHANGED <<v2, day>>
         /\ \E j : job' = [job EXCEPT ![r] = j] /\ (j = Idle \/ Aware(j)')
<1>1. CASE Finish(r, Nothing)
  BY <1>1 DEF Finish
<1>2. CASE Goto(r, [s EXCEPT !.pc = IF Joined(s) THEN "byCampaign" ELSE ByContractOrInsert(s)])
  <2>1. PICK pc : pc = IF Joined(s) THEN "byCampaign" ELSE ByContractOrInsert(s)
    OBVIOUS
  <2>2. PICK j : j = [s EXCEPT !.pc = pc]
    OBVIOUS
  <2>3. DOMAIN j = DOMAIN s /\ j.pc = pc /\ j.camp = s.camp
    BY <2>2 DEF Ingests
  <2>4. pc \in {"byCampaign", "byContract", "insert"} /\ (pc # "insert" => v2)
        /\ (pc = "byCampaign" => s.camp # 0) /\ (pc # "byCampaign" => ~ (v2 /\ s.camp # 0))
    BY <2>1 DEF Joined, ByContractOrInsert
  <2>5. v2' = v2 /\ day' = day /\ last' = Nothing /\ job' = [job EXCEPT ![r] = j]
    BY <1>2, <2>1, <2>2 DEF Goto
  <2>6. Aware(j)'
    BY <2>3, <2>4, <2>5 DEF Aware, Learns, Ingests
  <2> QED BY <2>5, <2>6
<1> QED BY <1>1, <1>2 DEF AfterIngest

\* The event is stored, and the events of the last day correlated.
LEMMA EventsAlone ==
  ASSUME Inv, Alone, NEW r \in Reqs, RecordEvent(r) \/ ReadEvents(r) \/ AddEvidence(r)
  PROVE  Alone'
<1>1. PICK s : s = job[r]
  OBVIOUS
<1>2. Ingests(s)
  BY <1>1, Current, Places DEF RecordEvent, ReadEvents, AddEvidence, Ingesting
<1>3. s # Idle /\ last = Nothing
  <2>1. s # Idle
    BY <1>2 DEF Ingests, Idle, Ingesting, Storing
  <2> QED BY <1>1, <2>1, Running
<1>4. UNCHANGED <<threat, campaign>>
  BY DEF RecordEvent, ReadEvents, AddEvidence, tables
<1>5. CASE AfterIngest(r, s)
  BY <1>1, <1>2, <1>3, <1>4, <1>5, AfterIngestAware, AloneMoved
<1>6. ASSUME NEW j, DOMAIN j = DOMAIN s, j.pc \in {"events", "find"}, Goto(r, j)
      PROVE  Alone'
  <2>1. Aware(j)'
    BY <1>2, <1>6, Unaware DEF Ingests
  <2>2. job' = [job EXCEPT ![r] = j] /\ last' = Nothing /\ UNCHANGED day
    BY <1>3, <1>6 DEF Goto
  <2> QED BY <1>1, <1>3, <1>4, <2>1, <2>2, AloneMoved
<1>7. CASE RecordEvent(r)
  <2>1. PICK j : j = [s EXCEPT !.pc = "events", !.ev = Len(event) + 1]
    OBVIOUS
  <2>2. DOMAIN j = DOMAIN s /\ j.pc = "events"
    BY <1>2, <2>1 DEF Ingests
  <2> QED BY <1>1, <1>6, <1>7, <2>1, <2>2 DEF RecordEvent
<1>8. CASE ReadEvents(r)
  <2>1. PICK c : Goto(r, [s EXCEPT !.pc = "find", !.corr = c]) \/ AfterIngest(r, s)
    BY <1>1, <1>8 DEF ReadEvents
  <2>2. PICK j : j = [s EXCEPT !.pc = "find", !.corr = c]
    OBVIOUS
  <2>3. DOMAIN j = DOMAIN s /\ j.pc = "find"
    BY <1>2, <2>2 DEF Ingests
  <2> QED BY <1>5, <1>6, <2>1, <2>2, <2>3
<1>9. CASE AddEvidence(r)
  BY <1>1, <1>5, <1>9 DEF AddEvidence
<1> QED BY <1>7, <1>8, <1>9


\* Among campaigns, none of which was seen in the future, there is one seen last.
LEMMA NewestIs ==
  ASSUME Typed, OneRunning, NEW S, S \subseteq DOMAIN campaign, S # {}
  PROVE  \E k \in S : \A l \in S : campaign[l].seen <= campaign[k].seen
<1> DEFINE Below == {p \in Nat \X Nat : p[1] < p[2]}
           T == {day - campaign[k].seen : k \in S}
<1>1. IsWellFoundedOn(Below, Nat)
  BY NatLessThanWellFounded DEF OpToRel
<1>2. \A k \in S : campaign[k].seen \in Int /\ day - campaign[k].seen \in Nat
  BY DEF Typed, Analysed, IsCampaign, Rest, OneRunning
<1>3. T \subseteq Nat /\ T # {}
  <2>1. PICK k : k \in S
    OBVIOUS
  <2>2. day - campaign[k].seen \in T
    BY <2>1
  <2> QED BY <1>2, <2>2
<1> HIDE DEF Below
<1>4. PICK m \in T : \A n \in T : ~ (<<n, m>> \in Below)
  BY <1>1, <1>3, WFMin
<1>5. PICK k \in S : m = day - campaign[k].seen
  BY <1>4
<1>6. ASSUME NEW l \in S PROVE campaign[l].seen <= campaign[k].seen
  <2>1. day - campaign[l].seen \in T /\ day - campaign[l].seen \in Nat /\ m \in Nat
    BY <1>2, <1>3, <1>4
  <2>2. ~ (<<day - campaign[l].seen, m>> \in Below)
    BY <1>4, <2>1
  <2>3. ~ (day - campaign[l].seen < m)
    BY <2>1, <2>2 DEF Below
  <2>4. campaign[l].seen \in Int /\ campaign[k].seen \in Int /\ day \in Int
    BY <1>2 DEF Typed, Rest
  <2> QED BY <1>5, <2>3, <2>4
<1> QED BY <1>6

\* The campaign found is the running one of its type, or there is none.
LEMMA FindCampaignAlone ==
  ASSUME Inv, Typed, Alone, NEW r \in Reqs, FindCampaign(r)
  PROVE  Alone'
<1>1. PICK s : s = job[r]
  OBVIOUS
<1>2. Ingests(s) /\ s.pc = "find"
  BY <1>1, Current, Places DEF FindCampaign, Ingesting
<1>3. s # Idle /\ last = Nothing
  <2>1. s # Idle
    BY <1>2 DEF Idle
  <2> QED BY <1>1, <2>1, Running
<1>4. PICK S : S = RunningOf(s.corr.type)
  OBVIOUS
<1>5. PICK k : /\ IF \E l \in S : \A m \in S : campaign[m].seen <= campaign[l].seen
                  THEN k \in S ELSE k = 0
               /\ Goto(r, [s EXCEPT !.pc = "campaign", !.camp = k])
  <2>1. PICK K : K = {l \in S : \A m \in S : campaign[m].seen <= campaign[l].seen}
    OBVIOUS
  <2>2. \E k \in IF K = {} THEN {0} ELSE K : Goto(r, [s EXCEPT !.pc = "campaign", !.camp = k])
    BY <1>1, <1>4, <2>1 DEF FindCampaign, Newest
  <2> QED BY <2>1, <2>2
<1>6. S \subseteq DOMAIN campaign
  BY <1>4, RunningIs
<1>7. IF S = {} THEN k = 0 ELSE k \in S
  BY <1>5, <1>6, NewestIs DEF Alone
<1>8. 0 \notin DOMAIN campaign
  <2>1. PICK T : campaign \in Seq(T)
    BY DEF Typed, Analysed, IsSeq
  <2>2. DOMAIN campaign = 1 .. Len(campaign)
    BY <2>1
  <2> QED BY <2>2
<1>9. PICK j : j = [s EXCEPT !.pc = "campaign", !.camp = k]
  OBVIOUS
<1>10. DOMAIN j = DOMAIN s /\ j.pc = "campaign" /\ j.camp = k /\ j.corr = s.corr
  BY <1>2, <1>9 DEF Ingests
<1>11. UNCHANGED <<v2, threat, campaign, day>> /\ last' = Nothing /\ job' = [job EXCEPT ![r] = j]
  BY <1>3, <1>5, <1>9 DEF FindCampaign, Goto, tables
<1>12. RunningOf(s.corr.type)' = S
  BY <1>4, <1>11 DEF RunningOf, Recent
<1>13. IF j.camp = 0 THEN RunningOf(j.corr.type)' = {} ELSE j.camp \in RunningOf(j.corr.type)'
  BY <1>6, <1>7, <1>8, <1>10, <1>12
<1>14. Aware(j)'
  BY <1>2, <1>10, <1>13 DEF Aware, Learns, Ingests
<1> QED BY <1>1, <1>3, <1>11, <1>14, AloneMoved

\* The campaigns after a step of the same day.
LEMMA RunningAfter ==
  ASSUME UNCHANGED day, \A k \in DOMAIN campaign' : campaign'[k].seen <= day,
         \A k, l \in DOMAIN campaign' :
           Recent(campaign'[k].seen, CampaignDays) /\ Recent(campaign'[l].seen, CampaignDays)
             /\ campaign'[k].type = campaign'[l].type => k = l
  PROVE  OneRunning'
<1>1. ASSUME NEW k \in DOMAIN campaign', NEW l \in DOMAIN campaign',
             Recent(campaign[k].seen, CampaignDays)', Recent(campaign[l].seen, CampaignDays)',
             campaign'[k].type = campaign'[l].type
      PROVE  k = l
  BY <1>1 DEF Recent
<1> QED BY <1>1 DEF OneRunning

\* It is written, and stays the only running one of its type.
LEMMA WriteCampaignAlone ==
  ASSUME Inv, Typed, Alone, NEW r \in Reqs, WriteCampaign(r)
  PROVE  Alone'
<1>1. PICK s : s = job[r]
  OBVIOUS
<1>2. Ingests(s) /\ s.pc = "campaign"
  BY <1>1, Current, Places DEF WriteCampaign, Ingesting
<1>3. s # Idle
  BY <1>2 DEF Idle
<1>4. last = Nothing /\ Aware(s) /\ \A q \in Reqs : q # r => job[q] = Idle
  BY <1>1, <1>3, Running
<1>5. Learns(s) /\ s.camp \in {0} \cup DOMAIN campaign
  BY <1>1, <1>2, <1>4 DEF Aware, Ingests, Typed, Holds
<1>6. PICK c : c = [type |-> s.corr.type, risk |-> s.corr.risk, conf |-> s.corr.conf, seen |-> day]
  OBVIOUS
<1>7. UNCHANGED threat
  BY DEF WriteCampaign
<1>8. OneOpen'
  BY <1>7 DEF Alone, OneOpen, OpenThreats
<1>9. OneRunning /\ day \in Nat /\ \A k \in DOMAIN campaign : campaign[k].seen \in Int
  BY DEF Alone, Typed, Analysed, Rest, IsCampaign
<1>10. ASSUME NEW n, NEW j, j = [s EXCEPT !.pc = "evidence"] \/ j = [s EXCEPT !.pc = "evidence", !.camp = n],
              Goto(r, j)
       PROVE  /\ UNCHANGED day /\ last' = Nothing
              /\ job' = [job EXCEPT ![r] = j] /\ Aware(j)'
  <2>1. DOMAIN j = DOMAIN s /\ j.pc = "evidence"
    BY <1>2, <1>10 DEF Ingests
  <2> QED BY <1>2, <1>4, <1>10, <2>1, Unaware DEF Goto, Ingests
<1>11. CASE s.camp # 0
  <2>1. campaign' = [campaign EXCEPT ![s.camp] = c] /\ Goto(r, [s EXCEPT !.pc = "evidence"])
    BY <1>1, <1>6, <1>11 DEF WriteCampaign
  <2>2. PICK j : j = [s EXCEPT !.pc = "evidence"]
    OBVIOUS
  <2>3. UNCHANGED day /\ last' = Nothing /\ job' = [job EXCEPT ![r] = j] /\ Aware(j)'
    BY <1>10, <2>1, <2>2
  <2>4. s.camp \in RunningOf(s.corr.type)
    BY <1>2, <1>5, <1>11 DEF Learns
  <2>5. s.camp \in DOMAIN campaign /\ campaign[s.camp].type = s.corr.type
        /\ Recent(campaign[s.camp].seen, CampaignDays)
    BY <2>4 DEF RunningOf
  <2>6. /\ DOMAIN campaign' = DOMAIN campaign
        /\ \A k \in DOMAIN campaign : campaign'[k] = IF k = s.camp THEN c ELSE campaign[k]
    BY <1>5, <1>11, <2>1, Changed DEF Typed, Analysed
  <2>7. \A k \in DOMAIN campaign : campaign'[k].seen <= day
    BY <1>6, <1>9, <2>6 DEF OneRunning
  <2>8. ASSUME NEW k \in DOMAIN campaign, Recent(campaign'[k].seen, CampaignDays)
        PROVE  Recent(campaign[k].seen, CampaignDays) /\ campaign'[k].type = campaign[k].type
    BY <1>6, <2>5, <2>6, <2>8
  <2>9. ASSUME NEW k \in DOMAIN campaign, NEW l \in DOMAIN campaign,
               Recent(campaign'[k].seen, CampaignDays), Recent(campaign'[l].seen, CampaignDays),
               campaign'[k].type = campaign'[l].type
        PROVE  k = l
    BY <1>9, <2>8, <2>9 DEF OneRunning
  <2>10. OneRunning'
    BY <2>3, <2>6, <2>7, <2>9, RunningAfter
  <2> QED BY <1>4, <1>8, <2>3, <2>10, AloneAfter
<1>12. CASE s.camp = 0
  <2>1. campaign' = Append(campaign, c)
        /\ Goto(r, [s EXCEPT !.pc = "evidence", !.camp = Len(campaign) + 1])
    BY <1>1, <1>6, <1>12 DEF WriteCampaign
  <2>2. PICK j : j = [s EXCEPT !.pc = "evidence", !.camp = Len(campaign) + 1]
    OBVIOUS
  <2>3. UNCHANGED day /\ last' = Nothing /\ job' = [job EXCEPT ![r] = j] /\ Aware(j)'
    BY <1>10, <2>1, <2>2
  <2>4. RunningOf(s.corr.type) = {}
    BY <1>2, <1>5, <1>12 DEF Learns
  <2>5. \A k \in DOMAIN campaign : Recent(campaign[k].seen, CampaignDays) => campaign[k].type # s.corr.type
    BY <2>4 DEF RunningOf
  <2>6. PICK n : n = Len(campaign) + 1
    OBVIOUS
  <2>7. /\ DOMAIN campaign' = DOMAIN campaign \cup {n}
        /\ \A k \in DOMAIN campaign : campaign'[k] = campaign[k]
        /\ campaign'[n] = c
    BY <2>1, <2>6, Appended DEF Typed, Analysed
  <2>8. \A k \in DOMAIN campaign' : campaign'[k].seen <= day
    BY <1>6, <1>9, <2>7 DEF OneRunning
  <2>9. ASSUME NEW k \in DOMAIN campaign', NEW l \in DOMAIN campaign',
               Recent(campaign'[k].seen, CampaignDays), Recent(campaign'[l].seen, CampaignDays),
               campaign'[k].type = campaign'[l].type
        PROVE  k = l
    BY <1>6, <1>9, <2>5, <2>7, <2>9 DEF OneRunning
  <2>10. OneRunning'
    BY <2>3, <2>8, <2>9, RunningAfter
  <2> QED BY <1>4, <1>8, <2>3, <2>10, AloneAfter
<1> QED BY <1>11, <1>12

\* A threat is looked for: the one found is open, and of the campaign if any of it is.
LEMMA FindAlone ==
  ASSUME Inv, Typed, Alone, NEW r \in Reqs, FindByCampaign(r) \/ FindByContract(r)
  PROVE  Alone'
<1>1. PICK s : s = job[r]
  OBVIOUS
<1>2. Ingests(s) /\ s.pc \in {"byCampaign", "byContract"}
  BY <1>1, Current, Places DEF FindByCampaign, FindByContract, Storing
<1>3. s # Idle
  BY <1>2 DEF Idle
<1>4. last = Nothing /\ Learns(s)
  BY <1>1, <1>2, <1>3, Running DEF Aware, Ingests
<1>5. UNCHANGED tables
  BY DEF FindByCampaign, FindByContract, Select
<1>6. ASSUME NEW j, Goto(r, j), DOMAIN j = DOMAIN s, j.camp = s.camp,
             j.pc \in {"mergeCampaign", "mergeContract", "byContract", "insert"},
             j.pc # "insert" => v2, j.pc = "mergeCampaign" => s.camp # 0,
             j.pc # "mergeCampaign" /\ v2 /\ s.camp # 0 => OpenOfCampaign(s.camp) = {},
             j.pc \in {"mergeCampaign", "mergeContract"} => j.tid \in OpenThreats,
             j.pc = "mergeCampaign" => threat[j.tid].campaign = s.camp
      PROVE  Alone'
  <2>1. UNCHANGED <<v2, threat, campaign, day>> /\ last' = Nothing /\ job' = [job EXCEPT ![r] = j]
    BY <1>4, <1>5, <1>6 DEF Goto, tables
  <2>2. UNCHANGED OpenThreats /\ OpenOfCampaign(s.camp)' = OpenOfCampaign(s.camp)
    BY <2>1 DEF OpenThreats, OpenOfCampaign
  <2>3. Aware(j)'
    BY <1>2, <1>6, <2>1, <2>2 DEF Aware, Learns, Ingests
  <2> QED BY <1>1, <1>3, <2>1, <2>3, AloneMoved
<1>7. ASSUME NEW pc, NEW j, j = [s EXCEPT !.pc = pc]
      PROVE  DOMAIN j = DOMAIN s /\ j.pc = pc /\ j.camp = s.camp
  BY <1>2, <1>7 DEF Ingests
<1>8. CASE FindByCampaign(r)
  <2>1. v2 /\ s.camp # 0 /\ s.pc = "byCampaign"
    BY <1>1, <1>4, <1>8 DEF FindByCampaign, Learns
  <2>2. PICK missing : missing = ByContractOrInsert(s) /\ missing \in {"byContract", "insert"}
    BY DEF ByContractOrInsert
  <2>3. PICK T : T = OpenOfCampaign(s.camp)
    OBVIOUS
  <2>4. \/ T = {} /\ Goto(r, [s EXCEPT !.pc = missing])
        \/ \E t \in T : Goto(r, [s EXCEPT !.pc = "mergeCampaign", !.tid = t])
    BY <1>1, <1>8, <2>2, <2>3 DEF FindByCampaign, Select, Newest
  <2>5. CASE T = {} /\ Goto(r, [s EXCEPT !.pc = missing])
    <3>1. PICK j : j = [s EXCEPT !.pc = missing]
      OBVIOUS
    <3> QED BY <1>6, <1>7, <2>1, <2>2, <2>3, <2>5, <3>1
  <2>6. CASE \E t \in T : Goto(r, [s EXCEPT !.pc = "mergeCampaign", !.tid = t])
    <3>1. PICK t \in T : Goto(r, [s EXCEPT !.pc = "mergeCampaign", !.tid = t])
      BY <2>6
    <3>2. PICK j : j = [s EXCEPT !.pc = "mergeCampaign", !.tid = t]
      OBVIOUS
    <3>3. t \in OpenThreats /\ threat[t].campaign = s.camp
      BY <2>3 DEF OpenOfCampaign, OpenThreats
    <3>4. DOMAIN j = DOMAIN s /\ j.camp = s.camp /\ j.tid = t /\ j.pc = "mergeCampaign"
      BY <1>2, <3>2 DEF Ingests
    <3> QED BY <1>6, <2>1, <3>1, <3>2, <3>3, <3>4
  <2> QED BY <2>4, <2>5, <2>6
<1>9. CASE FindByContract(r)
  <2>1. v2 /\ s.pc = "byContract" /\ (s.camp # 0 => OpenOfCampaign(s.camp) = {})
    BY <1>1, <1>4, <1>9 DEF FindByContract, Learns
  <2>2. PICK T : T = OpenOfContract(s.sig.type, s.sig.contract)
    OBVIOUS
  <2>3. \/ T = {} /\ Goto(r, [s EXCEPT !.pc = "insert"])
        \/ \E t \in T : Goto(r, [s EXCEPT !.pc = "mergeContract", !.tid = t])
    BY <1>1, <1>9, <2>2 DEF FindByContract, Select, Newest
  <2>4. CASE T = {} /\ Goto(r, [s EXCEPT !.pc = "insert"])
    <3>1. PICK j : j = [s EXCEPT !.pc = "insert"]
      OBVIOUS
    <3> QED BY <1>6, <1>7, <2>1, <2>4, <3>1
  <2>5. CASE \E t \in T : Goto(r, [s EXCEPT !.pc = "mergeContract", !.tid = t])
    <3>1. PICK t \in T : Goto(r, [s EXCEPT !.pc = "mergeContract", !.tid = t])
      BY <2>5
    <3>2. PICK j : j = [s EXCEPT !.pc = "mergeContract", !.tid = t]
      OBVIOUS
    <3>3. t \in OpenThreats
      BY <2>2 DEF OpenOfContract, OpenThreats
    <3>4. DOMAIN j = DOMAIN s /\ j.camp = s.camp /\ j.tid = t /\ j.pc = "mergeContract"
      BY <1>2, <3>2 DEF Ingests
    <3> QED BY <1>6, <2>1, <3>1, <3>2, <3>3, <3>4
  <2> QED BY <2>3, <2>4, <2>5
<1> QED BY <1>8, <1>9

\* After the threat is stored: the alert knows it is shown, or the request says so.
LEMMA AfterThreatAlone ==
  ASSUME Inv, Alone, NEW r \in Reqs, NEW s, s = job[r], Ingests(s), last = Nothing,
         \A q \in Reqs : q # r => job[q] = Idle, AfterThreat(r, s),
         Shown(FinalSev(s), IF v2 THEN s.camp ELSE 0)', OneOpen', UNCHANGED campaign
  PROVE  Alone'
<1>1. UNCHANGED <<v2, day>>
  BY DEF AfterThreat, Goto, Finish
<1>2. OneRunning'
  BY <1>1 DEF Alone, OneRunning, Recent
<1>3. CASE Goto(r, [s EXCEPT !.pc = "alert"])
  <2>1. PICK j : j = [s EXCEPT !.pc = "alert"]
    OBVIOUS
  <2>2. DOMAIN j = DOMAIN s /\ j.pc = "alert" /\ j.camp = s.camp /\ j.sig = s.sig /\ j.corr = s.corr
    BY <2>1 DEF Ingests
  <2>3. FinalSev(j)' = FinalSev(s)'
    BY <2>2 DEF FinalSev, FinalRisk, Joined
  <2>4. Aware(j)'
    BY <2>2, <2>3 DEF Aware, Learns, Ingests
  <2>5. last' = Nothing /\ job' = [job EXCEPT ![r] = j]
    BY <1>3, <2>1 DEF Goto
  <2> QED BY <1>2, <2>4, <2>5, AloneAfter
<1>4. CASE Finish(r, Found(s))
  <2>1. last' = Found(s) /\ job' = [job EXCEPT ![r] = Idle]
    BY <1>4 DEF Finish
  <2>2. last'.did = "found" /\ last'.sev = FinalSev(s) /\ last'.camp = IF v2 THEN s.camp ELSE 0
    BY <2>1 DEF Found
  <2>3. FinalSev(s)' = FinalSev(s)
    BY <1>1 DEF FinalSev, FinalRisk, Joined
  <2>4. Told'
    BY <1>1, <2>2, <2>3 DEF Told, FindingIsOpen, VerifyAllIsComplete, RefreshedScoreIsLive, Shown
  <2> QED BY <1>2, <2>1, <2>4, AloneAfter
<1> QED BY <1>3, <1>4 DEF AfterThreat

\* A finding is merged into the open threat found: it is shown, and a campaign still has
\* at most one.
LEMMA MergeAlone ==
  ASSUME Inv, Typed, Alone, NEW r \in Reqs, MergeThreat(r)
  PROVE  Alone'
<1>1. PICK s : s = job[r]
  OBVIOUS
<1>2. Ingests(s) /\ s.pc \in {"mergeCampaign", "mergeContract"} /\ s.tid \in DOMAIN threat
  BY <1>1, Current, Places DEF MergeThreat, Storing, Ingests
<1>3. s # Idle
  BY <1>2 DEF Idle
<1>4. last = Nothing /\ Learns(s) /\ \A q \in Reqs : q # r => job[q] = Idle
  BY <1>1, <1>2, <1>3, Running DEF Aware, Ingests
<1>5. PICK t : t = s.tid
  OBVIOUS
<1>6. v2 /\ t \in OpenThreats /\ (s.pc = "mergeCampaign" => threat[t].campaign = s.camp)
      /\ (s.pc = "mergeContract" /\ s.camp # 0 => OpenOfCampaign(s.camp) = {})
  BY <1>2, <1>4, <1>5 DEF Learns
<1>7. PICK c : c = IF s.pc = "mergeContract" /\ s.camp # 0 THEN s.camp ELSE threat[t].campaign
  OBVIOUS
<1>8. PICK sev : sev = FinalSev(s)
  OBVIOUS
<1>9. threat' = [threat EXCEPT ![t].sev = sev, ![t].at = day, ![t].campaign = c]
      /\ AfterThreat(r, s) /\ UNCHANGED campaign
  BY <1>1, <1>5, <1>7, <1>8 DEF MergeThreat
<1>10. PICK y : y = threat[t]
  OBVIOUS
<1>11. PICK x : x = [y EXCEPT !.sev = sev, !.at = day, !.campaign = c]
  OBVIOUS
<1>12. IsThreat(y)
  BY <1>2, <1>5, <1>10 DEF Inv, Rows
<1>13. x.status = y.status /\ x.sev = sev /\ x.at = day /\ x.campaign = c
  BY <1>11, <1>12 DEF IsThreat
<1>14. threat' = [threat EXCEPT ![t] = x]
  BY <1>2, <1>5, <1>9, <1>10, <1>11
<1>15. /\ DOMAIN threat' = DOMAIN threat
       /\ \A k \in DOMAIN threat : threat'[k] = IF k = t THEN x ELSE threat[k]
  BY <1>2, <1>5, <1>14, Changed DEF Inv, Rows
<1>16. OpenThreats' = OpenThreats
  BY <1>10, <1>13, <1>15 DEF OpenThreats
<1>17. UNCHANGED <<v2, day>>
  BY <1>9 DEF AfterThreat, Goto, Finish
<1>18. c = s.camp \/ s.camp = 0
  BY <1>2, <1>6, <1>7
<1>19. Shown(sev, IF v2 THEN s.camp ELSE 0)'
  BY <1>2, <1>5, <1>6, <1>13, <1>15, <1>16, <1>17, <1>18 DEF Shown
<1>20. FinalSev(s)' = sev
  BY <1>8, <1>17 DEF FinalSev, FinalRisk, Joined
<1>21. Shown(FinalSev(s), IF v2 THEN s.camp ELSE 0)'
  BY <1>17, <1>19, <1>20 DEF Shown
<1>22. OneOpen'
  <2>1. ASSUME NEW k \in OpenThreats, NEW l \in OpenThreats,
               threat'[k].campaign = threat'[l].campaign, threat'[k].campaign # 0
        PROVE  k = l
    <3>1. k \in DOMAIN threat /\ l \in DOMAIN threat
      BY DEF OpenThreats
    <3>2. CASE s.pc = "mergeContract" /\ s.camp # 0
      <4>1. \A u \in OpenThreats : threat[u].campaign # s.camp
        BY <1>6, <3>2 DEF OpenOfCampaign, OpenThreats
      <4> QED BY <1>7, <1>13, <1>15, <2>1, <3>1, <3>2, <4>1 DEF Alone, OneOpen
    <3>3. CASE ~ (s.pc = "mergeContract" /\ s.camp # 0)
      <4>1. c = threat[t].campaign
        BY <1>7, <3>3
      <4>2. \A u \in DOMAIN threat : threat'[u].campaign = threat[u].campaign
        BY <1>13, <1>15, <4>1
      <4> QED BY <2>1, <3>1, <4>2 DEF Alone, OneOpen
    <3> QED BY <3>2, <3>3
  <2> QED BY <1>16, <2>1 DEF OneOpen
<1> QED BY <1>1, <1>2, <1>4, <1>9, <1>21, <1>22, AfterThreatAlone

\* A finding is stored as a threat of its own: no other open one is of its campaign.
LEMMA InsertAlone ==
  ASSUME Inv, Typed, Alone, NEW r \in Reqs, InsertThreat(r)
  PROVE  Alone'
<1>1. PICK s : s = job[r]
  OBVIOUS
<1>2. Ingests(s) /\ s.pc = "insert"
  BY <1>1, Current, Places DEF InsertThreat, Storing
<1>3. s # Idle
  BY <1>2 DEF Idle
<1>4. last = Nothing /\ Learns(s) /\ \A q \in Reqs : q # r => job[q] = Idle
  BY <1>1, <1>2, <1>3, Running DEF Aware, Ingests
<1>5. PICK camp : camp = IF v2 THEN s.camp ELSE 0
  OBVIOUS
<1>6. \A u \in OpenThreats : camp # 0 => threat[u].campaign # camp
  BY <1>2, <1>4, <1>5 DEF Learns, OpenOfCampaign, OpenThreats
<1>7. PICK sev : sev = FinalSev(s)
  OBVIOUS
<1>8. PICK x : /\ threat' = Append(threat, x)
               /\ x.status = "open" /\ x.sev = sev /\ x.at = day /\ x.campaign = camp
  BY <1>1, <1>5, <1>7 DEF InsertThreat
<1>9. AfterThreat(r, s) /\ UNCHANGED campaign
  BY <1>1 DEF InsertThreat
<1>10. PICK n : n = Len(threat) + 1
  OBVIOUS
<1>11. /\ DOMAIN threat' = DOMAIN threat \cup {n} /\ n \notin DOMAIN threat
       /\ \A k \in DOMAIN threat : threat'[k] = threat[k]
       /\ threat'[n] = x
  BY <1>8, <1>10, Appended DEF Inv, Rows
<1>12. OpenThreats' = OpenThreats \cup {n}
  BY <1>8, <1>11 DEF OpenThreats
<1>13. UNCHANGED <<v2, day>>
  BY <1>9 DEF AfterThreat, Goto, Finish
<1>14. Shown(sev, camp)'
  BY <1>8, <1>11, <1>12, <1>13 DEF Shown
<1>15. FinalSev(s)' = sev
  BY <1>7, <1>13 DEF FinalSev, FinalRisk, Joined
<1>16. Shown(FinalSev(s), IF v2 THEN s.camp ELSE 0)'
  BY <1>5, <1>13, <1>14, <1>15 DEF Shown
<1>17. OneOpen'
  <2>1. \A u \in OpenThreats : u \in DOMAIN threat /\ threat'[u] = threat[u]
    BY <1>11 DEF OpenThreats
  <2> QED BY <1>6, <1>8, <1>11, <1>12, <2>1 DEF Alone, OneOpen
<1> QED BY <1>1, <1>2, <1>4, <1>9, <1>16, <1>17, AfterThreatAlone

\* The alert is made, and the finding is still shown.
LEMMA CreateAlertAlone ==
  ASSUME Inv, Typed, Alone, NEW r \in Reqs, CreateAlert(r)
  PROVE  Alone'
<1>1. PICK s : s = job[r]
  OBVIOUS
<1>2. Ingests(s) /\ s.pc = "alert"
  BY <1>1, Current, Places DEF CreateAlert
<1>3. s # Idle
  BY <1>2 DEF Idle
<1>4. last = Nothing /\ Learns(s)
  BY <1>1, <1>2, <1>3, Running DEF Aware, Ingests
<1>5. faults = 0 => Shown(FinalSev(s), IF v2 THEN s.camp ELSE 0)
  BY <1>2, <1>4 DEF Learns
<1>6. UNCHANGED <<threat, campaign, day, faults>> /\ last' = Found(s) /\ job' = [job EXCEPT ![r] = Idle]
  BY <1>1 DEF CreateAlert, Finish
<1>7. last'.did = "found" /\ last'.sev = FinalSev(s) /\ last'.camp = IF v2 THEN s.camp ELSE 0
  BY <1>6 DEF Found
<1>8. FindingIsOpen'
  <2> SUFFICES ASSUME faults' = 0
               PROVE  (\E t \in OpenThreats : /\ threat[t].at = day /\ threat[t].sev = last'.sev
                                              /\ threat[t].campaign = last'.camp \/ last'.camp = 0)
    BY <1>6 DEF FindingIsOpen, OpenThreats
  <2> QED BY <1>5, <1>6, <1>7 DEF Shown
<1>9. Told'
  BY <1>7, <1>8 DEF Told, VerifyAllIsComplete, RefreshedScoreIsLive
<1> QED BY <1>1, <1>3, <1>6, <1>9, AloneMoved

\* The evidence on record stays what it was while nothing is recorded or blocked.
LEMMA EvidenceRests ==
  ASSUME UNCHANGED <<acted, blocked>>, NEW t,
         threat'[t].type = threat[t].type, threat'[t].contract = threat[t].contract
  PROVE  (Mitigated(t)' <=> Mitigated(t)) /\ (Unmitigated(t)' <=> Unmitigated(t))
BY DEF Mitigated, Unmitigated

\* No contract is the name of none.
LEMMA NoneIsFree ==
  ASSUME Inv, Typed
  PROVE  None \notin blocked
BY NoneIsNoName DEF Inv, Typed, Stored

\* A verification that runs.
LEMMA Verifying ==
  ASSUME Inv, Alone, NEW r \in Reqs, NEW s, s = job[r],
         s.pc \in {"actions", "blocked", "mark", "close", "cost", "rest", "store"}
  PROVE  /\ Verifies(s) /\ s # Idle /\ last = Nothing /\ Looks(s)
         /\ \A q \in Reqs : q # r => job[q] = Idle
<1>1. Verifies(s)
  BY Current, Places
<1>2. s # Idle
  BY DEF Idle
<1> QED BY <1>1, <1>2, Running DEF Aware, Verifies

\* Reading the evidence of a threat: without any, there is none.
LEMMA ReadAlone ==
  ASSUME Inv, Typed, Alone, NEW r \in Reqs, ReadActions(r) \/ ReadBlocked(r)
  PROVE  Alone'
<1>1. PICK s : s = job[r]
  OBVIOUS
<1>2. Verifies(s) /\ s # Idle /\ last = Nothing /\ Looks(s) /\ s.pc \in {"actions", "blocked"}
  BY <1>1, Verifying DEF ReadActions, ReadBlocked
<1>3. UNCHANGED tables
  BY DEF ReadActions, ReadBlocked
<1>4. ASSUME NEW j, Goto(r, j), DOMAIN j = DOMAIN s, j.did = s.did, j.todo = s.todo,
             j.pc \in {"blocked", "mark"},
             faults = 0 /\ ~j.ok => ~Mitigated(j.tid),
             faults = 0 /\ j.pc = "mark" /\ ~j.ok => Unmitigated(j.tid)
      PROVE  Alone'
  <2>1. UNCHANGED <<threat, campaign, acted, blocked, day, faults>> /\ last' = Nothing
        /\ job' = [job EXCEPT ![r] = j]
    BY <1>2, <1>3, <1>4 DEF Goto, tables
  <2>2. \A t : (Mitigated(t)' <=> Mitigated(t)) /\ (Unmitigated(t)' <=> Unmitigated(t))
    BY <2>1, EvidenceRests
  <2>3. UNCHANGED OpenThreats
    BY <2>1 DEF OpenThreats
  <2>4. Looks(j)'
    BY <1>2, <1>4, <2>1, <2>2, <2>3 DEF Looks
  <2>5. Aware(j)'
    BY <1>2, <1>4, <2>4 DEF Aware, Verifies
  <2> QED BY <1>1, <1>2, <2>1, <2>5, AloneMoved
<1>5. CASE ReadActions(r)
  <2>1. PICK t \in s.todo, ok \in BOOLEAN : ok = Mitigated(t) /\ Goto(r, Examined(s, t, ok))
    BY <1>1, <1>5 DEF ReadActions, Mitigated
  <2>2. PICK j : j = Examined(s, t, ok)
    OBVIOUS
  <2>3. /\ DOMAIN j = DOMAIN s /\ j.did = s.did /\ j.todo = s.todo /\ j.tid = t /\ j.ok = ok
        /\ j.pc = IF threat[t].type \in TxTypes /\ threat[t].contract # None THEN "blocked" ELSE "mark"
    BY <1>2, <2>2, ExaminedFields
  <2>4. j.pc = "mark" /\ ~ok => Unmitigated(t)
    BY <2>1, <2>3, NoneIsFree DEF Unmitigated
  <2> QED BY <1>4, <2>1, <2>2, <2>3, <2>4
<1>6. CASE ReadBlocked(r)
  <2>1. PICK ok \in BOOLEAN : /\ ok = (s.ok \/ threat[s.tid].contract \in blocked)
                              /\ Goto(r, [s EXCEPT !.pc = "mark", !.ok = ok]) /\ s.pc = "blocked"
    BY <1>1, <1>6 DEF ReadBlocked
  <2>2. PICK j : j = [s EXCEPT !.pc = "mark", !.ok = ok]
    OBVIOUS
  <2>3. /\ DOMAIN j = DOMAIN s /\ j.did = s.did /\ j.todo = s.todo /\ j.tid = s.tid
        /\ j.ok = ok /\ j.pc = "mark"
    BY <1>2, <2>2 DEF Verifies
  <2>4. faults = 0 /\ ~ok => Unmitigated(s.tid)
    BY <1>2, <2>1 DEF Unmitigated, Looks
  <2> QED BY <1>4, <2>1, <2>2, <2>3, <2>4 DEF Unmitigated
<1> QED BY <1>5, <1>6

\* Marking and closing: a threat that stays open has no evidence, and is off the list.
LEMMA MarkAlone ==
  ASSUME Inv, Typed, Alone, NEW r \in Reqs, MarkVerification(r) \/ CloseVerified(r)
  PROVE  Alone'
<1>1. PICK s : s = job[r]
  OBVIOUS
<1>2. Verifies(s) /\ s # Idle /\ last = Nothing /\ Looks(s) /\ \A q \in Reqs : q # r => job[q] = Idle
  BY <1>1, Verifying DEF MarkVerification, CloseVerified
<1>3. PICK t : t = s.tid
  OBVIOUS
<1>4. PICK y : y = threat[t]
  OBVIOUS
<1>5. t \in DOMAIN threat /\ IsThreat(y)
  BY <1>1, <1>2, <1>3, <1>4 DEF MarkVerification, CloseVerified, Verifies, Inv, Rows
<1>6. PICK x : /\ threat' = [threat EXCEPT ![t] = x] /\ x.type = y.type /\ x.contract = y.contract
               /\ x.campaign = y.campaign /\ x.status \in {y.status, "resolved"}
               /\ CloseVerified(r) => x.status = "resolved"
  <2>1. CASE MarkVerification(r)
    <3>1. PICK x : x = [y EXCEPT !.verification = Outcome(s)]
      OBVIOUS
    <3>2. x.type = y.type /\ x.contract = y.contract /\ x.campaign = y.campaign /\ x.status = y.status
      BY <1>5, <3>1 DEF IsThreat
    <3>3. threat' = [threat EXCEPT ![t] = x]
      BY <1>1, <1>3, <1>4, <1>5, <2>1, <3>1 DEF MarkVerification
    <3>4. ~CloseVerified(r)
      BY <1>1, <2>1 DEF MarkVerification, CloseVerified
    <3> QED BY <3>2, <3>3, <3>4
  <2>2. CASE CloseVerified(r)
    <3>1. PICK x : x = [y EXCEPT !.status = "resolved", !.auto = TRUE]
      OBVIOUS
    <3>2. x.type = y.type /\ x.contract = y.contract /\ x.campaign = y.campaign /\ x.status = "resolved"
      BY <1>5, <3>1 DEF IsThreat
    <3>3. threat' = [[threat EXCEPT ![t].status = "resolved"] EXCEPT ![t].auto = TRUE]
      BY <1>1, <1>3, <2>2 DEF CloseVerified, Close
    <3>4. threat' = [threat EXCEPT ![t] = x]
      BY <1>4, <1>5, <3>1, <3>3
    <3> QED BY <3>2, <3>4
  <2> QED BY <2>1, <2>2
<1>7. /\ DOMAIN threat' = DOMAIN threat
      /\ \A k \in DOMAIN threat : threat'[k] = IF k = t THEN x ELSE threat[k]
  BY <1>5, <1>6, Changed DEF Inv, Rows
<1>8. UNCHANGED <<campaign, acted, blocked, day, faults>> /\ last' = Nothing
  BY <1>2 DEF MarkVerification, CloseVerified, Goto
<1>9. OpenThreats' \subseteq OpenThreats /\ (CloseVerified(r) => t \notin OpenThreats')
  BY <1>4, <1>5, <1>6, <1>7 DEF OpenThreats
<1>10. \A k \in DOMAIN threat : Unmitigated(k)' <=> Unmitigated(k)
  <2>1. \A k \in DOMAIN threat : threat'[k].type = threat[k].type /\ threat'[k].contract = threat[k].contract
    BY <1>4, <1>6, <1>7
  <2> QED BY <1>8, <2>1, EvidenceRests
<1>11. OneOpen'
  <2>1. \A k \in OpenThreats' : k \in OpenThreats /\ k \in DOMAIN threat
                                /\ threat'[k].campaign = threat[k].campaign
    BY <1>4, <1>6, <1>7, <1>9 DEF OpenThreats
  <2> QED BY <2>1 DEF OneOpen, Alone
<1>12. OneRunning'
  BY <1>8 DEF OneRunning, Alone, Recent
<1>13. PICK j : /\ job' = [job EXCEPT ![r] = j]
                /\ \/ j = [s EXCEPT !.pc = "close"] /\ s.ok
                   \/ j = NextThreat(s) /\ ((MarkVerification(r) /\ ~s.ok) \/ CloseVerified(r))
  BY <1>1 DEF MarkVerification, CloseVerified, Goto
<1>14. DOMAIN j = DOMAIN s /\ j.did = s.did /\ j.pc \in {"close", "cost", "actions"}
       /\ (j.pc = "cost" => j.todo = {})
       /\ (j.todo = s.todo \/ (j.todo = s.todo \ {t} /\ ((MarkVerification(r) /\ ~s.ok) \/ CloseVerified(r))))
  <2>1. CASE j = [s EXCEPT !.pc = "close"]
    BY <1>2, <2>1 DEF Verifies
  <2>2. CASE j = NextThreat(s)
    <3>1. DOMAIN j = DOMAIN s /\ j.did = s.did /\ j.todo = s.todo \ {t}
          /\ j.pc = IF s.todo = {t} THEN "cost" ELSE "actions"
      BY <1>2, <1>3, <2>2, NextThreatFields
    <3>2. (MarkVerification(r) /\ ~s.ok) \/ CloseVerified(r) \/ j.todo = s.todo
      BY <1>13, <1>2, <2>2 DEF Verifies
    <3> QED BY <3>1, <3>2
  <2> QED BY <1>13, <2>1, <2>2
<1>15. ASSUME faults = 0, s.did = "verifyAll", NEW k \in OpenThreats' PROVE k \in j.todo \/ Unmitigated(k)'
  <2>1. k \in OpenThreats /\ k \in DOMAIN threat
    BY <1>9 DEF OpenThreats
  <2>2. k \in s.todo \/ Unmitigated(k)
    BY <1>2, <1>15, <2>1 DEF Looks
  <2>3. CASE k = t /\ j.todo # s.todo
    <3>1. MarkVerification(r) /\ ~s.ok
      BY <1>9, <1>14, <2>3
    <3>2. Unmitigated(t)
      BY <1>1, <1>2, <1>3, <1>15, <3>1 DEF Looks, MarkVerification
    <3> QED BY <1>10, <2>1, <2>3, <3>2
  <2>4. CASE k # t \/ j.todo = s.todo
    BY <1>10, <1>14, <2>1, <2>2, <2>4
  <2> QED BY <2>3, <2>4
<1>16. Looks(j)'
  BY <1>2, <1>8, <1>14, <1>15 DEF Looks
<1>17. Aware(j)'
  BY <1>2, <1>14, <1>16 DEF Aware, Verifies
<1> QED BY <1>2, <1>8, <1>11, <1>12, <1>13, <1>17, AloneAfter

\* The penalties stay what they are while the tables they count do.
LEMMA CostsRest ==
  ASSUME UNCHANGED <<threat, campaign, alert>>
  PROVE  AlertCost' = AlertCost /\ ThreatCost' = ThreatCost /\ CampaignCost' = CampaignCost
<1>1. \A sev : Severe(sev)' = Severe(sev)
  BY DEF Severe, OpenThreats
<1>2. \A low, high : Risky(low, high)' = Risky(low, high)
  BY DEF Risky
<1>3. AlertCost' = AlertCost
  BY DEF AlertCost
<1> QED BY <1>1, <1>2, <1>3 DEF ThreatCost, CampaignCost

\* The score: both halves are still those of the tables when it is stored.
LEMMA ScoreAlone ==
  ASSUME Inv, Typed, Alone, NEW r \in Reqs, ReadCost(r) \/ ReadRest(r) \/ StoreScore(r)
  PROVE  Alone'
<1>1. PICK s : s = job[r]
  OBVIOUS
<1>2. Verifies(s) /\ s # Idle /\ last = Nothing /\ Looks(s)
  BY <1>1, Verifying DEF ReadCost, ReadRest, StoreScore
<1>3. UNCHANGED <<v2, threat, campaign, acted, blocked, alert, day, faults>>
  BY DEF ReadCost, ReadRest, StoreScore, Goto, Finish, tables
<1>4. s.todo = {}
  BY <1>1, <1>2 DEF Looks, ReadCost, ReadRest, StoreScore
<1>5. \A t : Unmitigated(t)' <=> Unmitigated(t)
  BY <1>3, EvidenceRests
<1>6. AlertCost \in Nat /\ ThreatCost \in Nat /\ CampaignCost \in Nat
  BY CostsAre
<1>7. UNCHANGED OpenThreats
  BY <1>3 DEF OpenThreats
<1>8. ASSUME NEW pc \in {"rest", "store"}, NEW cost, Goto(r, [s EXCEPT !.pc = pc, !.cost = cost]),
             IF pc = "rest" THEN cost = IF v2 THEN AlertCost ELSE ThreatCost
             ELSE cost = AlertCost + (IF v2 THEN CampaignCost ELSE ThreatCost)
      PROVE  Alone'
  <2>1. PICK j : j = [s EXCEPT !.pc = pc, !.cost = cost]
    OBVIOUS
  <2>2. DOMAIN j = DOMAIN s /\ j.pc = pc /\ j.cost = cost /\ j.did = s.did /\ j.todo = {}
    BY <1>2, <1>4, <2>1 DEF Verifies
  <2>3. job' = [job EXCEPT ![r] = j] /\ last' = Nothing
    BY <1>2, <1>8, <2>1 DEF Goto
  <2>4. faults' = 0 /\ j.did = "verifyAll" => \A t \in OpenThreats' : Unmitigated(t)'
    BY <1>2, <1>3, <1>4, <1>5, <1>7, <2>2 DEF Looks
  <2>5. j.cost = IF pc = "rest" THEN (IF v2' THEN AlertCost' ELSE ThreatCost')
                 ELSE AlertCost' + (IF v2' THEN CampaignCost' ELSE ThreatCost')
    BY <1>3, <1>8, <2>2, CostsRest
  <2>6. Looks(j)'
    BY <1>2, <2>2, <2>4, <2>5 DEF Looks
  <2>7. Aware(j)'
    BY <1>2, <2>2, <2>6 DEF Aware, Verifies
  <2> QED BY <1>1, <1>2, <1>3, <2>3, <2>7, AloneMoved
<1>9. CASE ReadCost(r)
  <2>1. PICK cost : cost = IF v2 THEN AlertCost ELSE ThreatCost
    OBVIOUS
  <2>2. Goto(r, [s EXCEPT !.pc = "rest", !.cost = cost])
    BY <1>1, <1>9, <2>1 DEF ReadCost
  <2> QED BY <1>8, <2>1, <2>2
<1>10. CASE ReadRest(r)
  <2>1. s.cost = IF v2 THEN AlertCost ELSE ThreatCost
    BY <1>1, <1>2, <1>10 DEF Looks, ReadRest
  <2>2. PICK cost : cost = s.cost + (IF v2 THEN CampaignCost ELSE AlertCost)
    OBVIOUS
  <2>3. cost = AlertCost + (IF v2 THEN CampaignCost ELSE ThreatCost)
    BY <1>6, <2>1, <2>2
  <2>4. Goto(r, [s EXCEPT !.pc = "store", !.cost = cost])
    BY <1>1, <1>2, <1>10, <2>2 DEF ReadRest, Verifies
  <2> QED BY <1>8, <2>3, <2>4
<1>11. CASE StoreScore(r)
  <2>1. score' = Percent(100 - s.cost) /\ job' = [job EXCEPT ![r] = Idle] /\ last' = [did |-> s.did]
    BY <1>1, <1>11 DEF StoreScore, Finish
  <2>2. s.cost = AlertCost + (IF v2 THEN CampaignCost ELSE ThreatCost)
    BY <1>1, <1>2, <1>11 DEF Looks, StoreScore
  <2>3. 100 - s.cost = 100 - AlertCost - (IF v2 THEN CampaignCost ELSE ThreatCost)
    BY <1>6, <2>2
  <2>4. LiveScore' = LiveScore
    BY <1>3, CostsRest DEF LiveScore, Percent
  <2>5. RefreshedScoreIsLive'
    BY <2>1, <2>3, <2>4 DEF RefreshedScoreIsLive, LiveScore
  <2>6. s.did = "verifyAll" /\ faults = 0 => \A t \in OpenThreats : Unmitigated(t)
    BY <1>2, <1>4 DEF Looks
  <2>7. VerifyAllIsComplete'
    BY <1>3, <1>5, <1>7, <2>1, <2>6 DEF VerifyAllIsComplete, Unmitigated
  <2>8. last'.did = s.did
    BY <2>1
  <2>9. FindingIsOpen'
    BY <1>2, <2>8 DEF FindingIsOpen, Looks
  <2> QED BY <1>1, <1>2, <1>3, <2>1, <2>5, <2>7, <2>9, AloneMoved DEF Told
<1> QED BY <1>9, <1>10, <1>11

\* A request is only taken when none runs.
LEMMA OneIsCounted ==
  ASSUME crowd = 1, Counted
  PROVE  AllIdle
<1>1. PICK S : S = { r \in Reqs : job[r] # Idle }
  OBVIOUS
<1>2. IsFiniteSet(S)
  BY <1>1, ReqsFinite, FS_Subset
<1>3. Cardinality(S) \in Nat /\ Cardinality(S) < 1
  BY <1>1, <1>2, FS_CardinalityType DEF Counted
<1>4. S = {}
  BY <1>2, <1>3, FS_EmptySet
<1> QED BY <1>1, <1>4 DEF AllIdle

\* Requests that start.
LEMMA StartAlone ==
  ASSUME Inv, Typed, Alone, crowd = 1, NEW r \in Reqs,
         (\E s \in Load.signals : Analyse(r, s)) \/ (\E t \in DOMAIN threat : Verify(r, t))
           \/ VerifyAll(r) \/ Refresh(r)
  PROVE  Alone'
<1>1. ASSUME NEW j, Begin(r, j), Aware(j)' PROVE Alone'
  <2>1. AllIdle
    BY <1>1, OneIsCounted DEF Begin
  <2>2. UNCHANGED <<threat, campaign, day>> /\ last' = Nothing /\ job' = [job EXCEPT ![r] = j]
    BY <1>1 DEF Begin, Counted, tables
  <2>3. OneOpen' /\ OneRunning'
    BY <2>2, RowsRest DEF Alone
  <2> QED BY <1>1, <2>1, <2>2, <2>3, AloneAfter DEF AllIdle
<1>2. ASSUME NEW s \in Load.signals, Analyse(r, s) PROVE Alone'
  <2>1. PICK j : j = [pc |-> "event", sig |-> s, ev |-> 0, corr |-> NoCorrelation,
                      camp |-> 0, tid |-> 0]
    OBVIOUS
  <2>2. Aware(j)'
    BY <2>1, Unaware
  <2>3. Begin(r, j)
    BY <1>2, <2>1 DEF Analyse
  <2> QED BY <1>1, <2>2, <2>3
<1>3. ASSUME NEW did \in {"verify", "verifyAll", "refresh"}, NEW todo,
             Begin(r, Verification(did, todo)), did = "verifyAll" => todo = OpenThreats
      PROVE  Alone'
  <2>1. PICK j : j = Verification(did, todo)
    OBVIOUS
  <2>2. /\ DOMAIN j = {"pc", "did", "todo", "tid", "ok", "cost"} /\ j.did = did /\ j.todo = todo
        /\ j.pc = IF todo = {} THEN "cost" ELSE "actions"
    BY <2>1 DEF Verification
  <2>3. UNCHANGED OpenThreats
    BY <1>3 DEF Begin, tables, OpenThreats
  <2>4. Looks(j)'
    BY <1>3, <2>2, <2>3 DEF Looks
  <2>5. Aware(j)'
    BY <2>2, <2>4 DEF Aware
  <2> QED BY <1>1, <1>3, <2>1, <2>5
<1>4. ASSUME NEW t \in DOMAIN threat, Verify(r, t) PROVE Alone'
  BY <1>3, <1>4 DEF Verify
<1>5. ASSUME VerifyAll(r) PROVE Alone'
  BY <1>3, <1>5 DEF VerifyAll
<1>6. ASSUME Refresh(r) PROVE Alone'
  BY <1>3, <1>6 DEF Refresh
<1> QED BY <1>2, <1>4, <1>5, <1>6

\* Requests that die, and failures that handlers drop: what is said after them is said of
\* executions without failures only.
LEMMA FaultAlone ==
  ASSUME Inv, Typed, Alone, NEW r \in Reqs, Abandon(r) \/ Swallow(r) \/ MissEvidence(r)
  PROVE  Alone'
<1>1. PICK s : s = job[r]
  OBVIOUS
<1>2. UNCHANGED <<v2, threat, campaign, day>> /\ last' = Nothing /\ faults' = faults + 1
  BY DEF Abandon, Swallow, MissEvidence, Fault, tables
<1>3. faults' # 0
  BY <1>2 DEF Inv
<1>4. CASE Abandon(r)
  BY <1>2, <1>4, AloneMoved DEF Abandon
<1>5. CASE Swallow(r)
  <2>1. Ingests(s) /\ s # Idle
    BY <1>1, <1>5, Current, Places DEF Swallow, Ingesting, Storing, Idle
  <2>2. PICK k : k = IF s.pc \in Ingesting THEN [s EXCEPT !.camp = 0, !.corr = NoCorrelation] ELSE s
    OBVIOUS
  <2>3. DOMAIN k = DOMAIN s /\ (s.pc \in Ingesting => k.camp = 0)
    BY <2>1, <2>2 DEF Ingests
  <2>4. CASE job' = [job EXCEPT ![r] = Idle]
    BY <1>1, <1>2, <2>1, <2>4, AloneMoved
  <2>5. CASE s.pc \in Ingesting /\ job' = [job EXCEPT ![r] = [k EXCEPT !.pc = ByContractOrInsert(k)]]
    <3>1. PICK pc : pc = ByContractOrInsert(k)
      OBVIOUS
    <3>2. pc \in {"byContract", "insert"} /\ (pc = "byContract" => v2)
      BY <3>1 DEF ByContractOrInsert
    <3>3. PICK j : j = [k EXCEPT !.pc = pc]
      OBVIOUS
    <3>4. DOMAIN j = DOMAIN s /\ j.pc = pc /\ j.camp = 0
      BY <2>1, <2>3, <2>5, <3>3 DEF Ingests
    <3>5. Aware(j)'
      BY <1>2, <2>1, <3>2, <3>4 DEF Aware, Learns, Ingests
    <3> QED BY <1>1, <1>2, <2>1, <2>5, <3>1, <3>3, <3>5, AloneMoved
  <2>6. CASE job' = [job EXCEPT ![r] = [k EXCEPT !.pc = "alert"]]
    <3>1. PICK j : j = [k EXCEPT !.pc = "alert"]
      OBVIOUS
    <3>2. DOMAIN j = DOMAIN s /\ j.pc = "alert"
      BY <2>1, <2>3, <3>1 DEF Ingests
    <3>3. Aware(j)'
      BY <1>3, <2>1, <3>2 DEF Aware, Learns, Ingests
    <3> QED BY <1>1, <1>2, <2>1, <2>6, <3>1, <3>3, AloneMoved
  <2> QED BY <1>1, <1>5, <2>2, <2>4, <2>5, <2>6 DEF Swallow
<1>6. CASE MissEvidence(r)
  <2>1. Verifies(s) /\ s # Idle /\ Looks(s) /\ s.pc \in {"actions", "blocked"}
    BY <1>1, <1>6, Verifying DEF MissEvidence
  <2>2. ASSUME NEW j, job' = [job EXCEPT ![r] = j], DOMAIN j = DOMAIN s, j.did = s.did,
               j.pc \in {"blocked", "mark"}
        PROVE  Alone'
    <3>1. Looks(j)'
      BY <1>3, <2>1, <2>2 DEF Looks
    <3>2. Aware(j)'
      BY <2>1, <2>2, <3>1 DEF Aware, Verifies
    <3> QED BY <1>1, <1>2, <2>1, <2>2, <3>2, AloneMoved
  <2>3. CASE \E t \in s.todo : job' = [job EXCEPT ![r] = Examined(s, t, FALSE)]
    <3>1. PICK ok : ok = FALSE
      OBVIOUS
    <3>2. PICK t \in s.todo : job' = [job EXCEPT ![r] = Examined(s, t, ok)]
      BY <2>3, <3>1
    <3>3. PICK j : j = Examined(s, t, ok)
      OBVIOUS
    <3>4. DOMAIN j = DOMAIN s /\ j.did = s.did /\ j.pc \in {"blocked", "mark"}
      BY <2>1, <3>3, ExaminedFields
    <3> QED BY <2>2, <3>2, <3>3, <3>4
  <2>4. CASE job' = [job EXCEPT ![r].pc = "mark"]
    <3>1. PICK j : j = [s EXCEPT !.pc = "mark"]
      OBVIOUS
    <3>2. job' = [job EXCEPT ![r] = j]
      BY <1>1, <2>4, <3>1 DEF Inv, Jobs
    <3>3. DOMAIN j = DOMAIN s /\ j.did = s.did /\ j.pc = "mark"
      BY <2>1, <3>1 DEF Verifies
    <3> QED BY <2>2, <3>2, <3>3
  <2> QED BY <1>1, <1>6, <2>3, <2>4 DEF MissEvidence
<1> QED BY <1>4, <1>5, <1>6

\* While no request runs, nothing is said and the rows may change as they are told to.
LEMMA AloneAside ==
  ASSUME AllIdle, UNCHANGED job, last' = Nothing, OneOpen', OneRunning'
  PROVE  Alone'
<1>1. \A r \in Reqs : (job[r])' = Idle
  BY DEF AllIdle
<1>2. OneBusy'
  BY <1>1 DEF OneBusy
<1>3. Told'
  <2>1. last'.did \notin {"found", "verifyAll", "verify", "refresh"}
    BY DEF Nothing
  <2> QED BY <2>1 DEF Told, FindingIsOpen, VerifyAllIsComplete, RefreshedScoreIsLive
<1> QED BY <1>1, <1>2, <1>3 DEF Alone

\* Statements of the user, and days.
LEMMA AsideAlone ==
  ASSUME Inv, Typed, Alone, crowd = 1,
         \/ \E t \in DOMAIN threat : Resolve(t) \/ Dismiss(t)
         \/ \E t \in DOMAIN threat, a \in Load.actions : RecordAction(t, a)
         \/ \E c \in Load.contracts : BlockContract(c) \/ UnblockContract(c)
         \/ MarkAlertsRead \/ NextDay
  PROVE  Alone'
<1>1. AllIdle /\ UNCHANGED job /\ last' = Nothing
  BY OneIsCounted DEF Resolve, Dismiss, RecordAction, BlockContract, UnblockContract,
     MarkAlertsRead, NextDay, Instant, Counted
<1>2. OneOpen /\ OneRunning
  BY DEF Alone
<1>3. ASSUME NEW t \in DOMAIN threat, Resolve(t) \/ Dismiss(t) PROVE Alone'
  <2>1. PICK status : status # "open" /\ threat' = [threat EXCEPT ![t].status = status]
    BY <1>3 DEF Resolve, Dismiss, Close
  <2>2. UNCHANGED <<campaign, day>>
    BY <1>3 DEF Resolve, Dismiss, Instant, Counted
  <2>3. PICK y : y = threat[t]
    OBVIOUS
  <2>4. PICK x : x = [y EXCEPT !.status = status]
    OBVIOUS
  <2>5. x.status = status /\ x.campaign = y.campaign
    BY <2>3, <2>4 DEF Inv, Rows, IsThreat
  <2>6. threat' = [threat EXCEPT ![t] = x]
    BY <2>1, <2>3, <2>4
  <2>7. /\ DOMAIN threat' = DOMAIN threat
        /\ \A k \in DOMAIN threat : threat'[k] = IF k = t THEN x ELSE threat[k]
    BY <2>6, Changed DEF Inv, Rows
  <2>8. \A k \in OpenThreats' : k \in OpenThreats /\ threat'[k].campaign = threat[k].campaign
    BY <2>1, <2>3, <2>5, <2>7 DEF OpenThreats
  <2>9. OneOpen'
    BY <1>2, <2>8 DEF OneOpen
  <2>10. OneRunning'
    BY <1>2, <2>2 DEF OneRunning, Recent
  <2> QED BY <1>1, <2>9, <2>10, AloneAside
<1>4. CASE NextDay
  <2>1. UNCHANGED <<threat, campaign>> /\ day' = day + 1 /\ day \in Int /\ CampaignDays \in Int
    BY <1>4, DaysNat DEF NextDay, tables, Typed, Rest
  <2>2. OneOpen'
    BY <1>2, <2>1 DEF OneOpen, OpenThreats
  <2>3. \A k \in DOMAIN campaign : /\ campaign[k].seen \in Int
                                   /\ campaign[k].seen <= day /\ campaign[k].seen <= day'
    BY <1>2, <2>1 DEF OneRunning, Typed, Analysed, IsCampaign
  <2>4. \A k \in DOMAIN campaign : Recent(campaign[k].seen, CampaignDays)' =>
                                     Recent(campaign[k].seen, CampaignDays)
    BY <2>1, <2>3 DEF Recent
  <2>5. OneRunning'
    BY <1>2, <2>1, <2>3, <2>4 DEF OneRunning
  <2> QED BY <1>1, <2>2, <2>5, AloneAside
<1>5. CASE UNCHANGED <<threat, campaign, day>>
  BY <1>1, <1>2, <1>5, RowsRest, AloneAside
<1>6. ASSUME NEW t \in DOMAIN threat, NEW a \in Load.actions, RecordAction(t, a)
      PROVE  UNCHANGED <<threat, campaign, day>>
  BY <1>6 DEF RecordAction, Instant, Counted
<1>7. ASSUME NEW c \in Load.contracts, BlockContract(c) \/ UnblockContract(c)
      PROVE  UNCHANGED <<threat, campaign, day>>
  BY <1>7 DEF BlockContract, UnblockContract, Instant, Counted
<1>8. ASSUME MarkAlertsRead PROVE UNCHANGED <<threat, campaign, day>>
  BY <1>8 DEF MarkAlertsRead, Instant, Counted
<1> QED BY <1>3, <1>4, <1>5, <1>6, <1>7, <1>8

\* A step that changes nothing.
LEMMA StutterAlone ==
  ASSUME Alone, UNCHANGED vars
  PROVE  Alone'
<1>1. UNCHANGED <<v2, crowd, campaign, threat, acted, blocked, alert, score, job, day, faults, last>>
  BY DEF vars
<1>2. UNCHANGED <<OpenThreats, AlertCost, ThreatCost, CampaignCost>>
  BY <1>1, CostsRest DEF OpenThreats
<1>3. \A type : RunningOf(type)' = RunningOf(type)
  BY <1>1 DEF RunningOf, Recent
<1>4. \A k : OpenOfCampaign(k)' = OpenOfCampaign(k)
  BY <1>1 DEF OpenOfCampaign
<1>5. \A t : (Mitigated(t)' <=> Mitigated(t)) /\ (Unmitigated(t)' <=> Unmitigated(t))
  BY <1>1, EvidenceRests
<1>6. ASSUME NEW j, Aware(j) PROVE Aware(j)'
  <2>1. FinalSev(j)' = FinalSev(j)
    BY <1>1 DEF FinalSev, FinalRisk, Joined
  <2>2. \A sev, camp : Shown(sev, camp)' <=> Shown(sev, camp)
    BY <1>1, <1>2 DEF Shown
  <2>3. Learns(j) => Learns(j)'
    BY <1>1, <1>2, <1>3, <1>4, <2>1, <2>2 DEF Learns
  <2>4. Looks(j) => Looks(j)'
    BY <1>1, <1>2, <1>5 DEF Looks
  <2> QED BY <1>6, <2>3, <2>4 DEF Aware
<1>7. ASSUME NEW r \in Reqs, (job[r])' # Idle PROVE last' = Nothing /\ Aware(job[r])'
  <2>1. PICK j : j = job[r]
    OBVIOUS
  <2>2. Aware(j)' /\ last = Nothing
    BY <1>1, <1>6, <1>7, <2>1 DEF Alone
  <2>3. job'[r] = j
    BY <1>1, <2>1
  <2> QED BY <1>1, <2>2, <2>3
<1>8. OneOpen' /\ OneRunning'
  BY <1>1, RowsRest DEF Alone
<1>9. OneBusy'
  BY <1>1 DEF OneBusy, Alone
<1>10. LiveScore' = LiveScore
  BY <1>1, <1>2 DEF LiveScore, Percent
<1>11. Told'
  <2>1. FindingIsOpen'
    BY <1>1, <1>2 DEF Alone, Told, FindingIsOpen
  <2>2. VerifyAllIsComplete'
    BY <1>1, <1>2, <1>5 DEF Alone, Told, VerifyAllIsComplete
  <2>3. RefreshedScoreIsLive'
    BY <1>1, <1>10 DEF Alone, Told, RefreshedScoreIsLive
  <2> QED BY <2>1, <2>2, <2>3 DEF Told
<1> QED BY <1>7, <1>8, <1>9, <1>11 DEF Alone

\* It holds of the initial state.
LEMMA InitAlone ==
  ASSUME Init
  PROVE  Alone
<1>1. \A r \in Reqs : job[r] = Idle
  BY DEF Init
<1>2. DOMAIN threat = {} /\ DOMAIN campaign = {}
  BY DEF Init
<1>3. OneOpen /\ OneRunning
  BY <1>2 DEF OneOpen, OneRunning, OpenThreats
<1>4. last.did \notin {"found", "verifyAll", "verify", "refresh"}
  BY DEF Init, Nothing
<1>5. Told
  BY <1>4 DEF Told, FindingIsOpen, VerifyAllIsComplete, RefreshedScoreIsLive
<1> QED BY <1>1, <1>3, <1>5 DEF Alone, OneBusy

\* The crowd never changes.
LEMMA CrowdStays ==
  ASSUME Inv, [Next]_vars
  PROVE  crowd' = crowd
<1>1. ASSUME NEW r \in Reqs, Step(r) PROVE crowd' = crowd
  BY <1>1 DEF Step, RecordEvent, ReadEvents, FindCampaign, WriteCampaign, AddEvidence,
     FindByCampaign, FindByContract, Select, MergeThreat, InsertThreat, CreateAlert,
     ReadActions, ReadBlocked, MarkVerification, CloseVerified, ReadCost, ReadRest, StoreScore,
     AfterIngest, AfterThreat, Goto, Finish
<1>2. ASSUME NEW r \in Reqs, Abandon(r) \/ Swallow(r) \/ MissEvidence(r) PROVE crowd' = crowd
  BY <1>2 DEF Abandon, Swallow, MissEvidence, Fault
<1>3. ASSUME NEW r \in Reqs, NEW j, Begin(r, j) PROVE crowd' = crowd
  BY <1>3 DEF Begin, Counted
<1>4. ASSUME Instant \/ NextDay \/ UNCHANGED vars PROVE crowd' = crowd
  BY <1>4 DEF Instant, Counted, NextDay, vars
<1> QED BY <1>1, <1>2, <1>3, <1>4 DEF Next, Analyse, Verify, VerifyAll, Refresh, Resolve, Dismiss,
   RecordAction, BlockContract, UnblockContract, MarkAlertsRead

\* Every step keeps it.
LEMMA NextAlone ==
  ASSUME Inv, Typed, AInv, [Next]_vars
  PROVE  AInv'
<1> SUFFICES ASSUME crowd = 1 PROVE Alone'
  BY CrowdStays DEF AInv
<1>1. Alone
  BY DEF AInv
<1>2. ASSUME NEW r \in Reqs, Step(r) PROVE Alone'
  BY <1>1, <1>2, EventsAlone, FindCampaignAlone, WriteCampaignAlone, FindAlone, MergeAlone,
     InsertAlone, CreateAlertAlone, ReadAlone, MarkAlone, ScoreAlone DEF Step
<1> QED BY <1>1, <1>2, StartAlone, FaultAlone, AsideAlone, StutterAlone DEF Next

\* The invariant of the theorems below, of a wallet whose requests come one at a time: what
\* the request that runs has read is still true of the tables.
THEOREM AloneHolds == Spec => []AInv
<1>1. Init => AInv
  BY InitAlone DEF AInv
<1>2. Inv /\ Typed /\ AInv /\ [Next]_vars => AInv'
  BY NextAlone
<1> QED BY <1>1, <1>2, InvHolds, TypedHolds, PTL DEF Spec

\* "v2 dedupe": one at a time, a campaign has at most one open threat and a wallet at most
\* one running campaign of a type.
THEOREM DuplicatesHold == Spec => []NoDuplicates
<1>1. AInv => NoDuplicates
  BY DEF AInv, Alone, OneOpen, OneRunning, NoDuplicates
<1> QED BY <1>1, AloneHolds, PTL

\* One at a time, a finding is an open threat of today and of its campaign when its analysis
\* is done.
THEOREM FindingHolds == Spec => []FindingIsOpen
<1>1. AInv => FindingIsOpen
  BY DEF AInv, Alone, Told, FindingIsOpen
<1> QED BY <1>1, AloneHolds, PTL

\* One at a time, verify-all leaves no open threat that has a mitigation.
THEOREM VerifyAllHolds == Spec => []VerifyAllIsComplete
<1>1. AInv => VerifyAllIsComplete
  BY DEF AInv, Alone, Told, VerifyAllIsComplete
<1> QED BY <1>1, AloneHolds, PTL

\* One at a time, the score a refresh stored is the live one.
THEOREM RefreshedHolds == Spec => []RefreshedScoreIsLive
<1>1. AInv => RefreshedScoreIsLive
  BY DEF AInv, Alone, Told, RefreshedScoreIsLive
<1> QED BY <1>1, AloneHolds, PTL
=============================================================================
