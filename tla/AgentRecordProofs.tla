-------------------------- MODULE AgentRecordProofs --------------------------
(***************************************************************************)
(* What writeState's rule for merging an update into a record keeps, for   *)
(* any records, updates and clocks.                                        *)
(***************************************************************************)
EXTENDS AgentRecord, TLAPS

(* Merging a well-formed update into a well-formed record gives one. *)
LEMMA MergeTyped ==
    ASSUME NEW existing, NEW update, IsRecord(existing), IsUpdate(update)
    PROVE  IsRecord(Merge(existing, update))
BY DEF IsRecord, IsUpdate, Merge

LEMMA FieldNames ==
    Fields = {"state", "pinned_state", "current_tool", "pending_question",
              "hook_blocked", "subagent_count", "preview", "report_seq"}
BY DEF Fields, Values

LEMMA EmptyTyped == IsRecord(Empty)
<1>1. DOMAIN Empty = Fields
  BY FieldNames DEF Empty
<1>2. Empty["state"] \in Values["state"]
  BY DEF Empty, Values, States
<1>3. Empty["pinned_state"] \in Values["pinned_state"]
  BY DEF Empty, Values
<1>4. Empty["current_tool"] \in Values["current_tool"]
  BY DEF Empty, Values
<1>5. Empty["pending_question"] \in Values["pending_question"]
  BY DEF Empty, Values
<1>6. Empty["hook_blocked"] \in Values["hook_blocked"]
  BY DEF Empty, Values
<1>7. Empty["subagent_count"] \in Values["subagent_count"]
  BY DEF Empty, Values
<1>8. Empty["preview"] \in Values["preview"]
  BY DEF Empty, Values
<1>9. Empty["report_seq"] \in Values["report_seq"]
  BY DEF Empty, Values, NoSeq
<1> QED
  BY <1>1, <1>2, <1>3, <1>4, <1>5, <1>6, <1>7, <1>8, <1>9, FieldNames DEF IsRecord

LEMMA ExistingTyped ==
    ASSUME NEW r, r = NoRecord \/ IsRecord(r)
    PROVE  IsRecord(Existing(r))
BY EmptyTyped DEF Existing

(* writeState keeps the record well-formed. *)
LEMMA MergedTyped ==
    ASSUME NEW existing, NEW w, NEW now,
           IsRecord(existing), IsUpdate(w.update)
    PROVE  IsRecord(Merged(existing, w, now))
<1> DEFINE merged == Merge(existing, w.update)
           kept == [merged EXCEPT !["state"] = existing.state]
           stateKept == IF Preserved(existing, w) THEN kept ELSE merged
<1>1. IsRecord(merged)
  BY MergeTyped
<1>2. {"state", "report_seq"} \subseteq Fields
  BY DEF Fields, Values
<1>3. IsRecord(kept)
  BY <1>1, <1>2 DEF IsRecord
<1>4. IsRecord(stateKept)
  BY <1>1, <1>3
<1>5. IsRecord([stateKept EXCEPT !["report_seq"] = existing.report_seq])
  BY <1>2, <1>4 DEF IsRecord
<1> QED
  BY <1>4, <1>5 DEF Merged

LEMMA StampTyped ==
    ASSUME NEW update, IsUpdate(update), NEW seq \in Nat
    PROVE  IsUpdate(Stamp(update, seq))
<1>1. "report_seq" \in Fields /\ Values["report_seq"] = Nat
  BY FieldNames DEF Values
<1> QED
  BY <1>1 DEF IsUpdate, Stamp

(* What writeState does to the fields the properties speak of. *)
LEMMA MergedFields ==
    ASSUME NEW existing, NEW w, NEW now,
           IsRecord(existing), IsUpdate(w.update), ~Rejected(existing, w, now)
    PROVE  LET merged == Merged(existing, w, now) IN
           /\ GuardHit(existing, w) => merged.state = existing.state
           /\ "pinned_state" \notin DOMAIN w.update
                 => merged.pinned_state = existing.pinned_state
           /\ Plausible(existing.report_seq, now)
                 => merged.report_seq >= existing.report_seq
<1> DEFINE merged == Merge(existing, w.update)
           stateKept == IF Preserved(existing, w)
                        THEN [merged EXCEPT !["state"] = existing.state]
                        ELSE merged
<1>1. {"state", "pinned_state", "report_seq"} \subseteq Fields
  BY FieldNames
<1>2. /\ DOMAIN stateKept = Fields
      /\ stateKept.report_seq = merged.report_seq
      /\ stateKept.pinned_state = merged.pinned_state
      /\ Preserved(existing, w) => stateKept.state = existing.state
  BY <1>1 DEF Merge
<1>3. GuardHit(existing, w) => Preserved(existing, w)
  BY DEF Rejected, Preserved
<1>4. "pinned_state" \notin DOMAIN w.update => merged.pinned_state = existing.pinned_state
  BY <1>1 DEF Merge
<1>5. existing.report_seq \in Nat /\ ("report_seq" \in DOMAIN w.update => w.update.report_seq \in Nat)
  BY <1>1 DEF IsRecord, IsUpdate, Values
<1>6. ASSUME Plausible(existing.report_seq, now), ~StaleReportSeq(existing, w.update, now)
      PROVE  merged.report_seq >= existing.report_seq
  BY <1>1, <1>5, <1>6 DEF StaleReportSeq, Merge
<1>7. CASE StaleReportSeq(existing, w.update, now)
  <2>1. Merged(existing, w, now) = [stateKept EXCEPT !["report_seq"] = existing.report_seq]
    BY <1>7 DEF Merged
  <2> HIDE DEF stateKept
  <2> QED
    BY <1>1, <1>2, <1>3, <1>4, <1>5, <2>1
<1>8. CASE ~StaleReportSeq(existing, w.update, now)
  <2>1. Merged(existing, w, now) = stateKept
    BY <1>8 DEF Merged
  <2> HIDE DEF stateKept
  <2> QED
    BY <1>2, <1>3, <1>4, <1>6, <1>8, <2>1
<1> QED
  BY <1>7, <1>8

(* For a record whose stamp is not in the future, staleness is the order of *)
(* the stamps.                                                             *)
LEMMA StaleFact ==
    ASSUME NEW existing, NEW update, NEW now \in Nat, IsUpdate(update),
           existing.report_seq \in Nat, existing.report_seq <= now
    PROVE  /\ "report_seq" \in DOMAIN update => update.report_seq \in Nat
           /\ StaleReportSeq(existing, update, now) <=>
                 "report_seq" \in DOMAIN update /\ update.report_seq < existing.report_seq
<1>1. Values["report_seq"] = Nat
  BY DEF Values
<1>2. "report_seq" \in DOMAIN update => update.report_seq \in Nat
  BY <1>1 DEF IsUpdate
<1>3. Plausible(existing.report_seq, now) <=> existing.report_seq # 0
  BY SlackAssumption DEF Plausible, NoSeq
<1> QED
  BY <1>2, <1>3 DEF StaleReportSeq

(* The fields of the merged record that later decisions depend on. *)
LEMMA MergedFact ==
    ASSUME NEW existing, NEW w, NEW now \in Nat, IsRecord(existing), IsUpdate(w.update),
           existing.report_seq \in Nat, existing.report_seq <= now, NEW m, m = Merged(existing, w, now)
    PROVE  /\ IsRecord(m)
           /\ m.state = IF Preserved(existing, w) \/ "state" \notin DOMAIN w.update
                        THEN existing.state ELSE w.update.state
           /\ m.preview = IF "preview" \in DOMAIN w.update THEN w.update.preview ELSE existing.preview
           /\ "pinned_state" \notin DOMAIN w.update => m.pinned_state = existing.pinned_state
           /\ m.report_seq = IF "report_seq" \in DOMAIN w.update /\ ~(w.update.report_seq < existing.report_seq)
                             THEN w.update.report_seq ELSE existing.report_seq
<1> PICK u : u = w.update
  OBVIOUS
<1> PICK r : r = Merge(existing, u)
  OBVIOUS
<1>1. {"state", "pinned_state", "preview", "report_seq"} \subseteq Fields
  BY FieldNames
<1>2. /\ DOMAIN r = Fields
      /\ r.state = IF "state" \in DOMAIN u THEN u.state ELSE existing.state
      /\ r.preview = IF "preview" \in DOMAIN u THEN u.preview ELSE existing.preview
      /\ r.pinned_state = IF "pinned_state" \in DOMAIN u THEN u.pinned_state ELSE existing.pinned_state
      /\ r.report_seq = IF "report_seq" \in DOMAIN u THEN u.report_seq ELSE existing.report_seq
  BY <1>1 DEF Merge
<1> PICK k : k = IF Preserved(existing, w) THEN [r EXCEPT !["state"] = existing.state] ELSE r
  OBVIOUS
<1>3. /\ DOMAIN k = Fields /\ k.preview = r.preview /\ k.pinned_state = r.pinned_state /\ k.report_seq = r.report_seq
      /\ k.state = IF Preserved(existing, w) THEN existing.state ELSE r.state
  BY <1>1, <1>2
<1>4. m = IF StaleReportSeq(existing, u, now) THEN [k EXCEPT !["report_seq"] = existing.report_seq] ELSE k
  BY DEF Merged
<1>5. /\ m.preview = k.preview /\ m.pinned_state = k.pinned_state /\ m.state = k.state
      /\ m.report_seq = IF StaleReportSeq(existing, u, now) THEN existing.report_seq ELSE k.report_seq
  BY <1>1, <1>3, <1>4
<1>6. IsRecord(m)
  BY MergedTyped
<1>7. StaleReportSeq(existing, u, now) <=> "report_seq" \in DOMAIN u /\ u.report_seq < existing.report_seq
  BY StaleFact
<1> QED
  BY <1>2, <1>3, <1>5, <1>6, <1>7

(* A dashboard write leaves the fields it does not name. *)
LEMMA MergeFields ==
    ASSUME NEW existing, NEW update
    PROVE  \A f \in Fields \ DOMAIN update : Merge(existing, update)[f] = existing[f]
BY DEF Merge
=============================================================================
