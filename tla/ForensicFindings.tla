-------------------------- MODULE ForensicFindings --------------------------
(***************************************************************************)
(* forensic/correlation.rs and forensic/anti_forensic.rs: what the         *)
(* correlation rules and the anti-forensic checks report of a batch of     *)
(* events.  Chains go to a bounded store, oldest out first; the journal    *)
(* check compares the volume with the snapshot of the previous check.      *)
(***************************************************************************)
EXTENDS FilesystemEvents

CONSTANTS MaxChains,       \* max_chains
          MassThreshold,   \* modifications by one process that count as mass modification
          Volume           \* what UsnJournalReader::volume answers

ASSUME FindingsAssumption == MaxChains \in Nat \ {0} /\ MassThreshold \in Nat \ {0}

VARIABLES chains,          \* the stored chains, oldest first
          snapshots        \* the volume as of the previous journal check, if any

findingsVars == <<chains, snapshots>>

InitFindings == chains = <<>> /\ snapshots = {}

\* time_window_seconds of rapid_create_delete, the only rule that looks at its window.
RapidWindow == 60

\* A chain runs from its first event to its last.
Chain(rule, evs, confidence) ==
    [rule |-> rule, events |-> evs, confidence |-> confidence,
     start |-> Head(evs).time, end |-> Last(evs).time]

\* One chain per group that is large enough: a HashMap of vectors in the code.
Groups(batch, keys, Key(_), P(_), size) ==
    {g \in {Selected(batch, LAMBDA e : P(e) /\ Key(e) = k) : k \in keys} : Len(g) >= size}

\* eval_rapid_create_delete: create_map holds the last creation not yet deleted.
RapidConfidence(secs) == IF secs < 10 THEN 95 ELSE IF secs < 60 THEN 85 ELSE 65

RapidCreateDelete(batch) ==
    LET Creations(j) == {i \in 1..j :
            /\ batch[i].frn = batch[j].frn /\ Has(batch[i], "FILE_CREATE")
            /\ \A k \in i..j : batch[k].frn = batch[i].frn =>
                  /\ k > i => ~Has(batch[k], "FILE_CREATE")
                  /\ k < j => ~Has(batch[k], "FILE_DELETE")}
        Creation(j) == batch[CHOOSE i \in Creations(j) : TRUE]
        Secs(j) == Seconds(batch[j].time - Creation(j).time)
        found == InOrder({j \in DOMAIN batch : /\ Has(batch[j], "FILE_DELETE") /\ Creations(j) # {}
                                              /\ Secs(j) \in 0..RapidWindow})
    IN  [n \in DOMAIN found |->
            Chain("rapid_create_delete", <<Creation(found[n]), batch[found[n]]>>,
                  RapidConfidence(Secs(found[n])))]

\* eval_dropper: events of no known process are a group like any other.
Dropper(batch) ==
    LET Created(e) == Has(e, "FILE_CREATE")
        Executables(g) == SelectSeq(g, LAMBDA e : Traits[e.name] \cap {"exe", "script"} # {})
    IN  {Chain("dropper_pattern", g, 80) :
            g \in {h \in Groups(batch, Pids \cup {NoPid}, LAMBDA e : e.pid, Created, 3) :
                      Len(Executables(h)) >= 2}}

SuspiciousRename(batch) ==
    {Chain("suspicious_rename_chain", g, 75) :
        g \in Groups(batch, Files, LAMBDA e : e.frn, IsRename, 3)}

Staging(batch) ==
    LET Staged(e) == Has(e, "FILE_CREATE") /\ "user" \in Traits[e.name]
                     /\ Traits[e.name] \cap {"exe", "script"} # {}
    IN  {Chain("staging_pattern", g, 70) : g \in Groups(batch, {0}, LAMBDA e : 0, Staged, 2)}

MassModification(batch) ==
    {Chain("mass_modification", g, IF Len(g) >= 100 THEN 95 ELSE 90) :
        g \in Groups(batch, Pids \cup {NoPid}, LAMBDA e : e.pid, Modifies, MassThreshold)}

TimestampManipulation(batch) ==
    LET Changed(e) == Has(e, "BASIC_INFO_CHANGE") \/ Has(e, "SECURITY_CHANGE")
    IN  {Chain("timestamp_manipulation", g, 65) : g \in Groups(batch, Files, LAMBDA e : e.frn, Changed, 3)}

\* The six default rules, in their order.
Evaluate(batch) ==
    RapidCreateDelete(batch) \o SetToSeq(Dropper(batch)) \o SetToSeq(SuspiciousRename(batch))
    \o SetToSeq(Staging(batch)) \o SetToSeq(MassModification(batch))
    \o SetToSeq(TimestampManipulation(batch))

\* correlate: each new chain pushes the oldest out of a full store, which is left with
\* the latest.
Correlate(batch) ==
    LET all == chains \o Evaluate(batch)
    IN  chains' = SubSeq(all, Max({1, Len(all) - MaxChains + 1}), Len(all))

ChainsByType(rule) == SelectSeq(chains, LAMBDA c : c.rule = rule)
LatestChains(limit) ==
    LET sorted == SortSeq(chains, LAMBDA c, d : c.start > d.start)
    IN  IF Len(sorted) > limit THEN SubSeq(sorted, 1, limit) ELSE sorted
-----------------------------------------------------------------------------
Finding(type, severity, affected) == [type |-> type, severity |-> severity, affected |-> affected]

SeverityOrder == [Critical |-> 0, Suspicious |-> 1, Warning |-> 2, Info |-> 3]

\* analyze_journal: against the snapshot, then on its own.
JournalFindings ==
    LET Against(P(_), type, severity) ==
            IF \E prev \in snapshots : P(prev) THEN <<Finding(type, severity, "journal")>> ELSE <<>>
    IN  Against(LAMBDA prev : prev.journalId # Volume.journalId, "JournalRecreated", "Critical")
        \o Against(LAMBDA prev : Volume.next < prev.next, "JournalTruncated", "Critical")
        \o Against(LAMBDA prev : Volume.size < prev.size, "JournalMaxSizeChanged", "Warning")
        \o IF Volume.next - Volume.first < 100
           THEN <<Finding("JournalWiped", "Critical", "journal")>> ELSE <<>>

\* detect_ads_abuse, detect_reparse_point_abuse and detect_hidden_executables.
StreamFindings(batch) ==
    {Finding("AdsAbuse", "Suspicious", Head(g).frn) :
        g \in Groups(batch, Files, LAMBDA e : e.frn, LAMBDA e : Has(e, "STREAM_CHANGE") \/ Has(e, "NAMED_DATA_OVERWRITE"), 3)}

ReparseFindings(batch) ==
    Selected(batch, LAMBDA e : Has(e, "REPARSE_POINT_CHANGE"))

HiddenExecutables(batch) ==
    Selected(batch, LAMBDA e : Has(e, "FILE_CREATE") /\ {"temp", "exe"} \subseteq Traits[e.name])

\* analyze_journal_continuity: a gap between consecutive USN values.
Gaps(batch) == {i \in 2..Len(batch) : batch[i].usn - batch[i - 1].usn > 1}

ContinuityFindings(batch) ==
    LET missing == MapThenSumSet(LAMBDA i : batch[i].usn - batch[i - 1].usn - 1, Gaps(batch))
        gaps == Cardinality(Gaps(batch))
    IN  IF gaps = 0 THEN <<>>
        ELSE <<Finding("JournalContinuityBreak",
                       IF missing > 100 * gaps THEN "Critical"
                       ELSE IF missing > 10 * gaps THEN "Suspicious" ELSE "Warning", "journal")>>

\* detect_mft_slack_artifacts: what the file table holds is another component's.
SlackFindings(residual) ==
    IF residual THEN <<Finding("SlackSpaceArtifact", "Warning", "MFT")>> ELSE <<>>

\* analyze_all: everything, the most severe first; sort_by keeps the order of equals.
\* detect_timestomping finds nothing: no event is ever given mft_timestamps.
AnalyzeAll(batch, residual) ==
    LET PerEvent(s, type, severity) == [i \in DOMAIN s |-> Finding(type, severity, s[i].frn)]
        all == JournalFindings \o SetToSeq(StreamFindings(batch))
               \o PerEvent(ReparseFindings(batch), "ReparsePointAbuse", "Warning")
               \o PerEvent(HiddenExecutables(batch), "HiddenExecutable", "Suspicious")
               \o ContinuityFindings(batch) \o SlackFindings(residual)
        OfSeverity(n) == Selected(all, LAMBDA x : SeverityOrder[x.severity] = n)
    IN  OfSeverity(0) \o OfSeverity(1) \o OfSeverity(2) \o OfSeverity(3)

TakeSnapshot == snapshots' = {Volume}
=============================================================================
