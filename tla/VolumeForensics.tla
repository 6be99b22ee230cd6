-------------------------- MODULE VolumeForensics --------------------------
(***************************************************************************)
(* The examination of a volume: its change journal is read record by       *)
(* record, the transaction log is parsed for what the journal lacks, the   *)
(* file table is listed, listed again and matched with the journal, and    *)
(* the rules judge what was found (the RuleContext of                      *)
(* forensic/detection.rs).  The volume is in use meanwhile: a record of    *)
(* the file table may be rewritten between any two reads.                  *)
(***************************************************************************)
EXTENDS ForensicRules

CONSTANTS Disks, Logs,   \* what may lie on the volume
          Rewrites,      \* what a record of the table may be rewritten to
          MaxDisturbed,  \* the numbers whose record changes or cannot be read
          RecordTemplates, RecordPauses, MaxUsnRecords

ASSUME VolumeAssumption ==
    /\ \A d \in Disks : d.offset \in Nat /\ d = [offset |-> d.offset, slots |-> d.slots]
    /\ Logs \subseteq LogFiles
    /\ \A t \in RecordTemplates : t.frn \in [number : Nat, seq : Nat]

VARIABLES disk, logFile, \* the volume
          disturbed,     \* the numbers of records that were rewritten or not read
          records,       \* usn_records
          log,           \* of LogFileParser::parse; EmptyResult before
          entries,       \* mft_entries
          mftFrns,       \* of correlate_with_usn
          matched,       \* its result
          position,      \* how far the loop of the stage has come
          report,        \* of evaluate_all
          stage          \* "reading", "parsed" or "panicked", "listed", "known", "matched", "reported"

volumeVars == <<disk, logFile, disturbed, records, log, entries, mftFrns, matched, position, report, stage>>

InitVolume ==
    /\ disk \in Disks /\ logFile \in Logs /\ disturbed = {}
    /\ records = <<>> /\ log = EmptyResult /\ entries = <<>> /\ mftFrns = {} /\ matched = NoMatch
    /\ position = 0 /\ report = <<>> /\ stage = "reading"

ReadJournal(t, pause) ==
    LET now == IF records = <<>> THEN 0 ELSE Last(records).time
        e == [frn |-> t.frn, parent |-> t.parent, name |-> t.name, reason |-> t.reason, pid |-> NoPid,
              usn |-> Len(records) + 1, time |-> now + pause]
    IN  /\ stage = "reading" /\ Len(records) < MaxUsnRecords
        /\ records' = Append(records, e)
        /\ UNCHANGED <<disk, logFile, disturbed, log, entries, mftFrns, matched, position, report, stage>>

\* A panic leaves no result, and nothing follows.
ParseLogFile ==
    LET result == Parse(logFile, {records[i].usn : i \in DOMAIN records})
    IN  /\ stage = "reading"
        /\ \/ result.panicked /\ stage' = "panicked" /\ log' = log
           \/ ~result.panicked /\ stage' = "parsed" /\ log' = result
        /\ UNCHANGED <<disk, logFile, disturbed, records, entries, mftFrns, matched, position, report>>

\* read_record of number n: what lies there now, or nothing when the read fails.
Reads(n, r) ==
    \/ r = ReadRecord(disk, n) /\ disturbed' = disturbed
    \/ /\ r = None /\ ReadRecord(disk, n) # None
       /\ disturbed' = disturbed \cup {n} /\ Cardinality(disturbed') <= MaxDisturbed

\* One record in the loop of read_all, for the context.
ListNext ==
    /\ stage = "parsed" /\ position < TotalRecords(disk)
    /\ \E r \in {ReadRecord(disk, position), None} : Reads(position, r) /\ entries' = WithRecord(entries, r)
    /\ position' = position + 1
    /\ UNCHANGED <<disk, logFile, records, log, mftFrns, matched, report, stage>>

\* One record in the loop of the read_all in correlate_with_usn.
KnowNext ==
    /\ stage = "listed" /\ position < TotalRecords(disk)
    /\ \E r \in {ReadRecord(disk, position), None} : Reads(position, r) /\ mftFrns' = Know(mftFrns, r)
    /\ position' = position + 1
    /\ UNCHANGED <<disk, logFile, records, log, entries, matched, report, stage>>

\* One event in correlate_with_usn.
MatchNext ==
    /\ stage = "known" /\ position < Len(records)
    /\ LET e == records[position + 1]
       IN  \E r \in {ReadRecord(disk, e.frn.number), None} :
              Reads(e.frn.number, r) /\ matched' = MatchEvent(matched, mftFrns, e, r)
    /\ position' = position + 1
    /\ UNCHANGED <<disk, logFile, records, log, entries, mftFrns, report, stage>>

\* A loop ends.
EndLoop ==
    /\ \/ stage = "parsed" /\ position = TotalRecords(disk) /\ stage' = "listed"
       \/ stage = "listed" /\ position = TotalRecords(disk) /\ stage' = "known"
       \/ stage = "known" /\ position = Len(records) /\ stage' = "matched"
    /\ position' = 0
    /\ UNCHANGED <<disk, logFile, disturbed, records, log, entries, mftFrns, matched, report>>

\* The file system rewrites a record; before and after the loops it would go unnoticed,
\* and so would a record that nobody reads.
NumbersRead == (0..TotalRecords(disk) - 1) \cup {t.frn.number : t \in RecordTemplates}
Rewrite(n, slot) ==
    /\ stage \in {"parsed", "listed", "known"} /\ disk.offset + n + 1 \in DOMAIN disk.slots
    /\ disk' = [disk EXCEPT !.slots[disk.offset + n + 1] = slot]
    /\ disturbed' = disturbed \cup {n} /\ Cardinality(disturbed') <= MaxDisturbed
    /\ UNCHANGED <<logFile, records, log, entries, mftFrns, matched, position, report, stage>>

Context == [records |-> records, ghosts |-> log.ghosts, entries |-> entries]

Judge ==
    /\ stage = "matched"
    /\ report' = EvaluateAll(Context)
    /\ stage' = "reported"
    /\ UNCHANGED <<disk, logFile, disturbed, records, log, entries, mftFrns, matched, position>>

NextVolume ==
    \/ \E t \in RecordTemplates, pause \in RecordPauses : ReadJournal(t, pause)
    \/ ParseLogFile
    \/ ListNext
    \/ KnowNext
    \/ MatchNext
    \/ EndLoop
    \/ \E n \in NumbersRead, slot \in Rewrites : Rewrite(n, slot)
    \/ Judge
-----------------------------------------------------------------------------
\* The places where the parser comes to a record page: the scan of page i, and the
\* reference n of a restart page i.
Visits(file) ==
    {<<i, 0>> : i \in {p \in DOMAIN file.pages : file.pages[p].signature = "RCRD"}}
    \cup UNION {{<<i, n>> : n \in {k \in DOMAIN file.pages[i].refs : Refers(file, file.pages[i], k)}} :
                   i \in {p \in DOMAIN file.pages : file.pages[p].signature = "RSTR"}}
Visited(file, v) == IF v[2] = 0 THEN file.pages[v[1]] ELSE PageAt(file, file.pages[v[1]].refs[v[2]])

\* The items that are records of the log and not of the journal, as far as the parser
\* can tell: in redo data of a version it knows, or anywhere behind a stop.
Absent(page, allocated) ==
    {k \in DOMAIN page.items :
        LET x == page.items[k]
        IN  /\ x.kind # "stop" /\ x.usn \notin allocated
            /\ (x.kind = "redo" /\ x.version # 4) \/ \E j \in 1..k : page.items[j].kind = "stop"}
Finds(file, allocated) == UNION {{v} \X Absent(Visited(file, v), allocated) : v \in Visits(file)}

(* Redo data and slack, scanned pages and pages a restart page refers to: the  *)
(* ghosts are what the log's record pages hold there and the journal does not, *)
(* nothing else and nothing less.  A record is a ghost as often as its page is *)
(* come by, and the counter says how often that is.                            *)
GhostsAreWhatIsMissing ==
    stage \notin {"reading", "panicked"} =>
        LET finds == Finds(logFile, {r.usn : r \in ToSet(records)})
        IN  /\ {g.usn : g \in ToSet(log.ghosts)} = {Visited(logFile, f[1]).items[f[2]].usn : f \in finds}
            /\ Len(log.ghosts) = Cardinality(finds)
            /\ log.found = Len(log.ghosts)

(* The journal and the table are matched in two ways, by a set of references   *)
(* from one pass over the table and by reading the record anew, and the        *)
(* entries are of another pass.  Whatever happens to other records meanwhile:  *)
(* if the record of an event was read each time and not rewritten in between,  *)
(* the event is an orphan whenever the record has another sequence number, and *)
(* never when its entry was listed.                                            *)
AnomaliesAreOrphans ==
    /\ \A e \in ToSet(matched.sequenceAnomalies) :
          e.frn.number \notin disturbed => e \in ToSet(matched.orphans)
    /\ \A e \in ToSet(matched.orphans), r \in ToSet(entries) :
          r.number = e.frn.number /\ r.number \notin disturbed => r.seq # e.frn.seq
=============================================================================
