---------------------------- MODULE ForensicRules ----------------------------
(***************************************************************************)
(* forensic/detection.rs: ten rules over the journal records that are      *)
(* left, the ghosts of the transaction log and the entries of the master   *)
(* file table, and the rule set that sorts what they detect.               *)
(***************************************************************************)
EXTENDS MasterFileTable, LogFile

CONSTANT Threshold       \* of the ransomware rule: [records, renames, writes, mass]

Confidence == [critical |-> 90, high |-> 75, medium |-> 50, low |-> 25]
IsDetected(level) == Confidence[level] > 30

Result(rule, level, about) == [rule |-> rule, level |-> level, about |-> about]
When(condition, results) == IF condition THEN results ELSE <<>>
PerRecord(records, P(_), rule, level) ==
    LET hits == SelectSeq(records, P) IN [i \in DOMAIN hits |-> Result(rule, level, hits[i].frn.number)]
Times(s) == {s[i].time : i \in DOMAIN s}
Count(s, P(_)) == Len(SelectSeq(s, P))
HasAny(e, reasons) == e.reason \cap reasons # {}
Is(e, trait) == trait \in Traits[e.name]

\* One result per group of records that share a key.
PerGroup(records, Key(_), P(_), Results(_, _)) ==
    LET keys == {Key(records[i]) : i \in {j \in DOMAIN records : P(records[j])}}
        Group(k) == SelectSeq(records, LAMBDA e : P(e) /\ Key(e) = k)
    IN  FoldLeft(LAMBDA s, k : s \o Results(k, Group(k)), <<>>, SetToSeq(keys))

JournalClear(ctx) ==
    LET ghosts == Len(ctx.ghosts)
        allocated == Len(ctx.records)
    IN  IF ghosts = 0 THEN <<>>
        ELSE (IF ghosts > allocated THEN <<Result("clear", "high", None)>>
              ELSE When(10 * ghosts > allocated, <<Result("clear", "medium", None)>>))
             \o When(allocated > 0 /\ Min(Times(ctx.ghosts)) < Min(Times(ctx.records)),
                   <<Result("clear", "high", None)>>)

\* The first $FILE_NAME attribute gives the time to compare with: its si_created, which
\* parse_filename has set to 0.
Timestomp(ctx) ==
    LET FileNames(m) == SelectSeq(m.attributes, LAMBDA a : a.type = "name")
        Own(m) == SelectSeq(ctx.records, LAMBDA r : r.frn.number = m.number)
        Mismatch(m) ==
            FileNames(m) # <<>> /\ Apart(m.times.created, Head(FileNames(m)).times.created, 2)
        Late(m) == Own(m) # <<>> /\ m.times.created - Min(Times(Own(m))) > 5
        Check(s, m) ==
            IF m.times = None THEN s
            ELSE s \o When(Mismatch(m), <<Result("timestomp", "medium", m.number)>>)
                   \o When(Late(m), <<Result("timestomp", "high", m.number)>>)
    IN  FoldLeft(Check, <<>>, ctx.entries)

SecureDelete(ctx) ==
    LET Results(k, g) ==
            When(Count(g, LAMBDA e : Is(e, "repeated")) >= 2, <<Result("delete", "high", k)>>)
            \o When(2 * Count(g, LAMBDA e : Is(e, "tmp")) > Len(g) /\ Len(g) >= 5,
                  <<Result("delete", "medium", k)>>)
    IN  PerGroup(ctx.records, LAMBDA e : e.frn.number,
                 LAMBDA e : HasAny(e, {"FILE_DELETE", "RENAME_OLD_NAME", "RENAME_NEW_NAME"}), Results)

Ransomware(ctx) ==
    LET Renamed(g) == Count(g, LAMBDA e : Has(e, "RENAME_NEW_NAME"))
        Enough(g) == /\ Len(g) >= Threshold.records /\ Renamed(g) >= Threshold.renames
                     /\ Count(g, Modifies) >= Threshold.writes
        Results(k, g) ==
            IF ~Enough(g) THEN <<>>
            ELSE IF \E i \in DOMAIN g : Is(g[i], "ransom") THEN <<Result("ransomware", "critical", k)>>
            ELSE When(Last(g).time - Head(g).time < 60 /\ Renamed(g) > Threshold.mass,
                    <<Result("ransomware", "high", k)>>)
    IN  PerGroup(ctx.records, LAMBDA e : e.parent,
                 LAMBDA e : Modifies(e) \/ Has(e, "RENAME_NEW_NAME"), Results)

DropperStaging(ctx) ==
    LET Results(k, g) == When(/\ \E i \in DOMAIN g : Is(g[i], "user")
                            /\ \E i \in DOMAIN g : Is(g[i], "system"), <<Result("staging", "high", k)>>)
    IN  PerGroup(ctx.records, LAMBDA e : e.parent, LAMBDA e : Has(e, "FILE_CREATE"), Results)

TransactedFile(ctx) ==
    LET Some(n, r) == \E i \in DOMAIN ctx.records : ctx.records[i].frn.number = n /\ Has(ctx.records[i], r)
    IN  PerRecord(ctx.records,
                  LAMBDA e : /\ Has(e, "TRANSACTED_CHANGE")
                             /\ Some(e.frn.number, "FILE_CREATE") /\ Some(e.frn.number, "FILE_DELETE"),
                  "transacted", "critical")

AdsAbuse(ctx) ==
    PerRecord(ctx.records,
              LAMBDA e : HasAny(e, {"NAMED_DATA_OVERWRITE", "NAMED_DATA_EXTEND", "NAMED_DATA_TRUNCATION"}),
              "ads", "medium")
ReparsePoint(ctx) == PerRecord(ctx.records, LAMBDA e : Has(e, "REPARSE_POINT_CHANGE"), "reparse", "medium")

\* Times before the year 2000 are not modelled.
FileTimestampAnomaly(ctx) ==
    PerRecord(ctx.records, LAMBDA e : e.time > LogNow + 3600, "future", "high")

PersistenceDll(ctx) ==
    LET Created(e) == Has(e, "FILE_CREATE") /\ Is(e, "dll")
    IN  PerRecord(ctx.records, LAMBDA e : Created(e) /\ Is(e, "startup"), "persistence", "high")
        \o PerRecord(ctx.records, LAMBDA e : Created(e) /\ Is(e, "system") /\ Is(e, "temp"),
                     "persistence", "high")

\* evaluate_all: what counts as detected, by descending score, that is by level: the
\* weight, confidence and bypass risk of a result are fixed by it.
EvaluateAll(ctx) ==
    LET all == JournalClear(ctx) \o Timestomp(ctx) \o SecureDelete(ctx) \o Ransomware(ctx)
               \o DropperStaging(ctx) \o AdsAbuse(ctx) \o TransactedFile(ctx) \o ReparsePoint(ctx)
               \o FileTimestampAnomaly(ctx) \o PersistenceDll(ctx)
        detected == SelectSeq(all, LAMBDA r : IsDetected(r.level))
        Of(level) == SelectSeq(detected, LAMBDA r : r.level = level)
    IN  Of("critical") \o Of("high") \o Of("medium") \o Of("low")
=============================================================================
