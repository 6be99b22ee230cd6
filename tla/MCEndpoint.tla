----------------------------- MODULE MCEndpoint -----------------------------
(* Small instances of every part for TLC. *)
EXTENDS Endpoint

CONSTANTS f1, f2, d1, drop, tool, p1

MCTraits == drop :> {"exe", "user", "temp"} @@ tool :> {"script", "user"}

Says(frn, name, reason, pid) ==
    [frn |-> frn, parent |-> d1, name |-> name, reason |-> reason, pid |-> pid]

\* A dropper that cleans up after itself, a rename in two records, a tampered file.
MCTemplates ==
    {Says(f1, drop, {"FILE_CREATE"}, p1),
     Says(f1, drop, {"FILE_DELETE"}, NoPid),
     Says(f1, tool, {"FILE_CREATE", "FILE_DELETE"}, p1),
     Says(f1, drop, {"RENAME_OLD_NAME"}, NoPid),
     Says(f1, tool, {"RENAME_NEW_NAME"}, NoPid),
     Says(f2, tool, {"FILE_CREATE", "DATA_EXTEND"}, p1),
     Says(f2, drop, {"FILE_DELETE", "RENAME_OLD_NAME"}, p1),
     Says(f2, tool, {"DATA_OVERWRITE", "BASIC_INFO_CHANGE", "STREAM_CHANGE", "REPARSE_POINT_CHANGE"}, p1)}

\* usn.rs:276-293: the reader's volume is never filled in.
MCVolume == [journalId |-> 0, first |-> 0, next |-> 0, size |-> 0]

\* Every sequence of up to four of these items, numbered by position.
MCItems == {Record(0, 0, 2), Record(0, 0, 3), Record(0, 0, 6), Gap(0, 1), Gap(0, 5)}
Placed(items, item) == Append(items, [item EXCEPT !.number = Len(items) + 1, !.at = Length(items)])
MCLayouts == {FoldLeft(Placed, <<>>, items) : items \in UNION {[1..n -> MCItems] : n \in 0..4}}

\* Two records: of a file with all its names, in two orders, and of a deleted one; a
\* table that starts before as many records as it has, and one that a name goes to.
Names3 == <<FileName(d1, drop, 2, 3), FileName(d1, drop, 1, 3), FileName(d1, tool, 0, 9)>>
Created == StandardInformation(9, 1)
Live(seq, attributes) == Slot("FILE", seq, {"inUse"}, attributes)
Removed == Slot("FILE", 2, {"bit3"}, <<Data(1), Unreadable>>)
Boot == Slot("boot", 0, {}, <<>>)
MCDisks ==
    {[offset |-> 2, slots |-> <<Boot, Boot, Live(1, <<Created>> \o Names3), Removed>>],
     [offset |-> 1, slots |-> <<Boot, Live(1, <<Created, FileName(d1, drop, 0, 9)>>), Live(1, Names3)>>],
     [offset |-> 2, slots |-> <<Boot, Boot, Removed,
                                Live(1, Names3 \o <<Data(0), Created, EndMark, FileName(d1, tool, 0, 0)>>)>>]}
MCRewrites == {Live(2, <<Created>>), Removed, Slot("BAAD", 1, {}, <<>>)}

\* Restart pages name record pages before and after them, a page twice, nothing, and a
\* place inside a page.
InLog(kind, usn, version) ==
    [kind |-> kind, usn |-> usn, time |-> 0, version |-> version, overhangs |-> FALSE]
Overhanging(kind, usn) == [InLog(kind, usn, 2) EXCEPT !.overhangs = TRUE]
MCLogs ==
    {[pages |-> <<RestartPage(<<1, 2, 9, 1, 0, 1>>),
                  RecordPage(<<InLog("redo", 1, 3), InLog("other", 3, 2), InLog("redo", 2, 2), InLog("redo", 4, 4)>>),
                  RecordPage(<<InLog("bare", 5, 2), Stop, InLog("redo", 2, 3), Stop, InLog("bare", 4, 4)>>)>>,
      inner |-> <<>>],
     [pages |-> <<OtherPage, RecordPage(<<InLog("redo", 2, 2), InLog("bare", 1, 2)>>), RestartPage(<<3, 9>>)>>,
      inner |-> <<RecordPage(<<Stop, InLog("bare", 3, 2)>>)>>],
     [pages |-> <<RecordPage(<<Overhanging("bare", 3), Overhanging("redo", 1), Stop, Overhanging("other", 2)>>)>>,
      inner |-> <<>>]}

Reports(number, seq, reason) ==
    [frn |-> [number |-> number, seq |-> seq], parent |-> d1, name |-> drop, reason |-> reason]
MCRecordTemplates ==
    {Reports(0, 1, {"FILE_CREATE", "RENAME_NEW_NAME", "DATA_EXTEND"}), Reports(1, 1, {"FILE_DELETE"}),
     Reports(1, 2, {"NAMED_DATA_OVERWRITE", "REPARSE_POINT_CHANGE", "TRANSACTED_CHANGE"}),
     Reports(5, 1, {"DATA_OVERWRITE", "RENAME_NEW_NAME"})}

MCThreshold == [records |-> 2, renames |-> 1, writes |-> 1, mass |-> 0]
-----------------------------------------------------------------------------
CONSTANTS word, pwsh, lib, site

MCFlow == {Event("SuspiciousActivity", 1, 0, site, "high"), Event("FileChanged", 1, 0, lib, "")}

\* One of every kind that makes an edge or a node of its own.
MCGraphSamples ==
    {Event("ProcessCreated", 2, 1, pwsh, ""), Event("ProcessTerminated", 2, 0, pwsh, ""),
     Event("ImageLoaded", 1, 0, lib, ""), Event("ThreadCreated", 1, 0, site, ""),
     Event("FileChanged", 2, 0, lib, ""), Event("RegistryModified", 1, 0, site, ""),
     Event("MemoryChanged", 2, 0, site, ""), Event("SuspiciousActivity", 1, 0, site, "high")}

\* A document that starts a shell, a foreign library, a server on a known bad port.
MCCorrSamples ==
    {Event("ProcessCreated", 1, 0, word, ""), Event("ProcessCreated", 2, 1, pwsh, ""),
     Event("ProcessCreated", 3, 1, pwsh, ""), Event("ImageLoaded", 1, 0, lib, "anomalies"),
     Event("FileChanged", 2, 0, lib, ""), Event("NetworkConnection", 1, 0, site, "")}
MCCorrTraits == word :> {"office", "host"} @@ pwsh :> {"shell", "lolbin"}
                @@ lib :> {"temp", "program"} @@ site :> {"web", "port"}
MCStem == word :> "word" @@ pwsh :> "pwsh" @@ lib :> "pwsh"

Categories == {Category(e) : e \in MCGraphSamples}
MCListeners ==
    {[filter |-> [pid |-> NoFilter, categories |-> Categories, minSeverity |-> Level.informational],
      policy |-> "DropOldest", chunk |-> 2, late |-> TRUE],
     [filter |-> [pid |-> 1, categories |-> Categories, minSeverity |-> Level.informational],
      policy |-> "Block", chunk |-> 2, late |-> FALSE]}
MCRouterSamples ==
    {Event("SuspiciousActivity", 1, 0, site, "high"), Event("FileChanged", 2, 0, lib, "")}

\* What the actor's database failed to keep: events, and links from one to the next.
Lost == (received - Len(stored))
        + Cardinality({m \in DOMAIN stored :
              /\ \E n \in DOMAIN stored : Consecutive(n, m)
              /\ \A x \in links : x.relation = "temporal" => x.dst # m})

\* The scenarios that are combined: a session is opened before anything happens, an
\* investigation without a streamer beside it, one loss or one pause or one restart, and
\* the subscribers of the router come within one envelope of each other.
Scenario ==
    /\ opened > 0 => flow = <<>>
    /\ "streamer" \in subscribed => investigations = {}
    /\ corrNow \in {0} \cup CorrPauses
    /\ Lost <= 1 /\ (Lost = 1 \/ life = 2 => corrNow = 0)
    /\ Len(listeners) < Cardinality(Listeners) => Len(produced) <= 1
=============================================================================
