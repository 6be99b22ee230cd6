-------------------------- MODULE MasterFileTable --------------------------
(***************************************************************************)
(* forensic/mft.rs: reading records of the master file table and matching  *)
(* them with journal events.  A file reference is a record number with a   *)
(* sequence number.  A disk is a sequence of slots of one record's size;   *)
(* an attribute is given by what the parser gets out of it.                *)
(***************************************************************************)
EXTENDS FilesystemEvents

CONSTANT None            \* Option::None

\* A slot: the signature of its header, the header's fields and the attributes.
Slot(signature, seq, flags, attributes) ==
    [signature |-> signature, seq |-> seq, flags |-> flags, attributes |-> attributes]

\* parse_standard_info and parse_filename each leave the other's four times empty, and
\* parse_filename sets the standard ones to 0.
StandardTimes(created, modified) == [created |-> created, modified |-> modified, fnCreated |-> None]
NameTimes(created) == [created |-> 0, modified |-> 0, fnCreated |-> created]

StandardInformation(created, modified) ==
    [type |-> "standard", times |-> StandardTimes(created, modified)]
FileName(parent, name, namespace, created) ==
    [type |-> "name", parent |-> parent, name |-> name, namespace |-> namespace, times |-> NameTimes(created)]
Data(size) == [type |-> "data", size |-> size]
Unreadable == [type |-> "unreadable"]   \* the parser of its type returns None
EndMark == [type |-> "end"]             \* 0xFFFFFFFF, too short, or past the buffer

NoAttributes ==
    [attributes |-> <<>>, times |-> None, name |-> None, dosName |-> None, parent |-> None, size |-> 0]

\* A record: what its header says, and what its attributes add.
TableRecord(n, slot, a) ==
    [number |-> n, seq |-> slot.seq, inUse |-> "inUse" \in slot.flags,
     directory |-> "directory" \in slot.flags, deleted |-> "bit3" \in slot.flags,
     attributes |-> a.attributes, times |-> a.times, name |-> a.name, dosName |-> a.dosName,
     parent |-> a.parent, size |-> a.size]

\* Two times further apart than d.
Apart(t, u, d) == t - u > d \/ u - t > d

OrElse(x, default) == IF x = None THEN default ELSE x

\* parse_attribute: the standard times win over a name's, the first name and the last
\* parent are kept, a DOS name counts for neither.
ParseAttribute(record, a) ==
    LET kept == [record EXCEPT !.attributes = Append(@, a)]
    IN  CASE a.type = "standard" -> [kept EXCEPT !.times = a.times]
          [] a.type = "name" /\ a.namespace < 2 ->
                [kept EXCEPT !.name = OrElse(@, a.name), !.parent = a.parent,
                             !.times = OrElse(@, a.times)]
          [] a.type = "name" /\ a.namespace >= 2 -> [kept EXCEPT !.dosName = a.name]
          [] a.type = "data" -> [kept EXCEPT !.size = a.size]
          [] OTHER -> record

UntilEnd(attributes) ==
    LET end == SelectInSeq(attributes, LAMBDA a : a = EndMark)
    IN  IF end = 0 THEN attributes ELSE SubSeq(attributes, 1, end - 1)

\* mft_size is the offset of the table (read_mft_metadata); total_records divides it
\* by the record size, read_record adds it.  Both are counted in slots here.
TotalRecords(disk) == disk.offset

ParseRecord(n, slot) ==
    IF slot.signature # "FILE" THEN None
    ELSE TableRecord(n, slot, FoldLeft(ParseAttribute, NoAttributes, UntilEnd(slot.attributes)))
ReadRecord(disk, n) ==
    LET place == disk.offset + n + 1
    IN  IF place \in DOMAIN disk.slots THEN ParseRecord(n, disk.slots[place]) ELSE None

\* Mutant: only records in use are known.
KnowInUse(known, r) ==
    IF r = None \/ ~r.inUse THEN known ELSE known \cup {[number |-> r.number, seq |-> r.seq]}

\* mft_frns: the references of the records that read_all returns.
Know(known, r) == IF r = None THEN known ELSE known \cup {[number |-> r.number, seq |-> r.seq]}

WithRecord(list, r) == IF r = None THEN list ELSE Append(list, r)

NoMatch == [orphans |-> <<>>, sequenceAnomalies |-> <<>>, timestampAnomalies |-> <<>>, deleted |-> <<>>]

\* One event in correlate_with_usn, r is what read_record returned for its number;
\* matched and orphan_mft_records are never filled.
MatchEvent(result, known, e, r) ==
    LET If(condition, list) == IF condition THEN Append(list, e) ELSE list
    IN  [orphans |-> If(e.frn \notin known, result.orphans),
         sequenceAnomalies |-> If(r # None /\ r.seq # e.frn.seq, result.sequenceAnomalies),
         timestampAnomalies |-> If(r # None /\ r.times # None /\ Apart(e.time, r.times.modified, 1), result.timestampAnomalies),
         deleted |-> If(r # None /\ r.deleted, result.deleted)]
=============================================================================
