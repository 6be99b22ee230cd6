----------------------------- MODULE UsnJournal -----------------------------
(***************************************************************************)
(* forensic/usn.rs: the streaming reader of a change journal, which looks  *)
(* for records in a window of the data, and the live monitor, which reads  *)
(* what the volume's journal holds from a watermark on.                    *)
(*                                                                         *)
(* Lengths and positions count cells of 8 bytes, the step of the reader's  *)
(* search; the journals of NTFS are aligned to them.  The data is a        *)
(* sequence of items, each at its position: a record, or a gap in which no *)
(* header is valid (zeros, slack, or a record whose end is missing).       *)
(***************************************************************************)
EXTENDS Integers, Sequences, FiniteSets, SequencesExt, FiniteSetsExt

CONSTANTS MinBuffer,     \* 64 bytes: less is not searched; also the shortest record
          Overlap,       \* overlap_size, 256 bytes
          Capacity,      \* of the buffer, 65536 bytes
          OutputSize,    \* of the live monitor's buffer, 1 MiB
          Layouts,       \* what an offline reader may be opened on
          RecordLengths, \* of the records the volume writes
          MaxRecords,    \* bound: records the volume writes
          MaxGaps,       \* bound: skipped_gaps stays there
          MaxPolls       \* bound: calls of read_new_records

VARIABLES data,          \* what the reader was created on
          lo, hi,        \* buffer = cells lo + 1 .. hi of the data; position = hi
          returned,      \* items next_record has returned
          skippedGaps,
          reader,        \* "closed", "reading", "done"
          volume,        \* the records the volume wrote since the monitor opened, each at its USN
          watermark,     \* the monitor's, a record number: where its next read starts
          delivered,     \* record numbers read_new_records has handed to its caller
          polls

journalVars == <<data, lo, hi, returned, skippedGaps, reader, volume, watermark, delivered, polls>>
readerVars == <<data, lo, hi, returned, skippedGaps, reader>>
monitorVars == <<volume, watermark, delivered, polls>>

Record(n, at, len) == [kind |-> "record", number |-> n, at |-> at, len |-> len]
Gap(at, len) == [kind |-> "gap", number |-> 0, at |-> at, len |-> len]
Items == [kind : {"record", "gap"}, number : Nat, at : Nat, len : Nat]

Length(items) == IF items = <<>> THEN 0 ELSE Last(items).at + Last(items).len

\* One item behind the other, and no record too short to be searched for.
IsLayout(items) ==
    /\ items \in Seq(Items)
    /\ \A i, j \in DOMAIN items : i < j => items[i].at + items[i].len <= items[j].at
    /\ \A i \in DOMAIN items : items[i].kind = "record" => items[i].len >= MinBuffer

ASSUME UsnAssumption ==
    /\ MinBuffer \in Nat \ {0} /\ Overlap \in Nat /\ Overlap >= MinBuffer
    /\ Capacity \in Nat /\ Capacity > Overlap /\ OutputSize \in Nat \ {0}
    /\ \A items \in Layouts : IsLayout(items)
    /\ \A len \in RecordLengths : len \in Nat /\ len >= MinBuffer

InitJournal ==
    /\ data = <<>> /\ lo = 0 /\ hi = 0 /\ returned = <<>> /\ skippedGaps = 0
    /\ reader = "closed"
    /\ volume = <<>> /\ watermark = 1 /\ delivered = <<>> /\ polls = 0
-----------------------------------------------------------------------------
\* StreamingJournalReader::from_buffer: an empty buffer before the data.
Over(items) ==
    /\ data' = items /\ lo' = 0 /\ hi' = 0 /\ returned' = <<>> /\ skippedGaps' = 0
    /\ reader' = "reading"

\* open or from_buffer by an analyst, then read_all.
OpenOffline ==
    /\ reader = "closed" /\ volume = <<>>
    /\ \E items \in Layouts : Over(items)
    /\ UNCHANGED monitorVars

Buffered == hi - lo
Searching == reader = "reading" /\ ~(Buffered < MinBuffer /\ hi < Length(data)) /\ Buffered >= MinBuffer

\* fill_buffer: the last cells of the buffer stay in front of what is read.
Fill ==
    /\ reader = "reading" /\ Buffered < MinBuffer /\ hi < Length(data)
    /\ hi' = Min({hi + Capacity - Overlap, Length(data)})
    /\ lo' = Max({lo, hi - Overlap})
    /\ UNCHANGED <<data, returned, skippedGaps, reader, monitorVars>>

\* try_valid_at for every offset of the search: a record begins there and lies in the
\* buffer as a whole.  The code takes any header of a plausible length and version for a
\* record's; here nothing else in the file looks like one.
Valid(i) ==
    /\ data[i].kind = "record"
    /\ lo <= data[i].at /\ data[i].at + MinBuffer <= hi /\ data[i].at + data[i].len <= hi

Found == {i \in DOMAIN data : Valid(i)}

\* The monitor moves its watermark to each record as it gets it, not past it.
Take ==
    /\ Searching /\ Found # {}
    /\ LET i == Min(Found)
       IN  /\ returned' = Append(returned, i)
           /\ lo' = data[i].at + data[i].len
           /\ watermark' = IF polls > 0 THEN data[i].number ELSE watermark
    /\ UNCHANGED <<data, hi, skippedGaps, reader, volume, delivered, polls>>

\* Mutant: the whole buffer is dropped.
SkipGapWhole ==
    /\ Searching /\ Found = {}
    /\ lo' = hi
    /\ skippedGaps' = Min({skippedGaps + 1, MaxGaps})
    /\ UNCHANGED <<data, hi, returned, reader, monitorVars>>

\* No record: all but the last cells are dropped, and the search is repeated, over
\* the same cells when there are no more than those.
SkipGap ==
    /\ Searching /\ Found = {}
    /\ lo' = Max({lo, hi - Overlap})
    /\ skippedGaps' = Min({skippedGaps + 1, MaxGaps})
    /\ UNCHANGED <<data, hi, returned, reader, monitorVars>>

\* next_record = None; the monitor's caller gets the whole batch at once.
EndOfData ==
    /\ reader = "reading" /\ Buffered < MinBuffer /\ hi = Length(data)
    /\ reader' = "done"
    /\ delivered' = IF polls > 0
                    THEN delivered \o [k \in DOMAIN returned |-> data[returned[k]].number]
                    ELSE delivered
    /\ UNCHANGED <<data, lo, hi, returned, skippedGaps, volume, watermark, polls>>
-----------------------------------------------------------------------------
\* The volume appends a record to its journal.
WriteRecord(len) ==
    /\ reader = "closed" \/ polls > 0
    /\ Len(volume) < MaxRecords
    /\ volume' = Append(volume, Record(Len(volume) + 1, Length(volume), len))
    /\ UNCHANGED <<readerVars, watermark, delivered, polls>>

\* Mutant: the next read starts behind the watermark.
StartUsnBehind == watermark + 1

StartUsn == watermark

\* read_new_records: FSCTL_READ_USN_JOURNAL answers with a cell that holds the next
\* USN and as many whole records from the watermark on as fit.
Upto(n) ==
    <<Gap(0, 1)>> \o [k \in 1..n - StartUsn + 1 |->
                         LET r == volume[StartUsn + k - 1]
                         IN  Record(r.number, 1 + r.at - volume[StartUsn].at, r.len)]

Answer == Upto(Max({n \in StartUsn - 1..Len(volume) : Length(Upto(n)) <= OutputSize}))

ReadNewRecords ==
    /\ volume # <<>> /\ reader # "reading" /\ polls < MaxPolls
    /\ Over(Answer)
    /\ polls' = polls + 1
    /\ UNCHANGED <<volume, watermark, delivered>>

ReaderStep == Fill \/ Take \/ SkipGap \/ EndOfData

NextJournal ==
    \/ OpenOffline
    \/ ReaderStep
    \/ \E len \in RecordLengths : WriteRecord(len)
    \/ ReadNewRecords
-----------------------------------------------------------------------------
(* The window moves over gaps and over records that straddle its end: what    *)
(* has been returned is always the first records of the data, in order and    *)
(* each once, and all of them when the reader says that there are no more.    *)
NoRecordLost ==
    /\ \A k, l \in DOMAIN returned : k < l => returned[k] < returned[l]
    /\ ToSet(returned) = {i \in DOMAIN data :
                             /\ data[i].kind = "record"
                             /\ reader = "done" \/ \E k \in DOMAIN returned : i <= returned[k]}

(* The monitor's callers have got every record up to the watermark, in the    *)
(* journal's order; only the record at the watermark is delivered again.      *)
MonitorSkipsNothing ==
    /\ polls > 0 /\ reader = "done" =>
          ToSet(delivered) = IF delivered = <<>> THEN {} ELSE 1..watermark
    /\ \A k \in 2..Len(delivered) : delivered[k] - delivered[k - 1] \in {0, 1}
=============================================================================
