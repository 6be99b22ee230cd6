------------------------------ MODULE LogFile ------------------------------
(***************************************************************************)
(* forensic/logfile.rs: journal records that the transaction log still     *)
(* holds and the change journal does not, the ghosts.  A page is given by  *)
(* its signature, the pages a restart page refers to, and what the walk    *)
(* meets after the header of a record page, in order.  Zeros hold nothing  *)
(* and are walked over two bytes at a time: they are left out.             *)
(***************************************************************************)
EXTENDS Selections

CONSTANT LogNow          \* Utc::now() while the log is parsed

\* A journal record on a record page: in a log record of type 0x0E ("redo"), in a log
\* record of another type, or bare, in space no log record takes.  The walk takes its
\* length for a log record's, of type 0, so it goes over a bare record as well.  A name
\* overhangs when it ends past the data the record is read from, though it is no longer
\* than that data: the bound that is checked leaves the record's own position out.
InLogFile == [kind : {"redo", "other", "bare"}, usn : Nat, time : Int, version : 2..4, overhangs : BOOLEAN]

\* A length below 8 or past the end of the page: the walk ends, the slack begins.
Stop == [kind |-> "stop"]

LogPages ==
    [signature : {"RSTR", "RCRD", "other"}, refs : Seq(Nat), items : Seq(InLogFile \cup {Stop})]

\* The file: its pages, and what is at other offsets a restart page may name.
LogFiles == [pages : Seq(LogPages), inner : Seq(LogPages)]

RestartPage(refs) == [signature |-> "RSTR", refs |-> refs, items |-> <<>>]
RecordPage(items) == [signature |-> "RCRD", refs |-> <<>>, items |-> items]
OtherPage == [signature |-> "other", refs |-> <<>>, items |-> <<>>]

EmptyResult == [ghosts |-> <<>>, found |-> 0, extracted |-> 0, panicked |-> FALSE]

Ghost(usn, time, source) == [usn |-> usn, time |-> time, source |-> source]

\* The items before the first stop, and the records after it.
Walked(page) == {k \in DOMAIN page.items : \A j \in 1..k : page.items[j] # Stop}
InSlack(page) == {k \in DOMAIN page.items \ Walked(page) : page.items[k] # Stop}

\* extract_usn_from_redo knows versions 2 and 3 only.
InRedo(page) == {k \in Walked(page) : page.items[k].kind = "redo" /\ page.items[k].version <= 3}

Missing(page, at, allocated) == {k \in at : page.items[k].usn \notin allocated}

\* Mutant: slack is not compared with the journal.
SlackAll(page, allocated) ==
    LET at == InOrder(InSlack(page))
    IN  [i \in DOMAIN at |-> Ghost(page.items[at[i]].usn, LogNow, "slack")]

\* The records that the change journal no longer holds, as ghosts.  Redo data carries
\* the time, of slack none is taken.
Redo(page, allocated) ==
    LET at == InOrder(Missing(page, InRedo(page), allocated))
    IN  [i \in DOMAIN at |-> Ghost(page.items[at[i]].usn, page.items[at[i]].time, "redo")]
Slack(page, allocated) ==
    LET at == InOrder(Missing(page, InSlack(page), allocated))
    IN  [i \in DOMAIN at |-> Ghost(page.items[at[i]].usn, LogNow, "slack")]

\* The name of an overhanging ghost is taken from outside the data.
Overruns(page, allocated) ==
    \E k \in Missing(page, InRedo(page) \cup InSlack(page), allocated) : page.items[k].overhangs

\* process_rcrd_page: the walk with extract_usn_from_redo, then extract_usn_from_slack.
ProcessRcrdPage(result, page, allocated) ==
    LET new == Redo(page, allocated) \o Slack(page, allocated)
    IN  [ghosts |-> result.ghosts \o new, found |-> result.found + Len(new),
         extracted |-> result.extracted + Cardinality(InRedo(page)),
         panicked |-> result.panicked \/ Overruns(page, allocated)]

\* The page at an offset, counted from 0; an offset of 0 ends the list.
PageAt(file, offset) == (file.pages \o file.inner)[offset + 1]
Refers(file, page, n) ==
    /\ \A k \in 1..n : page.refs[k] # 0
    /\ page.refs[n] + 1 \in 1..Len(file.pages) + Len(file.inner)
    /\ PageAt(file, page.refs[n]).signature = "RCRD"

\* process_rstr_page: the pages it names are processed here, and again by the scan.
ProcessRstrPage(result, file, page, allocated) ==
    LET after[n \in 0..Len(page.refs)] ==
            CASE n = 0 -> result
              [] n > 0 /\ Refers(file, page, n) ->
                    ProcessRcrdPage(after[n - 1], PageAt(file, page.refs[n]), allocated)
              [] OTHER -> after[n - 1]
    IN  after[Len(page.refs)]

ScanPage(result, file, page, allocated) ==
    CASE page.signature = "RSTR" -> ProcessRstrPage(result, file, page, allocated)
      [] page.signature = "RCRD" -> ProcessRcrdPage(result, page, allocated)
      [] OTHER -> result

Parse(file, allocated) ==
    LET after[n \in 0..Len(file.pages)] ==
            IF n = 0 THEN EmptyResult ELSE ScanPage(after[n - 1], file, file.pages[n], allocated)
    IN  after[Len(file.pages)]
=============================================================================
