---------------------------- MODULE TraceConsumer ----------------------------
(***************************************************************************)
(* telemetry/etw.rs: the callback of the kernel trace keeps the process    *)
(* table and emits an event for each record; signatures of loaded images   *)
(* are verified by a worker behind it, which emits the load once more with *)
(* the verdict.  A verdict is kept for 300 seconds.                        *)
(***************************************************************************)
EXTENDS Naturals, FiniteSets, Sequences, SequencesExt

CONSTANTS TracePids, TraceImages,
          MaxTrace,          \* records the kernel logs
          Unnamed            \* the name of a process the table does not know

\* No image is 0, which stands for none.
ASSUME TraceAssumption == 0 \notin TraceImages

VARIABLES alive,             \* of the kernel: the running processes
          trace,             \* its records, not yet delivered
          recorded,          \* how many it logged
          table,             \* ProcessTable: pid -> number of the creation, and is_alive
          loading,           \* the rest of handle_image_load: the load, after the submission
          verdicts,          \* VERIFY_CACHE: images with a verdict, stale ones as FALSE
          jobs,              \* the worker's channel
          verifying,         \* the worker's job and how far it is
          emitted            \* what both emitted on the bus

traceVars == <<alive, trace, recorded, table, loading, verdicts, jobs, verifying, emitted>>

NoJob == [pid |-> 0, image |-> 0, known |-> FALSE]
NoLoad == [pid |-> 0, image |-> 0, skipped |-> FALSE]

\* Some processes are older than the trace.
InitTrace ==
    /\ alive \in SUBSET TracePids
    /\ trace = <<>> /\ recorded = 0 /\ table = <<>> /\ loading = NoLoad
    /\ verdicts = <<>> /\ jobs = <<>> /\ verifying = NoJob /\ emitted = <<>>

\* The kernel, outside the program: it creates, ends and maps what may be.
LogRecord(kind, pid, image) ==
    /\ recorded < MaxTrace
    /\ (kind = "create") <=> (pid \notin alive)
    /\ alive' = IF kind = "create" THEN alive \cup {pid} ELSE IF kind = "end" THEN alive \ {pid} ELSE alive
    /\ recorded' = recorded + 1
    /\ trace' = Append(trace, [kind |-> kind, pid |-> pid, image |-> image, number |-> recorded'])
    /\ UNCHANGED <<table, loading, verdicts, jobs, verifying, emitted>>

KernelLogs ==
    \E pid \in TracePids :
        \/ \E kind \in {"create", "end", "thread"} : LogRecord(kind, pid, 0)
        \/ \E image \in TraceImages : LogRecord("load", pid, image)

Report(kind, pid, x) == Append(emitted, [kind |-> kind, pid |-> pid, x |-> x])
Name(pid) == IF pid \in DOMAIN table THEN table[pid].name ELSE Unnamed
NextRecord(kind) == loading = NoLoad /\ trace # <<>> /\ Head(trace).kind = kind /\ trace' = Tail(trace)

\* handle_process_create: the image a name stands for is the number of the record.
HandleCreate ==
    LET r == Head(trace)
    IN  /\ NextRecord("create")
        /\ table' = [pid \in DOMAIN table \cup {r.pid} |->
                        IF pid = r.pid THEN [name |-> r.number, isAlive |-> TRUE] ELSE table[pid]]
        /\ emitted' = Report("created", r.pid, r.number)
        /\ UNCHANGED <<alive, recorded, loading, verdicts, jobs, verifying>>

\* handle_process_end: the entry stays.
HandleEnd ==
    LET pid == Head(trace).pid
    IN  /\ NextRecord("end")
        /\ table' = IF pid \in DOMAIN table THEN [table EXCEPT ![pid].isAlive = FALSE] ELSE table
        /\ emitted' = Report("terminated", pid, 0)
        /\ UNCHANGED <<alive, recorded, loading, verdicts, jobs, verifying>>

HandleThread ==
    /\ NextRecord("thread")
    /\ emitted' = Report("thread", Head(trace).pid, 0)
    /\ UNCHANGED <<alive, recorded, table, loading, verdicts, jobs, verifying>>

\* A record too short for its kind, or whose name does not fit.
TooShort ==
    /\ \E kind \in {"create", "thread", "load"} : NextRecord(kind)
    /\ UNCHANGED <<alive, recorded, table, loading, verdicts, jobs, verifying, emitted>>

Fresh(image) == image \in DOMAIN verdicts /\ verdicts[image]

\* submit_trust_verification, first of all.
HandleLoad ==
    LET r == Head(trace)
    IN  /\ NextRecord("load")
        /\ jobs' = IF Fresh(r.image) THEN jobs ELSE Append(jobs, [pid |-> r.pid, image |-> r.image])
        /\ loading' = [pid |-> r.pid, image |-> r.image, skipped |-> Fresh(r.image)]
        /\ UNCHANGED <<alive, recorded, table, verdicts, verifying, emitted>>

\* ... and then the event without a verdict; x.skipped is history.
EmitLoad ==
    /\ loading # NoLoad
    /\ emitted' = Report("load", loading.pid,
                         [image |-> loading.image, name |-> Name(loading.pid), skipped |-> loading.skipped])
    /\ loading' = NoLoad
    /\ UNCHANGED <<alive, trace, recorded, table, verdicts, jobs, verifying>>

\* Mutant: a job is not worth an event when there is a verdict.
TakeJobOnce ==
    /\ verifying = NoJob /\ jobs # <<>>
    /\ jobs' = Tail(jobs)
    /\ verifying' = IF Fresh(Head(jobs).image) THEN NoJob
                    ELSE [pid |-> Head(jobs).pid, image |-> Head(jobs).image, known |-> FALSE]
    /\ UNCHANGED <<alive, trace, recorded, table, loading, verdicts, emitted>>

\* The worker looks into the cache again.
TakeJob ==
    /\ verifying = NoJob /\ jobs # <<>>
    /\ jobs' = Tail(jobs)
    /\ verifying' = [pid |-> Head(jobs).pid, image |-> Head(jobs).image, known |-> Fresh(Head(jobs).image)]
    /\ UNCHANGED <<alive, trace, recorded, table, loading, verdicts, emitted>>

\* verify_authenticode runs without the lock; its verdict is inserted.
Verify ==
    /\ verifying # NoJob /\ ~verifying.known
    /\ verdicts' = [image \in DOMAIN verdicts \cup {verifying.image} |->
                       IF image = verifying.image THEN TRUE ELSE verdicts[image]]
    /\ verifying' = [verifying EXCEPT !.known = TRUE]
    /\ UNCHANGED <<alive, trace, recorded, table, loading, jobs, emitted>>

EmitVerdict ==
    /\ verifying # NoJob /\ verifying.known
    /\ emitted' = Report("verdict", verifying.pid, verifying.image)
    /\ verifying' = NoJob
    /\ UNCHANGED <<alive, trace, recorded, table, loading, verdicts, jobs>>

\* 300 seconds pass for an image.
Stale(image) ==
    /\ Fresh(image)
    /\ verdicts' = [verdicts EXCEPT ![image] = FALSE]
    /\ UNCHANGED <<alive, trace, recorded, table, loading, jobs, verifying, emitted>>

NextTrace ==
    \/ KernelLogs
    \/ HandleCreate \/ HandleEnd \/ HandleThread \/ HandleLoad \/ EmitLoad \/ TooShort
    \/ TakeJob \/ Verify \/ EmitVerdict
    \/ \E image \in TraceImages : Stale(image)
-----------------------------------------------------------------------------
\* What is emitted, or to be, of the loads of an image by a process and of their verdicts.
LoadsOf(pid, image) ==
    {i \in DOMAIN emitted : /\ emitted[i].kind = "load" /\ emitted[i].pid = pid
                            /\ emitted[i].x.image = image /\ ~emitted[i].x.skipped}
VerdictsOf(pid, image) ==
    {i \in DOMAIN emitted : emitted[i].kind = "verdict" /\ emitted[i].pid = pid /\ emitted[i].x = image}
JobsOf(pid, image) == {i \in DOMAIN jobs : jobs[i].pid = pid /\ jobs[i].image = image}

IsLoading(pid, image) == loading.pid = pid /\ loading.image = image /\ ~loading.skipped
IsVerifying(pid, image) == verifying.pid = pid /\ verifying.image = image
OneIf(condition) == IF condition THEN 1 ELSE 0

\* Somebody's verdict on the image is on the bus or about to be.
HasVerdict(image) == verifying.image = image \/ \E pid \in TracePids : VerdictsOf(pid, image) # {}

(* A load is verified on its own account unless its image had a verdict: what  *)
(* was emitted without one and not skipped is emitted with one, is being       *)
(* verified or waits for it, whichever of the two events comes first; and of a *)
(* skipped load some other process's verdict is on the bus or about to be.     *)
LoadsAreVerified ==
    \A image \in TraceImages :
        /\ \A pid \in TracePids :
              Cardinality(LoadsOf(pid, image)) + OneIf(IsLoading(pid, image))
              = Cardinality(VerdictsOf(pid, image)) + OneIf(IsVerifying(pid, image))
                + Cardinality(JobsOf(pid, image))
        /\ \A i \in DOMAIN emitted :
              emitted[i].kind = "load" /\ emitted[i].x.image = image /\ emitted[i].x.skipped
                  => HasVerdict(image)
=============================================================================
