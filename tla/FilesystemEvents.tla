-------------------------- MODULE FilesystemEvents --------------------------
(***************************************************************************)
(* The filesystem event that all forensic engines exchange                 *)
(* (forensic/mod.rs) and the reason flags of the change journal            *)
(* (forensic/usn.rs).  A name stands for a whole file name; Traits says    *)
(* what the engines ask of its text.                                       *)
(***************************************************************************)
EXTENDS Selections, SequencesExt, FiniteSetsExt

CONSTANTS Files,        \* file references
          Directories,  \* parent references
          Names,        \* file names
          Traits,       \* name -> what its text shows: "exe", "script", "user", "temp", ...
          Pids,         \* processes an event may be attributed to
          NoPid,        \* process_pid = None
          TicksPerSecond  \* 10_000_000: a time is a count of 100 ns

ASSUME TraitsAssumption == DOMAIN Traits = Names
ASSUME TicksAssumption == TicksPerSecond \in Nat \ {0}

\* UsnReason::from_bits_truncate: the flags any engine looks at.
Reasons == {"FILE_CREATE", "FILE_DELETE", "RENAME_OLD_NAME", "RENAME_NEW_NAME", "DATA_OVERWRITE",
            "DATA_EXTEND", "NAMED_DATA_OVERWRITE", "STREAM_CHANGE", "BASIC_INFO_CHANGE",
            "SECURITY_CHANGE", "REPARSE_POINT_CHANGE", "TRANSACTED_CHANGE",
            "DIRECTORY_RENAME_OLD", "DIRECTORY_RENAME_NEW"}

Has(e, r) == r \in e.reason
Modifies(e) == e.reason \cap {"DATA_OVERWRITE", "DATA_EXTEND"} # {}
Renames(e) == e.reason \cap {"RENAME_OLD_NAME", "RENAME_NEW_NAME"} # {}
IsRename(e) == Renames(e) \/ e.reason \cap {"DIRECTORY_RENAME_OLD", "DIRECTORY_RENAME_NEW"} # {}

\* Whole seconds: the division drops the rest, towards zero.
Seconds(ticks) ==
    IF ticks >= 0 THEN ticks \div TicksPerSecond ELSE -((-ticks) \div TicksPerSecond)
=============================================================================
