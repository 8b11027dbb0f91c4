---------------------------- MODULE SpoolCalls -----------------------------
(***************************************************************************)
(* What the spool cell and the pre-commit spool have in common: calls that *)
(* want a submission in the WAL, under the limits of a SpoolConfig.        *)
(***************************************************************************)
EXTENDS SpoolStorage

CONSTANTS
    Call, NoCall,       \* one element for each call
    IdOf, BodyOf,       \* the identity and the records of each call
    MaxWalBytes, MaxFrames, MaxFrameBytes       \* SpoolConfig

ASSUME ConfigAssumption ==
    /\ NoCall \notin Call
    /\ IdOf \in [Call -> Identity]
    /\ BodyOf \in [Call -> Body]
    /\ MaxWalBytes \in Nat \ {0} /\ MaxFrames \in Nat \ {0}
    /\ MaxFrameBytes \in Nat \ {0}

VARIABLES
    wal,                \* the FileSpoolStorage
    opens,              \* how often the directory was opened
    call,               \* where each call is, or what its caller was told
    known,              \* the identities this process knows
    remote              \* external: the identities that are committed in Canon
=============================================================================
