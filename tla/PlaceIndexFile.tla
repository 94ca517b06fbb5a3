--------------------------- MODULE PlaceIndexFile ---------------------------
(***************************************************************************)
(* The file of the place index on the host of the process runners, which   *)
(* every runner installs when it starts (ensure_local_index and            *)
(* prepare_place_index of app/infra/place_index.py, main of                *)
(* app/jobs/runner.py).                                                    *)
(*                                                                         *)
(* A stamp beside the file says which hash a file of this size and time    *)
(* has, so that a large file is not read again.  Runners of one host may   *)
(* be configured for different versions while a new one is deployed.       *)
(* Sizes and times of different files may coincide.                        *)
(***************************************************************************)
EXTENDS Naturals

CONSTANTS
    HostRunners,
    Wanted,        \* PLACE_INDEX_SHA256 of each runner
    Contents,      \* what a download may bring, other than a version that is
                   \* wanted too; all of one size
    Times,         \* st_mtime_ns
    NoFile, NoStamp, EmptyStamp, NoRunner

Files == [content : Contents, time : Times]
Stamps == [sha : Contents, time : Times]

ASSUME IndexAssumption ==
    /\ Wanted \in [HostRunners -> Contents]
    /\ NoFile \notin Files
    /\ NoStamp \notin Stamps /\ EmptyStamp \notin Stamps
    /\ NoRunner \notin HostRunners

VARIABLES
    file,          \* the index: its content and time
    partial,       \* the download beside it
    stamp,
    holder,        \* of the lock file
    prep           \* how far each runner has come

indexVars == <<file, partial, stamp, holder, prep>>

StampOf(r, f) == [sha |-> Wanted[r], time |-> f.time]

At(r, pc) == prep[r] = pc
Goes(r, pc) == prep' = [prep EXCEPT ![r] = pc]

TakeLock(r) ==
    /\ At(r, "start") /\ holder = NoRunner
    /\ holder' = r
    /\ Goes(r, "check")
    /\ UNCHANGED <<file, partial, stamp>>

StampHolds(r) == file # NoFile /\ stamp = StampOf(r, file)

TrustStamp(r) ==
    /\ At(r, "check") /\ StampHolds(r)
    /\ Goes(r, "trusted")
    /\ UNCHANGED <<file, partial, stamp, holder>>

Download(r) ==
    /\ At(r, "check") /\ ~StampHolds(r)
    /\ partial' \in Files
    /\ Goes(r, "downloaded")
    /\ UNCHANGED <<file, stamp, holder>>

\* The hash is another one: the runner fails, and its container is started
\* again.
RejectDownload(r) ==
    /\ At(r, "downloaded") /\ partial.content # Wanted[r]
    /\ partial' = NoFile
    /\ holder' = NoRunner
    /\ Goes(r, "start")
    /\ UNCHANGED <<file, stamp>>

DropStamp_Kept(r) ==
    /\ At(r, "downloaded") /\ partial.content = Wanted[r]
    /\ Goes(r, "swap")
    /\ UNCHANGED <<file, partial, stamp, holder>>

\* Before the swap, so that the old stamp never vouches for the new file.
DropStamp(r) ==
    /\ At(r, "downloaded") /\ partial.content = Wanted[r]
    /\ stamp' = NoStamp
    /\ Goes(r, "swap")
    /\ UNCHANGED <<file, partial, holder>>

Swap(r) ==
    /\ At(r, "swap")
    /\ file' = partial
    /\ partial' = NoFile
    /\ Goes(r, "swapped")
    /\ UNCHANGED <<stamp, holder>>

\* write_text opens the file, which empties it, and then writes.
OpenStamp(r) ==
    /\ At(r, "swapped")
    /\ stamp' = EmptyStamp
    /\ Goes(r, "stamping")
    /\ UNCHANGED <<file, partial, holder>>

WriteStamp(r) ==
    /\ At(r, "stamping")
    /\ stamp' = StampOf(r, file)
    /\ Goes(r, "trusted")
    /\ UNCHANGED <<file, partial, holder>>

Unlock(r) ==
    /\ At(r, "trusted")
    /\ holder' = NoRunner
    /\ Goes(r, "open")
    /\ UNCHANGED <<file, partial, stamp>>

\* PlaceIndex(path).close(): the file is a readable index.
OpenIndex(r) ==
    /\ At(r, "open")
    /\ Goes(r, "ready")
    /\ UNCHANGED <<file, partial, stamp, holder>>

\* The runner dies, is stopped or fails; the kernel releases its lock.
Leaves(r) ==
    /\ Goes(r, "start")
    /\ holder' = IF holder = r THEN NoRunner ELSE holder
    /\ UNCHANGED <<file, partial, stamp>>

\* A host without the file, or with the file and the stamp of some version, or
\* with a file whose stamp belongs to another file of another time.
IndexInit ==
    /\ file \in Files \cup {NoFile}
    /\ \/ stamp = NoStamp
       \/ file # NoFile /\ \E t \in Times :
             /\ stamp = [sha |-> file.content, time |-> t]
       \/ file # NoFile /\ \E sha \in Contents, t \in Times \ {file.time} :
             stamp = [sha |-> sha, time |-> t]
    /\ partial = NoFile
    /\ holder = NoRunner
    /\ prep = [r \in HostRunners |-> "start"]

Prepare(r) ==
    \/ TakeLock(r) \/ TrustStamp(r) \/ Download(r) \/ RejectDownload(r) \/ DropStamp(r)
    \/ Swap(r) \/ OpenStamp(r) \/ WriteStamp(r) \/ Unlock(r) \/ OpenIndex(r)

-----------------------------------------------------------------------------
(* Property                                                                *)

\* ensure_local_index: what a runner takes for its index has the hash that it
\* wants, whichever runner has died at whichever step, and as long as a
\* runner works the file that its children open is one that a runner has
\* verified.
IndexIsVerified ==
    \A r \in HostRunners :
        /\ At(r, "trusted") => file # NoFile /\ file.content = Wanted[r]
        /\ prep[r] \in {"open", "ready"} => \E q \in HostRunners : file.content = Wanted[q]
=============================================================================
