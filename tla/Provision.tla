----------------------------- MODULE Provision -----------------------------
(***************************************************************************)
(* Processes that resolve one pinned snapshot in a shared cache directory  *)
(* (crates/tuisko-provision/src/lib.rs, resolve_snapshot_with_progress and *)
(* download_file). A required file is downloaded to blobs/<blob>.incomplete*)
(* under the lock of its blob, renamed to blobs/<blob>, and linked from    *)
(* the snapshot directory.                                                 *)
(*                                                                         *)
(* A file is a sequence of chunks; chunk k of the right contents is k, any *)
(* other one is 0. A digest is the sequence of the chunks it was fed with. *)
(* Faults, MaxFaults of them at most: a call fails, is cancelled by its    *)
(* progress callback or dies with its process; a body is corrupt or ends   *)
(* early; the machine loses power.                                         *)
(***************************************************************************)
EXTENDS Integers, Sequences, FiniteSetsExt

CONSTANTS
    Procs,      \* callers, each in a process of its own
    Offline,    \* callers with an explicit snapshot or HF_HUB_OFFLINE
    FileCount,  \* required files
    Size,       \* chunks of a file
    Leftovers,  \* partial downloads that may be there at the start
    MaxFaults,  \* faults (bound)
    Absent      \* no file, or no process

Files == 1 .. FileCount
Chunks == 0 .. Size
Exact == [k \in 1 .. Size |-> k]

ASSUME ProvisionAssumption ==
    /\ Offline \subseteq Procs /\ Absent \notin Procs
    /\ FileCount \in Nat \ {0} /\ Size \in Nat \ {0} /\ MaxFaults \in Nat
    /\ Leftovers \subseteq Seq(Chunks)

VARIABLES
    blob,     \* blobs/<blob> of each file, or Absent
    partial,  \* blobs/<blob>.incomplete; an empty one stands for none too
    link,     \* files linked from the snapshot directory
    lock,     \* holder of each blob's lock
    pc,       \* where each process is in its call
    at,       \* the file it is at
    missing,  \* the files it still has to provide
    digest,   \* what it has hashed of the file it downloads
    faults    \* faults so far

disk == <<blob, partial, link>>
vars == <<disk, lock, pc, at, missing, digest, faults>>

(* A file's contents, and whether sync_all has made them durable.          *)
Synced(data) == [data |-> data, synced |-> TRUE]
Cached(data) == [data |-> data, synced |-> FALSE]

Contents == [data : Seq(Chunks), synced : BOOLEAN]

(* A blob that is not of the required length was left by another program.  *)
Foreign == Synced(<<1>>)

Init ==
    /\ blob \in [Files -> {Absent, Synced(Exact)} \cup (IF Size = 1 THEN {} ELSE {Foreign})]
    /\ partial \in [Files -> { Synced(data) : data \in Leftovers }]
    /\ link \in SUBSET Files
    /\ lock = [f \in Files |-> Absent]
    /\ pc = [p \in Procs |-> "idle"] /\ at = [p \in Procs |-> 1]
    /\ missing = [p \in Procs |-> {}] /\ digest = [p \in Procs |-> << >>]
    /\ faults = 0

-----------------------------------------------------------------------------
Fault == faults < MaxFaults /\ faults' = faults + 1
Go(p, place) == pc' = [pc EXCEPT ![p] = place]

(* A call ends, or its process dies: its lock goes with its descriptor.    *)
Released(p) == [f \in Files |-> IF lock[f] = p THEN Absent ELSE lock[f]]
Ends(p, place) ==
    /\ Go(p, place) /\ lock' = Released(p)
    /\ at' = [at EXCEPT ![p] = 1] /\ missing' = [missing EXCEPT ![p] = {}]
    /\ digest' = [digest EXCEPT ![p] = << >>]

(* The file a snapshot path leads to: a link may dangle.                   *)
Visible(f) == IF f \in link THEN blob[f] ELSE Absent
HasSize(file) == Len(file.data) = Size

Start(p) ==
    /\ pc[p] \in {"idle", "done"} /\ Go(p, "inspect")
    /\ UNCHANGED <<disk, lock, at, missing, digest, faults>>

(* inspect_snapshot looks at one file after the other: first to find what  *)
(* is missing, then to confirm the downloads.                              *)
Inspect(p) ==
    LET file == Visible(at[p])
        lacks == missing[p] \cup (IF file = Absent THEN {at[p]} ELSE {})
    IN  /\ pc[p] \in {"inspect", "confirm"}
        /\ IF file # Absent /\ ~HasSize(file)
           THEN Ends(p, "idle")
           ELSE IF at[p] < FileCount
           THEN /\ at' = [at EXCEPT ![p] = @ + 1]
                /\ missing' = [missing EXCEPT ![p] = lacks]
                /\ UNCHANGED <<pc, lock, digest>>
           ELSE IF lacks = {} THEN Ends(p, "done")
           ELSE IF pc[p] = "confirm" \/ p \in Offline THEN Ends(p, "idle")
           ELSE /\ Go(p, "lock") /\ at' = [at EXCEPT ![p] = Min(lacks)]
                /\ missing' = [missing EXCEPT ![p] = lacks]
                /\ UNCHANGED <<lock, digest>>
        /\ UNCHANGED <<disk, faults>>

BugLock_NotExclusive(p) ==
    /\ pc[p] = "lock"
    /\ lock' = [lock EXCEPT ![at[p]] = p] /\ Go(p, "locked")
    /\ UNCHANGED <<disk, at, missing, digest, faults>>
Lock(p) ==
    /\ pc[p] = "lock" /\ lock[at[p]] = Absent
    /\ lock' = [lock EXCEPT ![at[p]] = p] /\ Go(p, "locked")
    /\ UNCHANGED <<disk, at, missing, digest, faults>>

(* exact_file_length: another process may have installed the blob since    *)
(* the inspection; a blob of another length is refused.                    *)
FindBlob(p) ==
    /\ pc[p] = "locked" /\ blob[at[p]] # Absent
    /\ IF HasSize(blob[at[p]])
       THEN Go(p, "link") /\ UNCHANGED <<lock, at, missing, digest>>
       ELSE Ends(p, "idle")
    /\ UNCHANGED <<disk, faults>>

(* resume_offset: an oversized partial download starts again.              *)
BugResumable_Oversized(file) == file
Resumable(file) == IF Len(file.data) > Size THEN Cached(<< >>) ELSE file

(* The partial file is opened and what it holds is hashed.                 *)
Open(p) ==
    LET file == Resumable(partial[at[p]]) IN
    /\ pc[p] = "locked" /\ blob[at[p]] = Absent
    /\ partial' = [partial EXCEPT ![at[p]] = file]
    /\ digest' = [digest EXCEPT ![p] = file.data]
    /\ Go(p, IF Len(file.data) < Size THEN "receive" ELSE "sync")
    /\ UNCHANGED <<blob, link, lock, at, missing, faults>>

(* append_body: a chunk goes to the end of the file and into the digest.   *)
Appended(p, chunk) ==
    /\ partial' = [partial EXCEPT ![at[p]] = Cached(Append(@.data, chunk))]
    /\ digest' = [digest EXCEPT ![p] = Append(@, chunk)]
Receive(p) ==
    /\ pc[p] = "receive" /\ Len(digest[p]) < Size
    /\ \/ Appended(p, Len(digest[p]) + 1) /\ UNCHANGED faults
       \/ Appended(p, 0) /\ Fault
    /\ UNCHANGED <<blob, link, lock, pc, at, missing>>

(* The body ends, early or not; one that goes on past the length is an     *)
(* error, a Stop here.                                                     *)
EndOfBody(p) ==
    /\ pc[p] = "receive"
    /\ IF Len(digest[p]) < Size THEN Fault ELSE UNCHANGED faults
    /\ Go(p, "sync")
    /\ UNCHANGED <<disk, lock, at, missing, digest>>

BugSync_Skipped(p) ==
    /\ pc[p] = "sync" /\ Go(p, "check")
    /\ UNCHANGED <<disk, lock, at, missing, digest, faults>>
Sync(p) ==
    /\ pc[p] = "sync" /\ Go(p, "check")
    /\ partial' = [partial EXCEPT ![at[p]].synced = TRUE]
    /\ UNCHANGED <<blob, link, lock, at, missing, digest, faults>>

(* A short download is kept to be resumed, a corrupt one is emptied.       *)
BugRejected_Kept(p) ==
    (HasSize(partial[at[p]]) => digest[p] # Exact) /\ UNCHANGED partial
BugRejected_ShortToo(p) ==
    /\ digest[p] # Exact
    /\ partial' = [partial EXCEPT ![at[p]] = Cached(<< >>)]
Rejected(p) ==
    \/ ~HasSize(partial[at[p]]) /\ UNCHANGED partial
    \/ /\ HasSize(partial[at[p]]) /\ digest[p] # Exact
       /\ partial' = [partial EXCEPT ![at[p]] = Cached(<< >>)]
Check(p) ==
    /\ pc[p] = "check"
    /\ \/ Rejected(p) /\ Ends(p, "idle")
       \/ /\ HasSize(partial[at[p]]) /\ digest[p] = Exact
          /\ Go(p, "rename") /\ UNCHANGED <<partial, lock, at, missing, digest>>
    /\ UNCHANGED <<blob, link, faults>>

Rename(p) ==
    /\ pc[p] = "rename" /\ Go(p, "link")
    /\ blob' = [blob EXCEPT ![at[p]] = partial[at[p]]]
    /\ partial' = [partial EXCEPT ![at[p]] = Synced(<< >>)]
    /\ UNCHANGED <<link, lock, at, missing, digest, faults>>

(* install_snapshot_link, the end of download_file, and the next file.     *)
Link(p) ==
    LET left == missing[p] \ {at[p]} IN
    /\ pc[p] = "link"
    /\ link' = link \cup {at[p]} /\ lock' = Released(p)
    /\ Go(p, IF left = {} THEN "confirm" ELSE "lock")
    /\ at' = [at EXCEPT ![p] = IF left = {} THEN 1 ELSE Min(left)]
    /\ missing' = [missing EXCEPT ![p] = left]
    /\ digest' = [digest EXCEPT ![p] = << >>]
    /\ UNCHANGED <<blob, partial, faults>>

(* An error of the network or of a file call, a progress callback that     *)
(* cancels, or the death of the process.                                   *)
Stop(p) ==
    /\ pc[p] \notin {"idle", "done"} /\ Fault /\ Ends(p, "idle")
    /\ UNCHANGED disk

(* The machine stops. Contents that were not synced are lost or garbage;   *)
(* no directory is ever synced, so a rename may be undone and a link lost. *)
Survivors(file) ==
    IF file.synced THEN {file}
    ELSE { Synced(data) : data \in UNION { [1 .. n -> Chunks] : n \in 0 .. Size } }
Outcomes(f) ==
    IF blob[f] = Absent
    THEN { [blob |-> Absent, partial |-> file] : file \in Survivors(partial[f]) }
    ELSE { [blob |-> Absent, partial |-> file] : file \in Survivors(blob[f]) }
           \cup [blob : Survivors(blob[f]), partial : Survivors(partial[f])]
PowerLoss ==
    /\ Fault
    /\ \E found \in [Files -> UNION { Outcomes(f) : f \in Files }], kept \in SUBSET link :
          /\ \A f \in Files : found[f] \in Outcomes(f)
          /\ blob' = [f \in Files |-> found[f].blob]
          /\ partial' = [f \in Files |-> found[f].partial]
          /\ link' = kept
    /\ lock' = [f \in Files |-> Absent]
    /\ pc' = [p \in Procs |-> "idle"] /\ at' = [p \in Procs |-> 1]
    /\ missing' = [p \in Procs |-> {}] /\ digest' = [p \in Procs |-> << >>]

Step(p) ==
    \/ Inspect(p) \/ Lock(p) \/ FindBlob(p) \/ Open(p) \/ Receive(p) \/ EndOfBody(p)
    \/ Sync(p) \/ Check(p) \/ Rename(p) \/ Link(p)
Next ==
    \/ PowerLoss
    \/ \E p \in Procs : Start(p) \/ Step(p) \/ Stop(p)

Spec == Init /\ [][Next]_vars

(* A call that runs goes on, and a caller whose call failed tries again.   *)
FairSpec == Spec /\ \A p \in Procs : WF_vars(Step(p)) /\ WF_vars(Start(p))

-----------------------------------------------------------------------------
Places == {"idle", "inspect", "lock", "locked", "receive", "sync", "check", "rename",
           "link", "confirm", "done"}

TypeOK ==
    /\ blob \in [Files -> Contents \cup {Absent}] /\ partial \in [Files -> Contents]
    /\ link \subseteq Files /\ lock \in [Files -> Procs \cup {Absent}]
    /\ pc \in [Procs -> Places] /\ at \in [Procs -> Files]
    /\ missing \in [Procs -> SUBSET Files]
    /\ digest \in [Procs -> Seq(Chunks)] /\ \A p \in Procs : Len(digest[p]) <= Size
    /\ faults \in 0 .. MaxFaults

(* A blob of the required length has the required bytes, whatever was      *)
(* interrupted while it was downloaded, so a snapshot that is answered as  *)
(* complete is: inspect_snapshot and exact_file_length compare no digest,  *)
(* they trust every blob that is installed.                                *)
SnapshotIsExact ==
    /\ \A f \in Files : blob[f] # Absent /\ HasSize(blob[f]) => blob[f].data = Exact
    /\ \A p \in Procs : pc[p] = "done" =>
          \A f \in Files : Visible(f) # Absent /\ Visible(f).data = Exact

(* A partial download that can be resumed is never thrown away: it shrinks *)
(* only when it is published, corrupt, oversized, or lost with the power.  *)
KeepsGoodBytes ==
    [][\A f \in Files :
         Len(partial'[f].data) < Len(partial[f].data) =>
            \/ blob'[f] = partial[f]
            \/ \E k \in DOMAIN partial[f].data : k > Size \/ partial[f].data[k] # k
            \/ faults' > faults /\ \A p \in Procs : pc'[p] = "idle"]_vars

(* Once the faults are over, a caller that keeps trying gets its snapshot, *)
(* unless a blob of a wrong length is in the way, which is reported and    *)
(* left for its owner to delete: no leftover of an interrupted or corrupt  *)
(* download wedges the cache.                                              *)
SnapshotIsProvided ==
    \A p \in Procs \ Offline :
        <>(pc[p] = "done" \/ \E f \in Files : blob[f] # Absent /\ ~HasSize(blob[f]))
=============================================================================
