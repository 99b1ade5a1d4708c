---------------------------- MODULE BlobStore ----------------------------
(***************************************************************************)
(* The blob store of crates/chatcmd-runtime/src/blob_store.rs: uploads in   *)
(* chunks, sealing, leases of the tools that write a sealed blob to a file  *)
(* of the workspace, artifacts read in pages, expiry, quota, and recovery   *)
(* from the metadata files after a restart.                                 *)
(*                                                                          *)
(* Every operation holds the store's mutex, so an operation is one action;  *)
(* a crash inside one leaves one of CrashPoints on disk.  A blob's content  *)
(* is the sequence of its chunks, its SHA-256 the content itself; Torn is   *)
(* what a write that failed half way left in the file.                      *)
(***************************************************************************)
EXTENDS Naturals, FiniteSets, Sequences

CONSTANTS
  Blobs,       \* upload identifiers, each used by one upload
  Turns,       \* the contexts (agent, task, turn) that call the store
  Calls,       \* calls that consume a sealed blob
  OwnerLimit,  \* MAX_OWNER_UPLOADS
  MaxFaults    \* bound: failed writes, expiries and restarts of a behaviour

CONSTANT TaskOf(_)   \* the task of a turn
CONSTANTS
  Torn,        \* half a chunk
  NoFile       \* no .blob file of that name

VARIABLES
  entry,     \* [Blobs -> Entry \cup {NoEntry}], the map under the mutex
  meta,      \* the metadata files, the entry each holds
  file,      \* the .blob files: the sequence of what was appended to each
  lapsed,    \* blobs whose expires_at_ms has passed
  call,      \* the calls that hold, or held, a lease
  page,      \* the page an artifact read is about to take from an open path
  used,      \* identifiers given out so far
  applied,   \* contents written to a target file from each blob
  faults,    \* faults so far
  restarts   \* those that were restarts

blobVars == <<entry, meta, file, lapsed, call, page, used, applied, faults, restarts>>

Whole == <<1, 2>>                  \* the content every client uploads
NoEntry == [state |-> "none"]
Idle == [blob |-> NoEntry, step |-> "idle"]
NoPage == [blob |-> NoEntry, offset |-> 0, got |-> <<>>]
Purposes == {"write", "artifact"}

BlobState == {"uploading", "sealed", "consuming", "consumed", "aborted"}
BlobEntry == [owner : Turns, purpose : Purposes, state : BlobState,
              received : 0..Len(Whole), sha256 : {<<>>, Whole}]

Entry(b, o, p, s, n, h) == [owner |-> o, purpose |-> p, state |-> s, received |-> n, sha256 |-> h]
Known(b) == entry[b] # NoEntry
Active(e) == e.state \in {"uploading", "sealed", "consuming"}
IsExpired(b) == b \in lapsed

ASSUME BlobAssumption ==
  /\ IsFiniteSet(Blobs) /\ OwnerLimit \in Nat /\ MaxFaults \in Nat
  /\ NoEntry \notin Blobs /\ NoFile \notin Seq({1, 2, Torn})

BlobInit ==
  /\ entry = [b \in Blobs |-> NoEntry]
  /\ meta = [b \in Blobs |-> NoEntry]
  /\ file = [b \in Blobs |-> NoFile]
  /\ lapsed = {}
  /\ call = [c \in Calls |-> Idle]
  /\ page = NoPage
  /\ used = {}
  /\ applied = [b \in Blobs |-> <<>>]
  /\ faults = 0
  /\ restarts = 0

Fault == faults < MaxFaults /\ faults' = faults + 1 /\ UNCHANGED restarts
NoFault == UNCHANGED <<faults, restarts>>

-----------------------------------------------------------------------------
(* purge_expired: dropped from the map, the file and the metadata.           *)
Purged == {b \in Blobs : Known(b) /\ (IsExpired(b) \/ entry[b].state \in {"aborted", "consumed"})}

Without(f, S, nothing) == [b \in Blobs |-> IF b \in S THEN nothing ELSE f[b]]

MutUsage(e, o) == Cardinality({b \in Blobs : e[b].state = "uploading" /\ e[b].owner = o})

(* usage: what the active entries of an owner reserve.                       *)
usage(e, o) == Cardinality({b \in Blobs : Active(e[b]) /\ e[b].owner = o})

Unused(b) == b \notin used

(* begin: purge, quota, the empty file, the metadata, then the entry; the    *)
(* file is removed when the metadata cannot be written.                      *)
begin(b, o, p) ==
  /\ Unused(b)
  /\ LET kept == Without(entry, Purged, NoEntry)
         new == Entry(b, o, p, "uploading", 0, <<>>) IN
     \/ /\ usage(kept, o) < OwnerLimit
        /\ entry' = [kept EXCEPT ![b] = new]
        /\ meta' = [Without(meta, Purged, NoEntry) EXCEPT ![b] = new]
        /\ file' = [Without(file, Purged, NoFile) EXCEPT ![b] = <<>>]
     \/ /\ entry' = kept
        /\ meta' = Without(meta, Purged, NoEntry)
        /\ file' = Without(file, Purged, NoFile)
  /\ used' = used \cup {b}
  /\ NoFault
  /\ UNCHANGED <<lapsed, call, page, applied>>

(* store_artifact_json and store_artifact_file: a sealed artifact at once,   *)
(* copied aside and renamed.                                                 *)
store_artifact(b, o) ==
  /\ Unused(b)
  /\ LET kept == Without(entry, Purged, NoEntry)
         new == Entry(b, o, "artifact", "sealed", Len(Whole), Whole) IN
     /\ usage(kept, o) < OwnerLimit
     /\ entry' = [kept EXCEPT ![b] = new]
     /\ meta' = [Without(meta, Purged, NoEntry) EXCEPT ![b] = new]
     /\ file' = [Without(file, Purged, NoFile) EXCEPT ![b] = Whole]
  /\ used' = used \cup {b}
  /\ NoFault
  /\ UNCHANGED <<lapsed, call, page, applied>>

-----------------------------------------------------------------------------
(* check_owner_and_expiry: an expired entry that is touched is aborted, its  *)
(* file removed; its metadata stays until a purge.                           *)
touch_expired(b) ==
  /\ Known(b) /\ IsExpired(b)
  /\ entry' = [entry EXCEPT ![b].state = "aborted"]
  /\ file' = [file EXCEPT ![b] = NoFile]
  /\ NoFault
  /\ UNCHANGED <<meta, lapsed, call, page, used, applied>>

Usable(b) == Known(b) /\ ~IsExpired(b)

(* write_chunk at the next offset: append, then the map, then the metadata,  *)
(* whose failure leaves the map ahead; or an append that fails half way and  *)
(* leaves the map as it was.  A repeated offset changes nothing.             *)
write_chunk(b) ==
  /\ Usable(b) /\ entry[b].state = "uploading" /\ entry[b].received < Len(Whole)
  /\ file[b] # NoFile
  /\ LET n == entry[b].received + 1
         new == [entry[b] EXCEPT !.received = n] IN
     \/ /\ file' = [file EXCEPT ![b] = Append(@, Whole[n])]
        /\ entry' = [entry EXCEPT ![b] = new]
        /\ \/ meta' = [meta EXCEPT ![b] = new] /\ NoFault
           \/ UNCHANGED meta /\ Fault
     \/ /\ file' = [file EXCEPT ![b] = Append(@, Torn)]
        /\ UNCHANGED <<entry, meta>> /\ Fault
  /\ UNCHANGED <<lapsed, call, page, used, applied>>

MutSealable(b) == entry[b].received = Len(Whole)

(* The hash the seal compares: of the file, not of what was received.        *)
Sealable(b) == entry[b].received = Len(Whole) /\ file[b] = Whole

(* seal: the size and the hash of the whole file must be the client's.       *)
seal(b) ==
  /\ Usable(b) /\ entry[b].state = "uploading" /\ Sealable(b)
  /\ LET new == [entry[b] EXCEPT !.state = "sealed", !.sha256 = Whole] IN
     /\ entry' = [entry EXCEPT ![b] = new]
     /\ \/ meta' = [meta EXCEPT ![b] = new] /\ NoFault
        \/ UNCHANGED meta /\ Fault
  /\ UNCHANGED <<file, lapsed, call, page, used, applied>>

MutLeasable(b) == entry[b].state \in {"sealed", "consuming"}

Leasable(b) == entry[b].state = "sealed"

(* lease by a tool of the blob's purpose: consuming, in the map and in the   *)
(* metadata; when the metadata fails the state stays and nobody holds it.    *)
lease(c, b) ==
  /\ call[c] = Idle /\ Usable(b) /\ Leasable(b)
  /\ LET new == [entry[b] EXCEPT !.state = "consuming"] IN
     /\ entry' = [entry EXCEPT ![b] = new]
     /\ \/ /\ meta' = [meta EXCEPT ![b] = new] /\ NoFault
           /\ call' = [call EXCEPT ![c] = [blob |-> b, step |-> "leased"]]
        \/ UNCHANGED <<meta, call>> /\ Fault
  /\ UNCHANGED <<file, lapsed, page, used, applied>>

(* The tool reads the blob's path and replaces its target with the content   *)
(* (write_blob_atomic); a path that is gone is an error.                     *)
write_target(c) ==
  LET b == call[c].blob IN
  /\ call[c].step = "leased"
  /\ \/ /\ file[b] # NoFile
        /\ applied' = [applied EXCEPT ![b] = Append(@, file[b])]
        /\ call' = [call EXCEPT ![c].step = "written"]
     \/ /\ call' = [call EXCEPT ![c].step = "failed"]
        /\ UNCHANGED applied
  /\ NoFault
  /\ UNCHANGED <<entry, meta, file, lapsed, page, used>>

(* create_artifact takes the target back when its row cannot be stored.      *)
register_fails(c) ==
  LET b == call[c].blob IN
  /\ call[c].step = "written" /\ entry[b] # NoEntry /\ entry[b].purpose = "artifact"
  /\ applied' = [applied EXCEPT ![b] = SubSeq(@, 1, Len(@) - 1)]
  /\ call' = [call EXCEPT ![c].step = "failed"]
  /\ Fault
  /\ UNCHANGED <<entry, meta, file, lapsed, page, used>>

MutFinish(c) ==
  /\ call[c].step \in {"written", "failed"}
  /\ call' = [call EXCEPT ![c] = Idle]
  /\ IF Known(call[c].blob) /\ entry[call[c].blob].state = "consuming"
       THEN entry' = [entry EXCEPT ![call[c].blob].state = "sealed"]
       ELSE UNCHANGED entry
  /\ NoFault /\ UNCHANGED <<meta, file, lapsed, page, used, applied>>

(* finish_consume with the outcome of the tool, or by the drop of the lease. *)
finish_consume(c) ==
  LET b == call[c].blob
      consumed == call[c].step = "written" IN
  /\ call[c].step \in {"written", "failed"}
  /\ call' = [call EXCEPT ![c] = Idle]
  /\ IF ~Known(b) \/ entry[b].state # "consuming"
       THEN UNCHANGED <<entry, meta, file>> /\ NoFault
       ELSE IF consumed
         THEN /\ entry' = [entry EXCEPT ![b].state = "consumed"]
              /\ meta' = [meta EXCEPT ![b] = NoEntry]
              /\ file' = [file EXCEPT ![b] = NoFile]
              /\ NoFault
         ELSE LET new == [entry[b] EXCEPT !.state = "sealed"] IN
              /\ entry' = [entry EXCEPT ![b] = new]
              /\ \/ meta' = [meta EXCEPT ![b] = new] /\ NoFault
                 \/ UNCHANGED meta /\ Fault
              /\ UNCHANGED file
  /\ UNCHANGED <<lapsed, page, used, applied>>

-----------------------------------------------------------------------------
(* abort: any state but consumed, also while a tool holds the lease.         *)
abort(b) ==
  /\ Usable(b) /\ entry[b].state # "consumed"
  /\ entry' = [entry EXCEPT ![b].state = "aborted"]
  /\ meta' = [meta EXCEPT ![b] = NoEntry]
  /\ file' = [file EXCEPT ![b] = NoFile]
  /\ NoFault
  /\ UNCHANGED <<lapsed, call, page, used, applied>>

Drop(S) ==
  /\ S # {}
  /\ entry' = Without(entry, S, NoEntry)
  /\ meta' = Without(meta, S, NoEntry)
  /\ file' = Without(file, S, NoFile)
  /\ NoFault
  /\ UNCHANGED <<lapsed, call, page, used, applied>>

gc == Drop(Purged)
cleanup_task(t) == Drop({b \in Blobs : Known(b) /\ TaskOf(entry[b].owner) = t})
cleanup_all == Drop({b \in Blobs : Known(b)})

expire(b) ==
  /\ Known(b) /\ ~IsExpired(b)
  /\ lapsed' = lapsed \cup {b}
  /\ Fault
  /\ UNCHANGED <<entry, meta, file, call, page, used, applied>>

-----------------------------------------------------------------------------
MutReadable(b) == entry[b].purpose = "artifact"
Readable(b) == entry[b].purpose = "artifact" /\ entry[b].state = "sealed"

(* read_artifact_text_range: the path is looked up under the mutex ...       *)
open_page(b, o) ==
  /\ page.blob = NoEntry \/ page.got # <<>>
  /\ Usable(b) /\ Readable(b)
  /\ TaskOf(o) = TaskOf(entry[b].owner)
  /\ page' = [blob |-> b, offset |-> IF page.blob = b THEN page.offset + Len(page.got) ELSE 0, got |-> <<>>]
  /\ page'.offset < Len(Whole)
  /\ NoFault
  /\ UNCHANGED <<entry, meta, file, lapsed, call, used, applied>>

(* ... and opened after it is released: the rest of the file, or an error.   *)
read_page ==
  /\ page.blob # NoEntry /\ page.got = <<>>
  /\ \/ /\ file[page.blob] # NoFile /\ page.offset < Len(file[page.blob])
        /\ page' = [page EXCEPT !.got = SubSeq(file[page.blob], page.offset + 1, page.offset + 1)]
     \/ page' = NoPage
  /\ NoFault
  /\ UNCHANGED <<entry, meta, file, lapsed, call, used, applied>>

-----------------------------------------------------------------------------
(* What a crash inside an operation leaves: an append without its metadata,  *)
(* whole or torn; a file without metadata; metadata without its file.        *)
CrashPoints ==
  {<<file, meta>>}
    \cup {<<[file EXCEPT ![b] = Append(@, x)], meta>> :
            b \in {b \in Blobs : Known(b) /\ entry[b].state = "uploading" /\ file[b] # NoFile
                                   /\ entry[b].received < Len(Whole)},
            x \in {Torn}}
    \cup {<<[file EXCEPT ![b] = <<>>], meta>> : b \in {b \in Blobs : Unused(b)}}
    \cup {<<[file EXCEPT ![b] = NoFile], meta>> : b \in {b \in Blobs : Known(b)}}

(* recover_entries keeps an entry whose file holds at least what it received.*)
Recoverable(b, f) ==
  /\ meta[b] # NoEntry /\ ~IsExpired(b)
  /\ meta[b].state \notin {"aborted", "consumed"}
  /\ f[b] # NoFile /\ Len(f[b]) >= meta[b].received

(* The file is cut to what the metadata counts, a lease is given back.       *)
RecoveredFile(b, f) == SubSeq(f[b], 1, meta[b].received)
RecoveredEntry(b) == IF meta[b].state = "consuming" THEN [meta[b] EXCEPT !.state = "sealed"] ELSE meta[b]

restart ==
  /\ faults < MaxFaults /\ faults' = faults + 1 /\ restarts' = restarts + 1
  /\ \E disk \in CrashPoints :
       LET f == disk[1]
           kept == {b \in Blobs : Recoverable(b, f)} IN
       /\ entry' = [b \in Blobs |-> IF b \in kept THEN RecoveredEntry(b) ELSE NoEntry]
       /\ meta' = entry'
       /\ file' = [b \in Blobs |-> IF b \in kept THEN RecoveredFile(b, f) ELSE NoFile]
  /\ call' = [c \in Calls |-> Idle]
  /\ page' = NoPage
  /\ UNCHANGED <<lapsed, used, applied>>

BlobNext ==
  \/ \E b \in Blobs, o \in Turns, p \in Purposes : begin(b, o, p)
  \/ \E b \in Blobs, o \in Turns : store_artifact(b, o)
  \/ \E b \in Blobs : touch_expired(b)
  \/ \E b \in Blobs : write_chunk(b)
  \/ \E b \in Blobs : seal(b)
  \/ \E c \in Calls, b \in Blobs : lease(c, b)
  \/ \E c \in Calls : write_target(c)
  \/ \E c \in Calls : register_fails(c)
  \/ \E c \in Calls : finish_consume(c)
  \/ \E b \in Blobs : abort(b)
  \/ gc
  \/ \E o \in Turns : cleanup_task(TaskOf(o))
  \/ cleanup_all
  \/ \E b \in Blobs : expire(b)
  \/ \E b \in Blobs, o \in Turns : open_page(b, o)
  \/ read_page
  \/ restart

BlobSpec == BlobInit /\ [][BlobNext]_blobVars

-----------------------------------------------------------------------------
(* The rows and what is on disk have their types.                           *)
BlobTypes ==
  /\ entry \in [Blobs -> BlobEntry \cup {NoEntry}]
  /\ meta \in [Blobs -> BlobEntry \cup {NoEntry}]
  /\ lapsed \subseteq Blobs
  /\ faults \in 0..MaxFaults

(* The file of a blob that is sealed, or held by a tool, is what the client   *)
(* declared: through failed appends, crashes inside an operation and          *)
(* recovery.                                                                  *)
SealedIntact == \A b \in Blobs : Known(b) /\ entry[b].state \in {"sealed", "consuming"} => file[b] = Whole

(* Two calls never hold one blob, also when one lease was aborted, given back *)
(* after a failed write, or recovered.                                        *)
Exclusive == \A c, d \in Calls : call[c] # Idle /\ call[c].blob = call[d].blob => c = d

(* A tool that held a lease while the blob was aborted, expired or collected  *)
(* wrote all of it or nothing, and at most once in a life of the host.        *)
AppliedWhole ==
  \A b \in Blobs :
    /\ \A i \in DOMAIN applied[b] : applied[b][i] = Whole
    /\ Len(applied[b]) <= 1 + restarts

(* Uploads and artifacts of an owner that still occupy disk stay within his   *)
(* limit, counting what is sealed or leased, also after recovery.             *)
Quota == \A o \in Turns : usage(entry, o) <= OwnerLimit

(* A page read after the mutex was released is of the artifact at its offset. *)
PageIntact == page.got # <<>> => page.got = SubSeq(Whole, page.offset + 1, page.offset + 1)

(* What is read or written from a blob is its whole content or a true page,   *)
(* one call at a time, and what an owner keeps stays within his limit.        *)
BlobsSafe == SealedIntact /\ Exclusive /\ AppliedWhole /\ Quota /\ PageIntact
=============================================================================
