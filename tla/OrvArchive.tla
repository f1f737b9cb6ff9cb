----------------------------- MODULE OrvArchive -----------------------------
(***************************************************************************)
(* `orv db archive`, `orv db recover` and `orv db restore --wal/--archive  *)
(* --at` (orv-cli/db.rs) beside a program that goes on appending to its    *)
(* log and compacting it (orv-runtime/db.rs).  An archive is a manifest    *)
(* with the hash of the log, written beside it, and a copy of the log and  *)
(* of the manifest at a target: a directory ("file"), or a server that is  *)
(* sent both over HTTP ("http", which also stands for s3: the same steps   *)
(* with PUT for POST).  Requests may be lost, answered too late, or land   *)
(* after the client has given up on them.                                  *)
(*                                                                         *)
(* A write of the program has a number; a log record has its stamp and the *)
(* number of the last write that is in the tables once it is replayed.  A  *)
(* hash is modelled by the bytes it is of.                                 *)
(***************************************************************************)
EXTENDS Naturals, Sequences, FiniteSets, SequencesExt

CONSTANTS
  Recoverers,    \* recover processes
  Kinds,         \* targets an archive may be sent to: "none", "file", "http"
  NoCopy,        \* the file does not exist
  Attempts,      \* ORV_DB_ARCHIVE_HTTP_RETRY_ATTEMPTS
  MaxWrites, MaxTime, MaxCheckpoints, MaxArchives, MaxFlight  \* bounds

ASSUME AttemptsAssumption == Attempts \in 1 .. 8
ASSUME KindsAssumption == Kinds \subseteq {"none", "file", "http"}
ASSUME TimeAssumption == MaxTime \in Nat

VARIABLES
  wal,        \* the program's log
  stamps,     \* the stamp of each write
  clock,      \* the last time read from the clock, which is not set back
  compacted,  \* bound: checkpoints so far
  manifest,   \* the manifest beside the log
  target,     \* the files at each target: "wal" and "manifest"
  flight,     \* requests given up on that may still land
  arch,       \* the archive command
  archives,   \* bound: archive commands started
  rec         \* the recover commands; wal is the log of the manifest

archiveVars == <<wal, stamps, clock, compacted, manifest, target, flight, arch, archives, rec>>
program == <<wal, stamps, clock, compacted>>
archived == <<manifest, target, flight, arch, archives>>

NotRunning == [pc |-> "none", kind |-> "none", wal |-> <<>>, body |-> <<>>, attempt |-> 1, late |-> FALSE]
NotStarted == [pc |-> "none", limit |-> [by |-> "none", n |-> 0], wal |-> <<>>,
               path |-> "none", touched |-> FALSE, loaded |-> 0]

-----------------------------------------------------------------------------
(* Reading a log.                                                          *)

\* A half written last record is no record.
Records(f) == IF f # <<>> /\ Last(f).end = "half" THEN Front(f) ELSE f

\* What may be left of a file whose writing was cut short.
Torn(f) == {SubSeq(f, 1, k) : k \in 0 .. Len(f) - 1}
           \cup {Append(SubSeq(f, 1, k), [f[k + 1] EXCEPT !.end = "half"]) : k \in 0 .. Len(f) - 1}

\* The number of records in the longest prefix stamped at most t.
UpTo(rs, t) == CHOOSE k \in 0 .. Len(rs) :
                 /\ \A i \in 1 .. k : rs[i].ts <= t
                 /\ k < Len(rs) => rs[k + 1].ts > t

\* A record stamped at the limit is left out.
Bug_LimitNotIncluded(f, limit) ==
  LET rs == Records(f)
      k  == CASE limit.by = "none"   -> Len(rs)
              [] limit.by = "record" -> IF limit.n < Len(rs) THEN limit.n ELSE Len(rs)
              [] limit.by = "time"   -> IF limit.n = 0 THEN 0 ELSE UpTo(rs, limit.n - 1)
  IN  IF k = 0 THEN 0 ELSE rs[k].state

\* load_wal_records, and the tables it leaves
Load(f, limit) ==
  LET rs == Records(f)
      k  == CASE limit.by = "none"   -> Len(rs)
              [] limit.by = "record" -> IF limit.n < Len(rs) THEN limit.n ELSE Len(rs)
              [] limit.by = "time"   -> UpTo(rs, limit.n)
  IN  IF k = 0 THEN 0 ELSE rs[k].state

-----------------------------------------------------------------------------
(* The program.                                                            *)

Source == IF wal = NoCopy THEN <<>> ELSE wal
Whole  == Source # <<>> => Last(Source).end = "line"

\* A file that a recover command has verified and not yet loaded was written.
Touched(paths) == [p \in Recoverers |->
                     IF rec[p].pc = "load" /\ rec[p].path \in paths
                     THEN [rec[p] EXCEPT !.touched = TRUE] ELSE rec[p]]

\* append_wal_record: the record is stamped and its bytes begin to arrive.
AppendHalf ==
  /\ wal # NoCopy /\ Whole /\ Len(stamps) < MaxWrites
  /\ clock' \in clock .. MaxTime
  /\ wal' = Append(wal, [kind |-> "op", ts |-> clock', state |-> Len(stamps) + 1, end |-> "half"])
  /\ stamps' = Append(stamps, clock')
  /\ rec' = Touched({"wal"})
  /\ UNCHANGED <<compacted, archived>>

\* The rest of its bytes and the newline.
AppendRest ==
  /\ wal # NoCopy /\ ~Whole
  /\ wal' = [wal EXCEPT ![Len(wal)].end = "line"]
  /\ rec' = Touched({"wal"})
  /\ UNCHANGED <<stamps, clock, compacted, archived>>

\* checkpoint_wal, replace_wal_with_record: one record takes the log's place.
Checkpoint ==
  /\ wal # NoCopy /\ Whole /\ wal # <<>> /\ compacted < MaxCheckpoints
  /\ clock' \in clock .. MaxTime
  /\ wal' = <<[kind |-> "checkpoint", ts |-> clock', state |-> Len(stamps), end |-> "line"]>>
  /\ compacted' = compacted + 1
  /\ rec' = Touched({"wal"})
  /\ UNCHANGED <<stamps, archived>>

\* The machine of the program and its log is gone.
LoseSource == /\ wal # NoCopy /\ arch.pc = "none"
              /\ wal' = NoCopy
              /\ rec' = Touched({"wal"})
              /\ UNCHANGED <<stamps, clock, compacted, archived>>

-----------------------------------------------------------------------------
(* db archive.                                                             *)

\* db_wal_archive_manifest reads the log, once.
Archive(kind) ==
  /\ arch.pc = "none" /\ archives < MaxArchives /\ wal # NoCopy
  /\ arch' = [NotRunning EXCEPT !.pc = "manifest", !.kind = kind, !.wal = wal]
  /\ archives' = archives + 1
  /\ UNCHANGED <<program, manifest, target, flight, rec>>

\* write_json_atomic of the manifest, with the target it names.
WriteManifest ==
  /\ arch.pc = "manifest"
  /\ manifest' = [wal |-> arch.wal, target |-> arch.kind]
  /\ arch' = [arch EXCEPT !.pc = CASE arch.kind = "none" -> "done"
                                   [] arch.kind = "file" -> "copy_wal"
                                   [] arch.kind = "http" -> "read_wal"]
  /\ UNCHANGED <<program, target, flight, archives, rec>>

\* fs::copy of the log as it is now, then of the manifest.
CopyWal ==
  /\ arch.pc = "copy_wal" /\ wal # NoCopy
  /\ target' = [target EXCEPT !["file"].wal = wal]
  /\ arch' = [arch EXCEPT !.pc = "copy_manifest", !.body = wal]
  /\ rec' = Touched({"target"})
  /\ UNCHANGED <<program, manifest, flight, archives>>

CopyManifest ==
  /\ arch.pc = "copy_manifest"
  /\ target' = [target EXCEPT !["file"].manifest = manifest]
  /\ arch' = [arch EXCEPT !.pc = "done"]
  /\ UNCHANGED <<program, manifest, flight, archives, rec>>

\* The command is killed, or a copy fails half way; what is copied is in place.
AbortArchive ==
  /\ arch.pc # "none"
  /\ \/ target' = target /\ rec' = rec
     \/ /\ arch.pc = "copy_manifest"  \* half a manifest is none
        /\ target' = [target EXCEPT !["file"].manifest = NoCopy] /\ rec' = rec
     \/ /\ arch.pc = "copy_wal" /\ wal # NoCopy
        /\ \E part \in Torn(wal) : target' = [target EXCEPT !["file"].wal = part]
        /\ rec' = Touched({"target"})
  /\ arch' = NotRunning
  /\ UNCHANGED <<program, manifest, flight, archives>>

\* The body of the upload is the log as it is now; it is read once for all attempts.
ReadWal ==
  /\ arch.pc = "read_wal" /\ wal # NoCopy
  /\ arch' = [arch EXCEPT !.pc = "send_wal", !.body = wal, !.attempt = 1]
  /\ UNCHANGED <<program, manifest, target, flight, archives, rec>>

Request == IF arch.pc = "send_wal" THEN [file |-> "wal", body |-> arch.body]
                                   ELSE [file |-> "manifest", body |-> manifest]
Sending == arch.pc \in {"send_wal", "send_manifest", "done"}

\* The server stores the body and its answer arrives.
Sent ==
  /\ Sending
  /\ target' = [target EXCEPT !["http"][Request.file] = Request.body]
  /\ arch' = [arch EXCEPT !.pc = IF @ = "send_wal" THEN "send_manifest" ELSE "done", !.attempt = 1]
  /\ UNCHANGED <<program, manifest, flight, archives, rec>>

\* The last attempt's failure is forgotten and the command goes on.
Bug_LastFailureForgotten ==
  /\ Sending
  /\ flight' \in {flight} \cup (IF Cardinality(flight) < MaxFlight THEN {flight \cup {Request}} ELSE {})
  /\ arch' = IF arch.attempt < Attempts
             THEN [arch EXCEPT !.attempt = @ + 1]
             ELSE [arch EXCEPT !.pc = IF @ = "send_wal" THEN "send_manifest" ELSE "done", !.attempt = 1]
  /\ UNCHANGED <<program, manifest, target, archives, rec>>

\* db_archive_http_retry: the attempt fails, because the request is lost or its
\* answer is, or does not come in time; then the request may still land.
Lost ==
  /\ Sending
  /\ flight' \in {flight} \cup (IF Cardinality(flight) < MaxFlight THEN {flight \cup {Request}} ELSE {})
  /\ arch' = IF arch.attempt < Attempts
             THEN [arch EXCEPT !.attempt = @ + 1]
             ELSE NotRunning
  /\ UNCHANGED <<program, manifest, target, archives, rec>>

\* The server answers with a status of 400 to 499, which ends the command.
Denied ==
  /\ Sending
  /\ arch' = NotRunning
  /\ UNCHANGED <<program, manifest, target, flight, archives, rec>>

\* A request given up on lands; late tells that it is of an earlier body.
Land(r) ==
  /\ r \in flight /\ flight' = flight \ {r}
  /\ target' = [target EXCEPT !["http"][r.file] = r.body]
  /\ arch' = [arch EXCEPT !.late = @ \/ r.body # (IF r.file = "wal" THEN arch.body ELSE manifest)]
  /\ UNCHANGED <<program, manifest, archives, rec>>

-----------------------------------------------------------------------------
(* db recover, db restore --at.                                            *)

Limits == {[by |-> "none", n |-> 0]} \cup [by : {"record"}, n : 0 .. 1] \cup [by : {"time"}, n : 0 .. MaxTime]

\* A log that has grown since is taken for the one archived.
Bug_VerifyPrefix(m, f) == f # NoCopy /\ IsPrefix(m.wal, f)

\* verify_db_archive_wal, of the hash and of the number of bytes
Verify(m, f) == f # NoCopy /\ f = m.wal

\* With --wal: the log itself is read; one that is not there is an empty one.
RecoverWal(p, limit) ==
  /\ rec[p].pc = "none"
  /\ rec' = [rec EXCEPT ![p] = [NotStarted EXCEPT !.pc = "done", !.limit = limit,
                                  !.wal = Source, !.loaded = Load(Source, limit)]]
  /\ UNCHANGED <<program, archived>>

\* With --archive: the manifest here or one fetched from a target, and
\* db_archive_manifest_wal_path: the file target's copy, or else the program's
\* log where it is there, or else the copy at the server, which is downloaded to
\* a cache file named by its hash.
Recover(p, m) ==
  /\ rec[p].pc = "none" /\ m # NoCopy
  /\ LET If(good, pc, path) ==
           rec' = [rec EXCEPT ![p] = [NotStarted EXCEPT !.pc = IF good THEN pc ELSE "refused",
                                                        !.path = path, !.wal = m.wal]]
     IN  \/ m.target = "file" /\ If(Verify(m, target["file"].wal), "load", "target")
         \/ m.target # "file" /\ wal # NoCopy /\ If(Verify(m, wal), "load", "wal")
         \/ m.target = "http" /\ wal = NoCopy /\ If(Verify(m, target["http"].wal), "fill", "cache")
         \/ m.target = "http" /\ wal = NoCopy /\ If(FALSE, "fill", "cache")  \* no attempt succeeds
         \/ m.target = "none" /\ wal = NoCopy /\ If(FALSE, "load", "wal")
  /\ UNCHANGED <<program, archived>>

\* fs::write of the cache file, which was emptied first, is complete.
CacheFilled(p) ==
  /\ rec[p].pc = "fill"
  /\ rec' = [rec EXCEPT ![p].pc = "load"]
  /\ UNCHANGED <<program, archived>>

\* The cache file is complete but while some recover command fills it.
Filling(p) == \E q \in Recoverers : rec[q].pc = "fill" /\ rec[q].wal = rec[p].wal

FileAt(p) == CASE rec[p].path = "wal"    -> Source
               [] rec[p].path = "target" -> target["file"].wal
               [] rec[p].path = "cache"  -> IF Filling(p) THEN <<>> ELSE rec[p].wal

\* cmd_db_recover: the file is read, again, and replayed, and the data replaces
\* the output.  Nothing before depends on the limit.
FinishRecover(p, limit) ==
  /\ rec[p].pc = "load"
  /\ rec' = [rec EXCEPT ![p].pc = "done", ![p].limit = limit, ![p].loaded = Load(FileAt(p), limit),
                        ![p].touched = @ \/ (rec[p].path = "cache" /\ Filling(p))]
  /\ UNCHANGED <<program, archived>>

-----------------------------------------------------------------------------
ArchiveInit ==
  /\ wal = <<>> /\ stamps = <<>> /\ clock = 0 /\ compacted = 0
  /\ manifest = NoCopy /\ target = [k \in {"file", "http"} |-> [wal |-> NoCopy, manifest |-> NoCopy]]
  /\ flight = {} /\ arch = NotRunning /\ archives = 0
  /\ rec = [p \in Recoverers |-> NotStarted]

ArchiveStep == WriteManifest \/ CopyWal \/ CopyManifest \/ ReadWal \/ Sent \/ Lost \/ Denied

Manifests == {manifest} \cup {target[k].manifest : k \in DOMAIN target}

RecoverStep(p) ==
  \/ \E m \in Manifests : Recover(p, m)
  \/ CacheFilled(p)
  \/ \E limit \in Limits : RecoverWal(p, limit) \/ FinishRecover(p, limit)

Ended(pc) == pc \in {"done", "refused"}

\* Reduction: a command that ended exits before anything else happens.
Running == ~Ended(arch.pc) /\ \A p \in Recoverers : ~Ended(rec[p].pc)

Exit == /\ ~Running
        /\ arch' = IF Ended(arch.pc) THEN NotRunning ELSE arch
        /\ rec' = [p \in Recoverers |-> IF Ended(rec[p].pc) THEN NotStarted ELSE rec[p]]
        /\ UNCHANGED <<program, manifest, target, flight, archives>>

Step ==
  \/ AppendHalf \/ AppendRest \/ Checkpoint \/ LoseSource
  \/ \E kind \in Kinds : Archive(kind)
  \/ ArchiveStep \/ AbortArchive
  \/ \E r \in flight : Land(r)
  \/ \E p \in Recoverers : RecoverStep(p)

ArchiveNext == (Running /\ Step) \/ Exit

ArchiveSpec == ArchiveInit /\ [][ArchiveNext]_archiveVars

-----------------------------------------------------------------------------
(* Properties.                                                             *)

Content(f) == f = NoCopy \/ \A i \in 1 .. Len(f) : f[i].state \in 1 .. Len(stamps) /\ (i < Len(f) => f[i].end = "line")

LastWrite(f) == IF Records(f) = <<>> THEN 0 ELSE Last(Records(f)).state

\* Whatever copy of the log a recovery from an archive finds, grown, compacted,
\* cut short or of another archive, it recovers all the writes the archived log
\* had and no other, or refuses; unless the file it verified is written again
\* before it is loaded.
RecoveredIsArchived ==
  \A p \in Recoverers :
    rec[p].pc = "done" /\ rec[p].limit.by = "none" /\ ~rec[p].touched =>
      rec[p].loaded = LastWrite(rec[p].wal)

\* A recovery to a point in time has none of the writes made after it, and, where
\* the log was not compacted after it, all that were made by then and are in the log.
RecoveredAsOf ==
  \A p \in Recoverers :
    LET f    == rec[p].wal
        made == Cardinality({w \in 1 .. LastWrite(f) : stamps[w] <= rec[p].limit.n})
    IN  rec[p].pc = "done" /\ rec[p].limit.by = "time" /\ ~rec[p].touched =>
          /\ rec[p].loaded <= made
          /\ (\A i \in 1 .. Len(f) : f[i].kind = "checkpoint" => f[i].ts <= rec[p].limit.n) =>
               rec[p].loaded = made

\* An archive command that reports success, after however many lost or repeated
\* requests, leaves at its target the log of its manifest and that manifest,
\* unless the log was written while it ran or a request of an earlier command,
\* given up on, lands after its own.
AcknowledgedIsStored ==
  arch.pc = "done" /\ arch.kind # "none" /\ arch.body = arch.wal /\ ~arch.late =>
    target[arch.kind] = [wal |-> manifest.wal, manifest |-> manifest]
=============================================================================
