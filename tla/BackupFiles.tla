---------------------------- MODULE BackupFiles ----------------------------
(* The encrypted backup files of one database (database-worker:              *)
(* create_encrypted_backup, restore_encrypted_backup, backup_crypto.rs).     *)
(* A backup copies the database to a plaintext image in the transient        *)
(* directory, encrypts it chunk by chunk into a file of its own and renames  *)
(* that to the backup's name.  A restore decrypts to an image, saves the     *)
(* database under a recovery name and copies the image over it.  A worker    *)
(* may end at any step, a second worker of the database may open while the   *)
(* first is at work, and files at rest may be damaged or misfiled.           *)
(* The cipher is ideal: a chunk opens with the key, the place and the final  *)
(* flag it was sealed with.  A content is the sequence of its chunks.        *)
EXTENDS Naturals, Sequences, FiniteSets, SequencesExt

CONSTANTS
  BackupIds,    \* backup identifiers
  BackupWorkers,\* worker processes of the database
  Contents,     \* what the database may hold
  MaxHarm,      \* how often files are damaged, workers end and steps fail
  MaxWrites     \* how often the database is written

ASSUME BackupAssumption ==
  /\ Contents \subseteq Seq(Nat) \ {<<>>} /\ MaxHarm \in Nat /\ MaxWrites \in Nat
  /\ BackupIds \cap BackupWorkers = {}

VARIABLES
  live,       \* the content of the database
  files,      \* the backup root: files by name
  transient,  \* the workers whose plaintext image is in the transient directory
  job,        \* what each worker does
  taken,      \* ghost: what was backed up under a name, by one worker or by two
  harm, writes
backupVars == <<live, files, transient, job, taken, harm, writes>>

NoFile == [header |-> "none", chunks |-> <<>>]
NoJob == [stage |-> "idle", name |-> "none", image |-> <<>>, file |-> NoFile]
Down == [NoJob EXCEPT !.stage = "down"]
\* The name a worker saves the database under before it restores: a new one.
Names == BackupIds \cup BackupWorkers

Seal(name, body, counter, final) ==
  [key |-> name, body |-> body, counter |-> counter, final |-> final, flag |-> final, intact |-> "yes"]

\* Mutant: the place of a chunk is not authenticated.
OpensAnywhere(c, name, counter) == c.intact = "yes" /\ c.key = name /\ c.final = c.flag

\* A chunk opens with its key, its counter and the flag stored before it.
Opens(c, name, counter) ==
  c.intact = "yes" /\ c.key = name /\ c.counter = counter /\ c.final = c.flag

EncryptedFile(name, content) ==
  [header |-> "ok",
   chunks |-> [i \in DOMAIN content |->
                 Seal(name, content[i], i, IF i = Len(content) THEN "last" ELSE "more")]]
----------------------------------------------------------------------------
(* Backups.                                                                  *)
BeginBackup(w, b) ==
  /\ job[w] = NoJob /\ files[b] = NoFile
  /\ job' = [job EXCEPT ![w] = [NoJob EXCEPT !.stage = "copied", !.name = b, !.image = live]]
  /\ transient' = transient \cup {w}
  /\ UNCHANGED <<live, files, taken, harm, writes>>

\* The image is found by its name, the encrypted file by a name of its own.
OpenImage(w) ==
  /\ job[w].stage = "copied" /\ w \in transient
  /\ job' = [job EXCEPT ![w].stage = "encrypting", ![w].file = [header |-> "ok", chunks |-> <<>>]]
  /\ UNCHANGED <<live, files, transient, taken, harm, writes>>

EncryptChunk(w) ==
  LET j == job[w]
      i == Len(j.file.chunks) + 1
      final == IF i = Len(j.image) THEN "last" ELSE "more"
  IN  /\ j.stage = "encrypting"
      /\ job' = [job EXCEPT ![w].file.chunks = Append(@, Seal(j.name, j.image[i], i, final)),
                            ![w].stage = IF final = "last" THEN "encrypted" ELSE "encrypting"]
      /\ UNCHANGED <<live, files, transient, taken, harm, writes>>

\* rename replaces what is there; then the image is removed and the answer given.
PublishBackup(w) ==
  /\ job[w].stage = "encrypted"
  /\ files' = [files EXCEPT ![job[w].name] = job[w].file]
  /\ taken' = [taken EXCEPT ![job[w].name] = @ \cup {job[w].image}]
  /\ transient' = transient \ {w} /\ job' = [job EXCEPT ![w] = NoJob]
  /\ UNCHANGED <<live, harm, writes>>
----------------------------------------------------------------------------
(* Restores.                                                                 *)
BeginRestore(w, b) ==
  /\ job[w] = NoJob /\ files[b] # NoFile
  /\ files[w] = NoFile     \* a bound: one recovery file of each worker is kept
  /\ job' = [job EXCEPT ![w] = [NoJob EXCEPT !.stage = "decrypting", !.name = b, !.file = files[b]]]
  /\ transient' = transient \cup {w}
  /\ UNCHANGED <<live, files, taken, harm, writes>>

\* The chunk with the final flag is the last, and nothing follows it.
LastChunk(f, i) == f.chunks[i].flag = "last" /\ i = Len(f.chunks)

\* The next chunk of the file is there, opens, and is the last if it says so.
NextOpens(j) ==
  LET i == Len(j.image) + 1
  IN  /\ j.file.header = "ok" /\ i <= Len(j.file.chunks)
      /\ Opens(j.file.chunks[i], j.name, i)
      /\ LastChunk(j.file, i) \/ j.file.chunks[i].flag = "more"

DecryptChunk(w) ==
  LET j == job[w]
      i == Len(j.image) + 1
  IN  /\ j.stage = "decrypting" /\ NextOpens(j)
      /\ job' = [job EXCEPT ![w].image = Append(@, j.file.chunks[i].body),
                            ![w].stage = IF LastChunk(j.file, i) THEN "decrypted" ELSE "decrypting"]
      /\ UNCHANGED <<live, files, transient, taken, harm, writes>>

\* Mutant: the image of a file that is not valid stays.
InvalidCiphertext_keeps(w) ==
  /\ job[w].stage = "decrypting" /\ ~NextOpens(job[w])
  /\ job' = [job EXCEPT ![w] = NoJob]
  /\ UNCHANGED <<live, files, transient, taken, harm, writes>>

\* Any other file ends the restore, and its image is removed.
InvalidCiphertext(w) ==
  /\ job[w].stage = "decrypting" /\ ~NextOpens(job[w])
  /\ job' = [job EXCEPT ![w] = NoJob] /\ transient' = transient \ {w}
  /\ UNCHANGED <<live, files, taken, harm, writes>>

\* The receipt marker goes into the image, which is found by its name.
PrepareImage(w) ==
  /\ job[w].stage = "decrypted" /\ w \in transient
  /\ job' = [job EXCEPT ![w].stage = "prepared"]
  /\ UNCHANGED <<live, files, transient, taken, harm, writes>>

\* Mutant: without the recovery copy.
SkipRecovery(w) ==
  /\ job[w].stage = "prepared"
  /\ job' = [job EXCEPT ![w].stage = "saved"]
  /\ taken' = [taken EXCEPT ![w] = {live}]
  /\ UNCHANGED <<live, files, transient, harm, writes>>

\* The database is saved as any backup is, under a new name.
SaveRecovery(w) ==
  /\ job[w].stage = "prepared"
  /\ files' = [files EXCEPT ![w] = EncryptedFile(w, live)]
  /\ taken' = [taken EXCEPT ![w] = {live}]
  /\ job' = [job EXCEPT ![w].stage = "saved"]
  /\ UNCHANGED <<live, transient, harm, writes>>

\* The copy over the database is one transaction.
CopyImage(w) ==
  /\ job[w].stage = "saved" /\ w \in transient
  /\ live' = job[w].image /\ job' = [job EXCEPT ![w].stage = "restored"]
  /\ UNCHANGED <<files, transient, taken, harm, writes>>

\* The checks after the copy hold: the recovery copy is removed.
FinishRestore(w) ==
  /\ job[w].stage = "restored"
  /\ files' = [files EXCEPT ![w] = NoFile] /\ taken' = [taken EXCEPT ![w] = {}]
  /\ transient' = transient \ {w} /\ job' = [job EXCEPT ![w] = NoJob]
  /\ UNCHANGED <<live, harm, writes>>
----------------------------------------------------------------------------
(* What goes wrong.                                                          *)
\* The budget runs out, an image is not found or a step fails: the image and
\* the unfinished file are removed, the recovery copy stays.
StepFails(w) ==
  /\ job[w].stage \notin {"idle", "down"}
  /\ harm < MaxHarm \/ w \notin transient
  /\ harm' = IF w \in transient THEN harm + 1 ELSE harm
  /\ job' = [job EXCEPT ![w] = NoJob] /\ transient' = transient \ {w}
  /\ UNCHANGED <<live, files, taken, writes>>

\* The process ends where it is.
WorkerEnds(w) ==
  /\ harm < MaxHarm /\ job[w] # Down
  /\ job' = [job EXCEPT ![w] = Down] /\ harm' = harm + 1
  /\ UNCHANGED <<live, files, transient, taken, writes>>

\* A worker that opens the database clears its transient directory.
OpenWorker(w) ==
  /\ job[w] = Down
  /\ job' = [job EXCEPT ![w] = NoJob] /\ transient' = {}
  /\ UNCHANGED <<live, files, taken, harm, writes>>

Exchanged(s, m, n) == [s EXCEPT ![m] = s[n], ![n] = s[m]]

\* What may happen to a file at rest.
Damaged(f) ==
  {[f EXCEPT !.header = "damaged"]}
  \cup {[f EXCEPT !.chunks = SubSeq(@, 1, n)] : n \in 0..(Len(f.chunks) - 1)}
  \cup {[f EXCEPT !.chunks = Append(@, @[n])] : n \in DOMAIN f.chunks}
  \cup {[f EXCEPT !.chunks[n].intact = "no"] : n \in DOMAIN f.chunks}
  \cup {[f EXCEPT !.chunks[n].flag = IF @ = "last" THEN "more" ELSE "last"] : n \in DOMAIN f.chunks}
  \cup {[f EXCEPT !.chunks = Exchanged(@, m, n)] : m, n \in DOMAIN f.chunks}

DamageFile(b) ==
  /\ harm < MaxHarm /\ files[b] # NoFile /\ harm' = harm + 1
  /\ \/ \E f \in Damaged(files[b]) : files' = [files EXCEPT ![b] = f]
     \/ \E c \in BackupIds : files[c] # NoFile /\ files' = [files EXCEPT ![b] = files[c]]
  /\ UNCHANGED <<live, transient, job, taken, writes>>

\* The API admits no write while the database is restored (RestoreOperations).
WriteDatabase(c) ==
  /\ writes < MaxWrites /\ c # live
  /\ \A w \in BackupWorkers : job[w].stage \notin {"saved", "restored"}
  /\ live' = c /\ writes' = writes + 1
  /\ UNCHANGED <<files, transient, job, taken, harm>>
----------------------------------------------------------------------------
BackupInit ==
  /\ live \in Contents
  /\ files = [n \in Names |-> NoFile]
  /\ transient = {}
  /\ job = [w \in BackupWorkers |-> IF w = CHOOSE v \in BackupWorkers : TRUE THEN NoJob ELSE Down]
  /\ taken = [n \in Names |-> {}]
  /\ harm = 0 /\ writes = 0

BackupNext ==
  \/ \E w \in BackupWorkers :
       \/ \E b \in BackupIds : BeginBackup(w, b) \/ BeginRestore(w, b)
       \/ OpenImage(w) \/ EncryptChunk(w) \/ PublishBackup(w)
       \/ DecryptChunk(w) \/ InvalidCiphertext(w) \/ PrepareImage(w) \/ SaveRecovery(w)
       \/ CopyImage(w) \/ FinishRestore(w)
       \/ StepFails(w) \/ WorkerEnds(w) \/ OpenWorker(w)
  \/ \E b \in BackupIds : DamageFile(b)
  \/ \E c \in Contents : WriteDatabase(c)

BackupSpec == BackupInit /\ [][BackupNext]_backupVars
----------------------------------------------------------------------------
Stages == {"idle", "down", "copied", "encrypting", "encrypted", "decrypting", "decrypted",
           "prepared", "saved", "restored"}

BackupTypeOK ==
  /\ live \in Contents
  /\ transient \subseteq BackupWorkers
  /\ \A w \in BackupWorkers : job[w].stage \in Stages /\ job[w].name \in BackupIds \cup {"none"}
  /\ harm \in 0..MaxHarm /\ writes \in 0..MaxWrites

\* Whatever has happened to the files, an image that was decrypted to its end
\* is what the database held when a backup of that name was taken: not a part of it, not
\* another order, not another backup (decrypt_file).
DecryptedIsBackup ==
  \A w \in BackupWorkers :
    job[w].stage \in {"decrypted", "prepared", "saved", "restored"} => job[w].image \in taken[job[w].name]

\* A restore that has copied over the database and has not answered success,
\* be it that a check failed or that the worker ended, leaves what it replaced
\* under the recovery name (restore_encrypted_backup: "The encrypted
\* pre-restore snapshot remains under its recovery UUID").
RecoveryKept ==
  \A w \in BackupWorkers : \A c \in taken[w] : files[w] = EncryptedFile(w, c)

\* A worker that is not at work has left no plaintext image behind, except one
\* that ended in the middle, until the database is opened again
\* (remove_transient_database_files, cleanup_stale_transient_files).
PlaintextRemoved == \A w \in transient : job[w].stage # "idle"

\* What is restored is what was backed up, whatever has happened to the
\* files; the database that a restore replaces is kept until the restore has
\* succeeded; and no plaintext image outlives the work it was made for
\* (decrypt_file, restore_encrypted_backup, remove_transient_database_files).
BackupsSound == BackupTypeOK /\ DecryptedIsBackup /\ RecoveryKept /\ PlaintextRemoved
=============================================================================
