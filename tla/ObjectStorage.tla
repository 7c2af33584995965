--------------------------- MODULE ObjectStorage ---------------------------
(* Objects whose contents live at an S3 provider and whose metadata live in  *)
(* the project's database. Every write is authorized, reserved in the        *)
(* gateway's memory and then in the database, done by the client against a   *)
(* signed URL, verified at the provider and committed; what is released or   *)
(* runs out is queued for deletion. Each of these is a step of its own: an   *)
(* answer can be lost after its effect, and a client can use its URL at any  *)
(* time before it expires. An upload id is identified with the provider key  *)
(* it belongs to, which is fresh for every upload.                           *)
EXTENDS Naturals, FiniteSets, FiniteSetsExt

CONSTANTS Objects,     \* logical keys
          Nonces,      \* reservations, one for each authorization
          Blobs,       \* provider keys
          Sizes,
          Quota,       \* project_quota_bytes
          MaxPending,  \* max_pending_reservations
          Cleaners,    \* calls of the cleanup endpoint
          MaxTries,    \* MAX_CLEANUP_ATTEMPTS
          NoBlob

ASSUME ObjectStorageAssumption ==
  /\ Sizes \subseteq Nat /\ {Quota, MaxPending, MaxTries} \subseteq Nat /\ NoBlob \notin Blobs
  /\ IsFiniteSet(Objects) /\ IsFiniteSet(Nonces)

VARIABLES
  objects,  \* storage_objects with their provider keys
  uploads,  \* storage_uploads with their provider bindings
  reserved, \* __ffdb_storage_reservations
  receipts, \* __ffdb_storage_commit_receipts
  cleanup,  \* __ffdb_storage_provider_cleanup
  grants,   \* what each nonce was authorized for, and how far its client is
  local,    \* the gateway's reservations
  cleaners, \* running cleanups
  blobs,    \* provider: objects
  open,     \* provider: multipart uploads in progress
  strays,   \* provider keys written through a URL whose reservation was gone
  erased    \* provider keys deleted through a signed URL

storageVars == <<objects, uploads, reserved, receipts, cleanup, grants, local, cleaners, blobs, open, strays, erased>>

NoObject == [blob |-> NoBlob, size |-> 0]
NoUpload == [key |-> NoBlob, old |-> NoBlob, size |-> 0, parts |-> 0, over |-> 0]
NoGrant == [op |-> "none", key |-> NoBlob, blob |-> NoBlob, old |-> NoBlob, size |-> 0, bytes |-> 0,
            used |-> 0, step |-> "none", over |-> 0]
NoCleaner == [todo |-> {}, done |-> {}, failed |-> {}]

StorageInit ==
  /\ objects = [k \in Objects |-> NoObject] /\ uploads = [b \in Blobs |-> NoUpload]
  /\ reserved = {} /\ receipts = {} /\ cleanup = {} /\ local = {}
  /\ grants = [n \in Nonces |-> NoGrant] /\ cleaners = [c \in Cleaners |-> NoCleaner]
  /\ blobs = {} /\ open = {} /\ strays = {} /\ erased = {}

SizeSum(stored) == MapThenSumSet(LAMBDA k : stored[k].size, Objects)
ByteSum(granted, ns) == MapThenSumSet(LAMBDA n : granted[n].bytes, ns)
Used == SizeSum(objects)
Live(ns) == {n \in ns : grants[n].over = 0}
Bytes(ns) == ByteSum(grants, ns)
Fresh(b) == \A n \in Nonces : grants[n].blob # b
Beyond(size, have) == IF size > have THEN size - have ELSE 0
Step(n, step) == grants' = [grants EXCEPT ![n].step = step]
At(n, step) == grants[n].step = step
Metadata == <<objects, uploads, receipts>>
Provider == <<blobs, open, strays, erased>>

Granted(n, g) ==
  /\ grants[n] = NoGrant
  /\ grants' = [grants EXCEPT ![n] = [g EXCEPT !.used = Used, !.step = "authorized"]]
  /\ UNCHANGED <<Metadata, Provider, reserved, cleanup, local, cleaners>>

\* authorize_sync for an upload: a fresh provider key, and the object that it
\* will replace.
AuthorizeUpload(n, k, size, b) ==
  /\ Fresh(b)
  /\ Granted(n, [NoGrant EXCEPT !.op = "upload", !.key = k, !.blob = b, !.old = objects[k].blob, !.size = size,
                   !.bytes = Beyond(size, objects[k].size)])

\* ... for a new multipart upload, which reserves nothing.
AuthorizeCreate(n, k, size, b) ==
  /\ Fresh(b)
  /\ Granted(n, [NoGrant EXCEPT !.op = "create", !.key = k, !.blob = b, !.old = objects[k].blob, !.size = size])

\* ... for a deletion.
AuthorizeDelete(n, k) ==
  /\ objects[k] # NoObject
  /\ Granted(n, [NoGrant EXCEPT !.op = "delete", !.key = k, !.blob = objects[k].blob, !.old = objects[k].blob])

\* load_upload, verify_upload_provider: the upload is still there.
InProgress(b) == uploads[b] # NoUpload

\* ... for the parts, the completion or the end of an upload in progress. A
\* completion must find the object the upload was started over.
AuthorizeMultipart(n, op, b) ==
  /\ op \in {"part", "complete", "abort"} /\ InProgress(b)
  /\ op = "complete" => objects[uploads[b].key].blob = uploads[b].old
  /\ Granted(n, [NoGrant EXCEPT !.op = op, !.key = uploads[b].key, !.blob = b, !.old = uploads[b].old,
                   !.size = uploads[b].size,
                   !.bytes = IF op = "complete" THEN Beyond(uploads[b].size, objects[uploads[b].key].size) ELSE 0])

\* authorize_with_nonce: the gateway's own ledger, with the usage that was read.
Hold(n) ==
  /\ At(n, "authorized") /\ grants[n].over = 0
  /\ LET fits == /\ Cardinality(Live(local)) < MaxPending
                 /\ grants[n].used + Bytes(Live(local)) + grants[n].bytes <= Quota
     IN IF grants[n].bytes > 0 /\ ~fits THEN Step(n, "refused") /\ local' = local
        ELSE Step(n, "held") /\ local' = Live(local) \cup (IF grants[n].bytes > 0 THEN {n} ELSE {})
  /\ UNCHANGED <<Metadata, Provider, reserved, cleanup, cleaners>>

\* Mutant: pending reservations are not counted.
RoomIgnoring(n) == Used + grants[n].bytes <= Quota

\* storage_reserve: what is stored and what is reserved, in one transaction.
Room(n) == Used + Bytes(Live(reserved)) + grants[n].bytes <= Quota

\* The reservation is stored, or refused; the answer of one that was stored
\* can be lost, and then the client has no grant.
Reserve(n) ==
  /\ At(n, "held") /\ grants[n].over = 0
  /\ \/ Room(n) /\ reserved' = reserved \cup {n} /\ Step(n, "granted") /\ local' = local
     \/ Room(n) /\ reserved' = reserved \cup {n} /\ Step(n, "refused") /\ local' = local \ {n}
     \/ ~Room(n) /\ reserved' = reserved /\ Step(n, "refused") /\ local' = local \ {n}
  /\ UNCHANGED <<Metadata, Provider, cleanup, cleaners>>

\* presign: the URL of a grant works until the grant expires.
Signed(n, op) == grants[n].op = op /\ grants[n].over = 0 /\ grants[n].step \notin {"none", "authorized", "held", "refused"}

Stray(n) == strays' = IF n \in reserved THEN strays ELSE strays \cup {grants[n].blob}

\* The client's requests to the provider.
Put(n) ==
  /\ Signed(n, "upload") /\ grants[n].blob \notin blobs
  /\ blobs' = blobs \cup {grants[n].blob} /\ Stray(n)
  /\ UNCHANGED <<Metadata, reserved, cleanup, grants, local, cleaners, open, erased>>

Erase(n) ==
  /\ Signed(n, "delete") /\ grants[n].blob \in blobs
  /\ blobs' = blobs \ {grants[n].blob} /\ erased' = erased \cup {grants[n].blob}
  /\ UNCHANGED <<Metadata, reserved, cleanup, grants, local, cleaners, open, strays>>

CompleteParts(n) ==
  /\ Signed(n, "complete") /\ grants[n].blob \in open /\ uploads[grants[n].blob].parts = 1
  /\ open' = open \ {grants[n].blob} /\ blobs' = blobs \cup {grants[n].blob} /\ Stray(n)
  /\ UNCHANGED <<Metadata, reserved, cleanup, grants, local, cleaners, erased>>

AbortParts(n) ==
  /\ Signed(n, "abort") /\ grants[n].blob \in open
  /\ open' = open \ {grants[n].blob}
  /\ UNCHANGED <<Metadata, reserved, cleanup, grants, local, cleaners, blobs, strays, erased>>

\* recover_multipart_for_key_internal: an upload of the key that is already in
\* progress is used again.
OpenUpload(b) == open' = open \cup {b}

\* initiate_multipart_and_commit, before the commit.
Initiate(n) ==
  /\ At(n, "granted") /\ grants[n].op = "create" /\ grants[n].over = 0 /\ n \notin receipts
  /\ OpenUpload(grants[n].blob) /\ Step(n, "verified")
  /\ UNCHANGED <<Metadata, reserved, cleanup, local, cleaners, blobs, strays, erased>>

\* inspect_object: what the provider says of the key.
Inspected(n) ==
  \/ grants[n].op \in {"upload", "complete"} /\ grants[n].blob \in blobs
  \/ grants[n].op = "delete" /\ grants[n].blob \notin blobs

\* verify_provider_and_commit, before the commit.
Verify(n) ==
  /\ At(n, "granted") /\ grants[n].over = 0 /\ Inspected(n)
  /\ Step(n, "verified")
  /\ UNCHANGED <<Metadata, Provider, reserved, cleanup, local, cleaners>>

\* commit_multipart_stage: of parts and aborts the provider is not asked.
VerifyStage(n) ==
  /\ At(n, "granted") /\ grants[n].over = 0 /\ grants[n].op \in {"part", "abort"}
  /\ Step(n, "verified")
  /\ UNCHANGED <<Metadata, Provider, reserved, cleanup, local, cleaners>>

Item(from, kind, b) == [from |-> from, kind |-> kind, blob |-> b, tries |-> 0, leased |-> 0]

\* cleanup_target_present and the provider call the cleanup makes for it.
ItemsFor(n) ==
  CASE grants[n].op \in {"upload", "complete"} -> {Item(n, "blob", grants[n].blob)}
    [] grants[n].op \in {"create", "part", "abort"} -> {Item(n, "multipart", grants[n].blob)}
    [] OTHER -> {}

\* verify_replacement_state.
Unreplaced(n) == objects[grants[n].key].blob = grants[n].old

\* Mutant: the object that was replaced is forgotten.
WriteObjectOnly(n) ==
  /\ Unreplaced(n)
  /\ objects' = [objects EXCEPT ![grants[n].key] = [blob |-> grants[n].blob, size |-> grants[n].size]]
  /\ cleanup' = cleanup

\* commit_object_upload: the object gets the new key, the old one is queued.
WriteObject(n) ==
  /\ Unreplaced(n)
  /\ objects' = [objects EXCEPT ![grants[n].key] = [blob |-> grants[n].blob, size |-> grants[n].size]]
  /\ cleanup' = cleanup \cup (IF grants[n].old = NoBlob THEN {} ELSE {Item(n, "blob", grants[n].old)})

CommitUpload(n) == grants[n].op = "upload" /\ WriteObject(n) /\ uploads' = uploads

CommitDelete(n) ==
  /\ grants[n].op = "delete" /\ Unreplaced(n)
  /\ objects' = [objects EXCEPT ![grants[n].key] = NoObject] /\ UNCHANGED <<uploads, cleanup>>

CommitCreate(n) ==
  /\ grants[n].op = "create" /\ Unreplaced(n)
  /\ uploads' = [uploads EXCEPT ![grants[n].blob] =
       [NoUpload EXCEPT !.key = grants[n].key, !.old = grants[n].old, !.size = grants[n].size]]
  /\ UNCHANGED <<objects, cleanup>>

CommitPart(n) ==
  /\ grants[n].op = "part" /\ InProgress(grants[n].blob)
  /\ uploads' = [uploads EXCEPT ![grants[n].blob].parts = 1] /\ UNCHANGED <<objects, cleanup>>

CommitComplete(n) ==
  /\ grants[n].op = "complete" /\ InProgress(grants[n].blob)
  /\ WriteObject(n) /\ uploads' = [uploads EXCEPT ![grants[n].blob] = NoUpload]

CommitAbort(n) ==
  /\ grants[n].op = "abort" /\ InProgress(grants[n].blob)
  /\ uploads' = [uploads EXCEPT ![grants[n].blob] = NoUpload] /\ UNCHANGED <<objects, cleanup>>

\* Mutant: the reservation stays.
ConsumeNothing(n) == n \in reserved /\ grants[n].over = 0 /\ reserved' = reserved

\* storage_consume_reservation.
Consume(n) == n \in reserved /\ grants[n].over = 0 /\ reserved' = reserved \ {n}

\* storage_record_commit_receipt.
Receipt(n) == receipts' = receipts \cup {n}

\* storage_commit_receipt: what was recorded for this nonce.
Receipted(n) == n \in receipts

\* release_local_reservation.
Forget(n) == local' = local \ {n}

\* The commit of a new multipart upload is not confirmed, and the upload is
\* aborted at the provider.
AbortCreated(n) == open' = IF grants[n].op = "create" THEN open \ {grants[n].blob} ELSE open

\* commit_sync: one transaction, whose answer may be lost.
Commit(n) ==
  /\ At(n, "verified") /\ ~Receipted(n) /\ Consume(n)
  /\ \/ CommitUpload(n) \/ CommitDelete(n) \/ CommitCreate(n)
     \/ CommitPart(n) \/ CommitComplete(n) \/ CommitAbort(n)
  /\ Receipt(n)
  /\ \/ Step(n, "committed") /\ Forget(n) /\ open' = open
     \/ Step(n, "granted") /\ AbortCreated(n) /\ local' = local
  /\ UNCHANGED <<cleaners, blobs, strays, erased>>

\* A commit that is refused, or does not reach the worker.
CommitFails(n) ==
  /\ At(n, "verified") /\ Step(n, "granted") /\ AbortCreated(n)
  /\ UNCHANGED <<Metadata, reserved, cleanup, local, cleaners, blobs, strays, erased>>

\* commit_metadata: a commit that is sent again is answered from its receipt,
\* for a new multipart upload before the provider is asked for one.
Replay(n) ==
  /\ At(n, "verified") \/ (At(n, "granted") /\ grants[n].op = "create")
  /\ Receipted(n) /\ grants[n].over = 0
  /\ Step(n, "committed") /\ Forget(n)
  /\ UNCHANGED <<Metadata, Provider, reserved, cleanup, cleaners>>

\* storage_release_reservation_bound: the row goes, and what the client may
\* have written is queued.
Unreserve(n) ==
  /\ n \in reserved /\ grants[n].over = 0
  /\ reserved' = reserved \ {n} /\ cleanup' = cleanup \cup ItemsFor(n)

\* release_reservation, also while a commit of the same grant is under way.
Release(n) ==
  /\ At(n, "granted") \/ At(n, "verified")
  /\ Unreserve(n) /\ Step(n, "released") /\ Forget(n)
  /\ UNCHANGED <<Metadata, Provider, cleaners>>

\* Time: a grant expires, and an upload in progress.
Expire(n) ==
  /\ grants[n] # NoGrant /\ grants[n].over = 0
  /\ grants' = [grants EXCEPT ![n].over = 1]
  /\ UNCHANGED <<Metadata, Provider, reserved, cleanup, local, cleaners>>

ExpireUpload(b) ==
  /\ uploads[b] # NoUpload /\ uploads[b].over = 0
  /\ uploads' = [uploads EXCEPT ![b].over = 1]
  /\ UNCHANGED <<Provider, objects, receipts, reserved, cleanup, grants, local, cleaners>>

\* storage_prepare_expired_cleanup: the items of expired reservations and
\* uploads.
Prepared ==
  cleanup \cup (UNION {ItemsFor(n) : n \in reserved \ Live(reserved)})
          \cup {Item(NoBlob, "multipart", b) : b \in {x \in Blobs : uploads[x].over = 1}}

\* Mutant: attempts are not limited.
ClaimAlways(i) == i.leased = 0

Claimable(i) == i.leased = 0 /\ i.tries < MaxTries

\* cleanup_claim_sync: expired rows become items, and items are leased.
ClaimCleanup(c) ==
  /\ cleaners[c] = NoCleaner
  /\ \E i \in Prepared : Claimable(i)
  /\ LET claimed == {[i EXCEPT !.tries = @ + 1, !.leased = 1] : i \in {x \in Prepared : Claimable(x)}}
     IN /\ cleanup' = {i \in Prepared : ~Claimable(i)} \cup claimed
        /\ cleaners' = [cleaners EXCEPT ![c] = [NoCleaner EXCEPT !.todo = claimed]]
  /\ reserved' = Live(reserved)
  /\ uploads' = [b \in Blobs |-> IF uploads[b].over = 1 THEN NoUpload ELSE uploads[b]]
  /\ UNCHANGED <<Provider, objects, receipts, grants, local>>

DeleteInternal(i) == blobs' = IF i.kind = "blob" THEN blobs \ {i.blob} ELSE blobs
AbortInternal(i) == open' = IF i.kind = "multipart" THEN open \ {i.blob} ELSE open

\* The provider deletes the object or aborts the upload, or does not.
CleanItem(c) ==
  /\ \E i \in cleaners[c].todo :
       \/ /\ DeleteInternal(i) /\ AbortInternal(i)
          /\ cleaners' = [cleaners EXCEPT ![c].todo = @ \ {i}, ![c].done = @ \cup {i}]
       \/ /\ cleaners' = [cleaners EXCEPT ![c].todo = @ \ {i}, ![c].failed = @ \cup {i}]
          /\ UNCHANGED <<blobs, open>>
  /\ UNCHANGED <<Metadata, reserved, cleanup, grants, local, strays, erased>>

\* cleanup_ack_sync: all items or none. An item whose lease went to another
\* cleanup fails the whole acknowledgement.
AckCleanup(c) ==
  /\ cleaners[c] # NoCleaner /\ cleaners[c].todo = {}
  /\ cleanup' = IF cleaners[c].done \cup cleaners[c].failed \subseteq cleanup
                THEN (cleanup \ (cleaners[c].done \cup cleaners[c].failed))
                       \cup {[i EXCEPT !.leased = 0] : i \in cleaners[c].failed}
                ELSE cleanup
  /\ cleaners' = [cleaners EXCEPT ![c] = NoCleaner]
  /\ UNCHANGED <<Metadata, Provider, reserved, grants, local>>

LeaseLapses(i) ==
  /\ i.leased = 1 /\ cleanup' = (cleanup \ {i}) \cup {[i EXCEPT !.leased = 0]}
  /\ UNCHANGED <<Metadata, Provider, reserved, grants, local, cleaners>>

CleanerStops(c) ==
  /\ cleaners[c] # NoCleaner /\ cleaners' = [cleaners EXCEPT ![c] = NoCleaner]
  /\ UNCHANGED <<Metadata, Provider, reserved, cleanup, grants, local>>

\* The gateway's process restarts: its ledger is empty.
GatewayRestarts ==
  /\ local # {} /\ local' = {}
  /\ grants' = [n \in Nonces |-> IF grants[n].step \in {"authorized", "held"} THEN [grants[n] EXCEPT !.step = "refused"]
                                 ELSE IF At(n, "verified") THEN [grants[n] EXCEPT !.step = "granted"] ELSE grants[n]]
  /\ UNCHANGED <<Metadata, Provider, reserved, cleanup, cleaners>>

StorageNext ==
  \/ \E n \in Nonces, k \in Objects :
       \/ \E size \in Sizes, b \in Blobs : AuthorizeUpload(n, k, size, b) \/ AuthorizeCreate(n, k, size, b)
       \/ AuthorizeDelete(n, k)
  \/ \E n \in Nonces, op \in {"part", "complete", "abort"}, b \in Blobs : AuthorizeMultipart(n, op, b)
  \/ \E n \in Nonces :
       \/ Hold(n) \/ Reserve(n) \/ Put(n) \/ Erase(n) \/ CompleteParts(n) \/ AbortParts(n)
       \/ Initiate(n) \/ Verify(n) \/ VerifyStage(n) \/ Commit(n) \/ CommitFails(n) \/ Replay(n) \/ Release(n) \/ Expire(n)
  \/ \E b \in Blobs : ExpireUpload(b)
  \/ \E c \in Cleaners : ClaimCleanup(c) \/ CleanItem(c) \/ AckCleanup(c) \/ CleanerStops(c)
  \/ \E i \in cleanup : LeaseLapses(i)
  \/ GatewayRestarts

StorageSpec == StorageInit /\ [][StorageNext]_storageVars

StorageTypeOK ==
  /\ objects \in [Objects -> [blob : Blobs \cup {NoBlob}, size : Sizes \cup {0}]]
  /\ uploads \in [Blobs -> [key : Objects \cup {NoBlob}, old : Blobs \cup {NoBlob}, size : Sizes \cup {0},
                            parts : {0, 1}, over : {0, 1}]]
  /\ reserved \subseteq Nonces /\ receipts \subseteq Nonces /\ local \subseteq Nonces
  /\ cleanup \subseteq [from : Nonces \cup {NoBlob}, kind : {"blob", "multipart"}, blob : Blobs,
                        tries : 0..MaxTries, leased : {0, 1}]
  /\ blobs \subseteq Blobs /\ open \subseteq Blobs /\ strays \subseteq Blobs /\ erased \subseteq Blobs

\* What is stored and what is reserved never exceed the quota, however many
\* uploads, replacements and completions are authorized at the same time on
\* usage that was read earlier.
StoredWithinQuota == Used + Bytes(Live(reserved)) <= Quota

\* The provider holds nothing the project has lost track of: an object there
\* is some object's contents, or is waiting for a commit or for its deletion.
\* Excepted is what a client writes through a URL it has already released or
\* committed.
BlobsAccounted ==
  \A b \in blobs \ strays :
    \/ \E k \in Objects : objects[k].blob = b
    \/ \E n \in reserved : grants[n].blob = b /\ grants[n].op \in {"upload", "complete"}
    \/ \E i \in cleanup : i.kind = "blob" /\ i.blob = b

\* An object's contents are there: no cleanup, lapsed lease or replayed
\* request deletes what a commit made visible. Excepted are contents whose
\* deletion a client has begun, and uploads completed under two grants.
ObjectsKept ==
  \A k \in Objects : objects[k].blob \in blobs \cup erased \cup {NoBlob}
    \/ Cardinality({n \in Nonces : grants[n].op = "complete" /\ grants[n].blob = objects[k].blob}) > 1

\* Counterexample property: the same without the second exception. The
\* reservation of a second completion runs out, and its cleanup deletes the
\* provider key the first one committed.
ObjectsReadable == \A k \in Objects : objects[k].blob \in blobs \cup erased \cup {NoBlob}

\* However uploads, deletions, lost answers and retried clean-ups interleave,
\* what a project stores stays within its quota, every blob of the provider
\* belongs to an object or is known to be removed, and a committed object
\* stays until it is deleted (reserve, commit, cleanup).
StorageAccounted == StorageTypeOK /\ StoredWithinQuota /\ BlobsAccounted /\ ObjectsKept
=============================================================================
