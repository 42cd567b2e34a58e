------------------------------- MODULE Recovery -------------------------------
(***************************************************************************)
(* The recovery pipeline over the backups of SnapshotContent: find the     *)
(* manifest, walk its chain, download, delete, verify, and leave a marker, *)
(* while the owner may anchor further backups.  One restore runs at a      *)
(* time; restores follow one another into the same directory.              *)
(***************************************************************************)
EXTENDS SnapshotContent

CONSTANTS
    RecoveryFile, \* RECOVERY_CONTEXT.md, written by autoRestore(); FILE_RULES
                  \* make it one of the files of a backup, too
    MyKeys,       \* keys the operator of the target host may give
    Registering,  \* whether anchorBackup() is given a cidResolver
    MaxRestores   \* bound: restores begun

ASSUME RecoveryAssumption ==
    /\ RecoveryFile \in Files \ {ContextFile}
    /\ MyKeys \subseteq Keys
    /\ Registering \in BOOLEAN
    /\ MaxRestores \in Nat

VARIABLES
    localIndex,   \* cid-index.json of the target host: manifests it resolves
    mfsMap,       \* cid-map.json in MFS
    registering,  \* the manifest the backup is registering in mfsMap, or 0
    target,       \* target[f]: what the target directory holds, which need
                  \* not be empty at first
    restores,     \* restores begun so far
    at,           \* where the restore is
    wanted,       \* the manifest asked for, 0 as long as it is not resolved
    chain,        \* manifests resolved, oldest first
    step,         \* position in the chain of the manifest being applied
    left,         \* files of that step still to handle
    errors,       \* files of which a download failed, in any manifest
    kept,         \* history: files that could not be deleted
    myKey,        \* privateKeyOrPassword
    anchorCheck,  \* anchorCheckReason
    merkleVerified,
    auto,         \* whether autoRestore() runs, or restoreFromManifestCid() alone
    marker        \* restore-complete.json: manifest, merkleVerified, and whether
                  \* RECOVERY_CONTEXT.md was written

restoreVars == <<restores, at, wanted, chain, step, left, errors, kept, myKey,
                 anchorCheck, merkleVerified, auto, marker>>
rvars == <<localIndex, mfsMap, registering, target, restoreVars>>
vars == <<content, rvars>>

(* What injectRecoveryContext() writes, in full or cut off. *)
RecoveryNote == <<"note", 0>>

NoMarker == [manifest |-> 0, verified |-> FALSE, context |-> FALSE]
Backups == DOMAIN manifests

Stages == {"idle", "lookup", "mfs", "resolve", "anchor", "download", "delete",
           "context", "marker", "done", "unresolved", "failed"}

TypeOK ==
    /\ ContentTypeOK
    /\ localIndex \subseteq Backups
    /\ mfsMap \subseteq Backups
    /\ registering \in {0} \cup Backups
    /\ target \in [Files -> Bytes \cup {RecoveryNote}]
    /\ restores \in 0..MaxRestores
    /\ at \in Stages
    /\ wanted \in {0} \cup Backups
    /\ chain \in Seq(Backups)
    /\ step \in 0..Len(chain)
    /\ left \subseteq Files
    /\ errors \subseteq Files
    /\ kept \subseteq Files
    /\ myKey \in Keys
    /\ anchorCheck \in {"none", "verified", "manifest_not_latest_on_chain",
                        "verification_unavailable"}
    /\ merkleVerified \in BOOLEAN
    /\ auto \in BOOLEAN
    /\ marker \in [manifest : {0} \cup Backups, verified : BOOLEAN, context : BOOLEAN]

Init ==
    /\ ContentInit
    /\ localIndex = {}
    /\ mfsMap = {}
    /\ registering = 0
    /\ \E b \in {Gone} \cup ({"raw"} \X Contents) :
        target = [f \in Files |-> IF f = ContextFile THEN Gone ELSE b]
    /\ restores = 0
    /\ at = "idle"
    /\ wanted = 0
    /\ chain = <<>>
    /\ step = 0
    /\ left = {}
    /\ errors = {}
    /\ kept = {}
    /\ myKey \in MyKeys
    /\ anchorCheck = "none"
    /\ merkleVerified = FALSE
    /\ auto = FALSE
    /\ marker = NoMarker

(***************************************************************************)
(* Registration of CIDs by the backup.                                     *)
(***************************************************************************)

(* anchorBackup() registers the manifest with its resolver, if it has one. *)
(* The index it writes first is that of the backup's own host.             *)
AnchorBackup(known) ==
    /\ registering = 0
    /\ Anchor(known)
    /\ registering' = IF Registering /\ known THEN Len(manifests) + 1 ELSE 0
    /\ UNCHANGED <<localIndex, mfsMap, target, restoreVars>>

(* updateMfsCidMap() writes the map that it has read with the new entry.   *)
(* A map that cannot be read or parsed counts as empty, and is overwritten *)
(* with the new entry alone.                                               *)
UpdateMfsCidMap(read) ==
    /\ registering # 0
    /\ mfsMap' = (IF read THEN mfsMap ELSE {}) \cup {registering}
    /\ registering' = 0
    /\ UNCHANGED <<content, localIndex, target, restoreVars>>

(* The directory cannot be made or the map not written: not fatal. *)
UpdateMfsCidMapFails ==
    /\ registering # 0
    /\ registering' = 0
    /\ UNCHANGED <<content, localIndex, mfsMap, target, restoreVars>>

(***************************************************************************)
(* Finding the manifest.                                                   *)
(***************************************************************************)

Ended == {"idle", "done", "unresolved", "failed"}

Begun(m, k) ==
    /\ at \in Ended
    /\ restores < MaxRestores
    /\ restores' = restores + 1
    /\ wanted' = m
    /\ chain' = <<>>
    /\ step' = 0
    /\ left' = {}
    /\ errors' = {}
    /\ kept' = {}
    /\ myKey' = k
    /\ anchorCheck' = "none"
    /\ merkleVerified' = FALSE
    /\ UNCHANGED <<content, localIndex, mfsMap, registering, target, marker>>

(* RecoveryManager.restore() of a manifest the operator names, or the      *)
(* recovery package does.                                                  *)
RestoreFromManifestCid(m, k) ==
    /\ m \in Backups
    /\ Begun(m, k)
    /\ auto' = FALSE
    /\ at' = "resolve"

(* autoRestore(): the soul is looked up and has backups. *)
RestoreFromChain(k) ==
    /\ manifests # <<>>
    /\ Begun(0, k)
    /\ auto' = TRUE
    /\ at' = "lookup"

RestoreKeeps == UNCHANGED <<content, registering, restores, myKey, auto>>

(* getLatestBackup(), and CidResolver.resolve(): the local index ... *)
ResolveLocally ==
    /\ at = "lookup"
    /\ wanted' = Len(manifests)
    /\ at' = IF Len(manifests) \in localIndex THEN "resolve" ELSE "mfs"
    /\ UNCHANGED <<localIndex, mfsMap, target, chain, step, left, errors, kept,
                   anchorCheck, merkleVerified, marker>>
    /\ RestoreKeeps

resolveFromMfs(m) == m \in mfsMap
cacheLocally(m) == localIndex' = localIndex \cup {m}

(* ... then the map in MFS, whose answer is kept in the local index.  No   *)
(* caller configures the third layer, the CidRegistry contract.            *)
ResolveFromMfs ==
    /\ at = "mfs"
    /\ IF resolveFromMfs(wanted) THEN at' = "resolve" /\ cacheLocally(wanted)
       ELSE at' = "unresolved" /\ UNCHANGED localIndex
    /\ UNCHANGED <<mfsMap, target, wanted, chain, step, left, errors, kept,
                   anchorCheck, merkleVerified, marker>>
    /\ RestoreKeeps

(***************************************************************************)
(* restoreFromManifestCid().                                               *)
(***************************************************************************)

(* resolveChainFromCid() prepends the next manifest; parents come from the *)
(* manifests themselves.                                                   *)
NextManifest == IF chain = <<>> THEN wanted ELSE manifests[chain[1]].parent

ResolveManifest ==
    /\ at = "resolve"
    /\ NextManifest # 0
    /\ chain' = <<NextManifest>> \o chain
    /\ UNCHANGED <<localIndex, mfsMap, target, at, wanted, step, left, errors, kept,
                   anchorCheck, merkleVerified, marker>>
    /\ RestoreKeeps

Latest == manifests[chain[Len(chain)]]
FilesOf(m) == {f \in Files : manifests[m].files[f] # NoEntry}

(* The chain is complete and its Merkle roots are recomputed: each is that *)
(* of the entries, since IPFS returns what the CID names.                  *)
ChainResolved ==
    /\ at = "resolve"
    /\ chain # <<>>
    /\ NextManifest = 0
    /\ at' = "anchor"
    /\ UNCHANGED <<localIndex, mfsMap, target, wanted, chain, step, left, errors, kept,
                   anchorCheck, merkleVerified, marker>>
    /\ RestoreKeeps

BeginDownload ==
    /\ at' = "download"
    /\ step' = 1
    /\ left' = FilesOf(chain[1])
    /\ UNCHANGED <<localIndex, mfsMap, target, wanted, chain, errors, kept,
                   merkleVerified, marker>>
    /\ RestoreKeeps

(* The anchor of the contract's newest backup, which may have changed      *)
(* since the manifest was looked up.                                       *)
CheckAnchor ==
    /\ at = "anchor"
    /\ anchorCheck' = IF wanted = Len(manifests) THEN "verified"
                      ELSE "manifest_not_latest_on_chain"
    /\ BeginDownload

(* The node does not answer: the restore goes on all the same. *)
AnchorUnavailable ==
    /\ at = "anchor"
    /\ anchorCheck' = "verification_unavailable"
    /\ BeginDownload

(* downloadManifestFiles(): one file of the manifest at "step" is written. *)
CanDecrypt(e) == e.key \in {Plain, myKey}

DownloadFile ==
    LET f == First(left)
        e == manifests[chain[step]].files[f]
    IN
    /\ at = "download"
    /\ left # {}
    /\ CanDecrypt(e)
    /\ target' = [target EXCEPT ![f] = e.blob]
    /\ left' = left \ {f}
    /\ UNCHANGED <<localIndex, mfsMap, at, wanted, chain, step, errors, kept, anchorCheck,
                   merkleVerified, marker>>
    /\ RestoreKeeps

(* It cannot be fetched, decrypted or written: noted, and passed over. *)
DownloadFails ==
    /\ at = "download"
    /\ left # {}
    /\ errors' = errors \cup {First(left)}
    /\ left' = left \ {First(left)}
    /\ UNCHANGED <<localIndex, mfsMap, target, at, wanted, chain, step, kept, anchorCheck,
                   merkleVerified, marker>>
    /\ RestoreKeeps

(* Files written from any manifest of the chain that the last one lacks. *)
Obsolete == (UNION {FilesOf(chain[i]) : i \in DOMAIN chain}) \ FilesOf(chain[Len(chain)])

(* applyManifestChain() goes on to the next manifest, or to the deletions. *)
NextStep ==
    /\ at = "download"
    /\ left = {}
    /\ IF step < Len(chain)
       THEN step' = step + 1 /\ left' = FilesOf(chain[step + 1]) /\ UNCHANGED at
       ELSE at' = "delete" /\ left' = Obsolete /\ UNCHANGED step
    /\ UNCHANGED <<localIndex, mfsMap, target, wanted, chain, errors, kept, anchorCheck,
                   merkleVerified, marker>>
    /\ RestoreKeeps

(* unlink(), whose failure is ignored. *)
DeleteFile(deleted) ==
    /\ at = "delete"
    /\ left # {}
    /\ target' = IF deleted THEN [target EXCEPT ![First(left)] = Gone] ELSE target
    /\ kept' = IF deleted THEN kept ELSE kept \cup {First(left)}
    /\ left' = left \ {First(left)}
    /\ UNCHANGED <<localIndex, mfsMap, at, wanted, chain, step, errors, anchorCheck,
                   merkleVerified, marker>>
    /\ RestoreKeeps

(* verifyRestoredFiles() against the last manifest. *)
VerifyRestoredFiles ==
    /\ at = "delete"
    /\ left = {}
    /\ merkleVerified' =
        \A f \in FilesOf(chain[Len(chain)]) : target[f] = Latest.files[f].hash
    /\ at' = IF auto THEN "context" ELSE "done"
    /\ UNCHANGED <<localIndex, mfsMap, target, wanted, chain, step, left, errors, kept,
                   anchorCheck, marker>>
    /\ RestoreKeeps

WriteRecoveryFile == target' = [target EXCEPT ![RecoveryFile] = RecoveryNote]

(* injectRecoveryContext() writes over whatever the restore has put there. *)
(* Its failure is not fatal, and may leave a file that is cut off.         *)
InjectRecoveryContext(written) ==
    /\ at = "context"
    /\ at' = "marker"
    /\ WriteRecoveryFile \/ (~written /\ UNCHANGED target)
    /\ marker' = [marker EXCEPT !.context = @ \/ written]
    /\ UNCHANGED <<localIndex, mfsMap, wanted, chain, step, left, errors, kept,
                   anchorCheck, merkleVerified>>
    /\ RestoreKeeps

(* writeRestoreMarker(): the marker says whether the files were verified,  *)
(* and an earlier one lies there until then.                               *)
WriteRestoreMarker ==
    /\ at = "marker"
    /\ at' = "done"
    /\ marker' = [marker EXCEPT !.manifest = wanted, !.verified = merkleVerified]
    /\ UNCHANGED <<localIndex, mfsMap, target, wanted, chain, step, left, errors, kept,
                   anchorCheck, merkleVerified>>
    /\ RestoreKeeps

(* The restore is given up: a manifest cannot be fetched, the node does    *)
(* not answer, the marker cannot be written; or the process ends.          *)
RestoreFails ==
    /\ at \notin Ended
    /\ at' = "failed"
    /\ UNCHANGED target \/ (at = "context" /\ WriteRecoveryFile)
    /\ UNCHANGED <<localIndex, mfsMap, wanted, chain, step, left, errors, kept,
                   anchorCheck, merkleVerified, marker>>
    /\ RestoreKeeps

RestoreStep ==
    \/ ResolveLocally
    \/ ResolveFromMfs
    \/ ResolveManifest
    \/ ChainResolved
    \/ CheckAnchor
    \/ AnchorUnavailable
    \/ DownloadFile
    \/ DownloadFails
    \/ NextStep
    \/ \E deleted \in BOOLEAN : DeleteFile(deleted)
    \/ VerifyRestoredFiles
    \/ \E written \in BOOLEAN : InjectRecoveryContext(written)
    \/ WriteRestoreMarker

(* "backup restore" and soul-restore; and soul-auto-restore. *)
RestoreCommand(k) == \E m \in Backups : RestoreFromManifestCid(m, k)
AutoRestoreTool(k) == RestoreFromChain(k)

Next ==
    \/ ContentNext /\ UNCHANGED rvars
    \/ \E known \in BOOLEAN : AnchorBackup(known)
    \/ \E read \in BOOLEAN : UpdateMfsCidMap(read)
    \/ UpdateMfsCidMapFails
    \/ \E k \in MyKeys : RestoreCommand(k) \/ AutoRestoreTool(k)
    \/ RestoreStep
    \/ RestoreFails

Spec == Init /\ [][Next]_vars

(***************************************************************************)
(* Properties.                                                             *)
(***************************************************************************)

(* A database copied without its WAL may be older: see below. *)
WithoutWal(f, blob) == f \in Databases /\ blob[1] = "raw"

(* The file that autoRestore() writes after it has verified the others. *)
Rewritten(f) ==
    /\ f = RecoveryFile
    /\ auto /\ at \in {"marker", "done", "failed"}
    /\ target[f] = RecoveryNote

(* A restore that reports merkleVerified has given every file that its     *)
(* chain knows a content the agent had while the backup asked for ran, and *)
(* a file is left out only if the agent did not have it at some moment of  *)
(* that run: hashing, comparing, uploading and carrying over read the disk *)
(* at different moments, and chain, downloads and deletions at others.     *)
(* Only RECOVERY_CONTEXT.md is then replaced, by autoRestore(), although a *)
(* backup may hold one and the verification has counted it.                *)
VerifiedIsOneBackup ==
    merkleVerified =>
        /\ \A f \in FilesOf(wanted) :
            \/ Rewritten(f)
            \/ WithoutWal(f, target[f])
            \/ target[f] # Gone /\ target[f][2] \in lived[wanted][f]
        /\ \A f \in Obsolete \ kept :
            /\ target[f] = Gone \/ Rewritten(f)
            /\ 0 \in lived[wanted][f]

(* If no download of a file of the newest manifest failed, verification    *)
(* succeeds: what the uploader put into the manifest is the hash of what   *)
(* it put into IPFS, also for a file that changed after the scan.          *)
CleanRestoreVerifies ==
    at \in {"context", "marker", "done"} /\ errors \cap FilesOf(wanted) = {}
        => merkleVerified

(* A backup that is skipped has nothing to save: every file is in the      *)
(* previous manifest with a content it had during this run.                *)
SkippedIsSaved ==
    pc = "skipped" =>
        \A f \in Files :
            LET b == manifests[last].files[f].blob
            IN  WithoutWal(f, b) \/ b[2] \in seen[f]

(* USER_GUIDE.md:830: soul-auto-restore finds the newest CID by itself.    *)
AutoRestoreFindsBackup == at # "unresolved"
=============================================================================
