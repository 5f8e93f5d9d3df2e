-------------------------- MODULE EnvironmentImport --------------------------
(***************************************************************************)
(* The import of a registry environment into the workspace,                *)
(* resolve_batch_environment of src/python-sdk-v2/create_batch_deployment. *)
(* py, by several runs.  A run lists the blobs of the build context,       *)
(* downloads them one by one, looks whether the workspace already has the  *)
(* environment version, and creates it if not: three separate calls, while *)
(* the registry's storage and the workspace may change.  An image          *)
(* environment has nothing to download.                                    *)
(*                                                                         *)
(* External: the registry's storage, whose blobs are anyone's to replace   *)
(* who may write to it, and the workspace, where a version that exists is  *)
(* never replaced: a second create is refused or returns what is there.    *)
(***************************************************************************)
EXTENDS Naturals, FiniteSets, FiniteSetsExt

CONSTANTS
  Runs,         \* imports, one per workflow run
  Reference,    \* the environment reference each run was given
  FullIds,      \* the references that are full registry resource IDs
  SourceOf,     \* the registry environment version a reference names
  TargetOf,     \* the workspace name and version made of a source's names
  ImageSources, \* the sources with an image; the others have a build context
  Paths,        \* blob paths below the context's prefix, in listing order
  Dockerfile,   \* the declared Dockerfile, one of the paths
  Contents,     \* contents of a blob; each is its own MD5 and SHA-256
  NoHash,       \* no Content-MD5 metadata
  SizeOf,       \* the length of a content
  MaxFiles,     \* MAX_REGISTRY_BUILD_FILES
  MaxFileSize,  \* MAX_REGISTRY_BUILD_FILE_BYTES
  MaxTotal,     \* MAX_REGISTRY_BUILD_TOTAL_BYTES
  MaxWrites     \* bound on the changes of the registry's storage

References == {Reference[r] : r \in Runs}
Sources == {SourceOf[ref] : ref \in References}
BuildSources == Sources \ ImageSources
Targets == {TargetOf[s] : s \in Sources}

\* A blob: what it holds, and the MD5 its metadata claims.
Blobs == [body : Contents, md5 : Contents \union {NoHash}]
\* The blobs below a prefix; a context is what a download makes of them.
Folders == UNION {[ps -> Blobs] : ps \in SUBSET Paths}
Contexts == UNION {[ps -> Contents] : ps \in SUBSET Paths}

ASSUME ImportAssumption ==
  /\ Paths \subseteq Nat /\ IsFiniteSet(Paths) /\ Dockerfile \in Paths
  /\ NoHash \notin Contents
  /\ SizeOf \in [Contents -> Nat]
  /\ MaxFiles \in Nat /\ MaxFileSize \in Nat /\ MaxTotal \in Nat /\ MaxWrites \in Nat

VARIABLES
  pc,         \* where each import is
  listing,    \* the entries each run listed
  todo,       \* the paths it has still to download
  files,      \* what it has downloaded into its temporary directory
  imported,   \* the environment its deployment is given
  storage,    \* registry: the blobs of each build source
  writes,     \* the number of changes of the storage
  workspace   \* workspace: the environment versions

vars == <<pc, listing, todo, files, imported, storage, writes, workspace>>

Source(r) == SourceOf[Reference[r]]
Target(r) == TargetOf[Source(r)]

NoFiles == [p \in {} |-> NoHash]
NoEnvironment == [source |-> "none"]
\* What _registry_provenance records; a provider may drop it.
Provenance(r, manifest) ==
  [source |-> Source(r), reference |-> Reference[r], manifest |-> manifest]
\* A workspace environment: what it really was made of, and what it says.
Environment(r, context, said) ==
  [source |-> Source(r), context |-> context, provenance |-> said]
ImageContext == NoFiles

Stopped == {"imported", "collided", "failed"}

Init ==
  /\ pc = [r \in Runs |-> "resolve"]
  /\ listing = [r \in Runs |-> NoFiles]
  /\ todo = [r \in Runs |-> {}]
  /\ files = [r \in Runs |-> NoFiles]
  /\ imported = [r \in Runs |-> NoEnvironment]
  /\ storage \in [BuildSources -> {f \in Folders : \A p \in DOMAIN f : f[p].md5 = f[p].body}]
  /\ writes = 0
  /\ workspace = [t \in Targets |-> NoEnvironment]

-----------------------------------------------------------------------------
Goto(r, to) == pc' = [pc EXCEPT ![r] = to]

Total(sizes) == MapThenSumSet(LAMBDA p : sizes[p], DOMAIN sizes)
Sizes(folder) == [p \in DOMAIN folder |-> SizeOf[folder[p].body]]

\* Slip: every file is bounded, their sum is not.
OnlyFilesBounded(folder) ==
  /\ DOMAIN folder # {} /\ Cardinality(DOMAIN folder) <= MaxFiles
  /\ \A p \in DOMAIN folder : folder[p].md5 # NoHash /\ Sizes(folder)[p] <= MaxFileSize

(* _listing_entries: what a listing must satisfy.                           *)
Acceptable(folder) ==
  /\ DOMAIN folder # {}
  /\ Cardinality(DOMAIN folder) <= MaxFiles
  /\ \A p \in DOMAIN folder : folder[p].md5 # NoHash /\ Sizes(folder)[p] <= MaxFileSize
  /\ Total(Sizes(folder)) <= MaxTotal

(* The reference is resolved; an image goes straight to the workspace.      *)
ResolveImage(r) ==
  /\ pc[r] = "resolve" /\ Source(r) \in ImageSources
  /\ Goto(r, "lookup")
  /\ UNCHANGED <<listing, todo, files, imported, storage, writes, workspace>>

(* The build context is listed, with lengths and MD5s.                      *)
List(r) ==
  /\ pc[r] = "resolve" /\ Source(r) \notin ImageSources
  /\ LET folder == storage[Source(r)] IN
       \/ /\ Acceptable(folder)
          /\ listing' = [listing EXCEPT ![r] =
               [p \in DOMAIN folder |-> [length |-> Sizes(folder)[p], md5 |-> folder[p].md5]]]
          /\ todo' = [todo EXCEPT ![r] = DOMAIN folder]
          /\ Goto(r, "download")
       \/ /\ ~Acceptable(folder)
          /\ Goto(r, "failed")
          /\ UNCHANGED <<listing, todo>>
  /\ UNCHANGED <<files, imported, storage, writes, workspace>>

\* Slip: the MD5 header is compared, the body is not.
TrustsHeader(blob, entry) ==
  SizeOf[blob.body] = entry.length /\ blob.md5 = entry.md5

(* The three checks of a downloaded blob against its entry: its length, the *)
(* Content-MD5 header, and the MD5 of the body itself.                      *)
Matches(blob, entry) ==
  /\ SizeOf[blob.body] = entry.length
  /\ blob.md5 = entry.md5
  /\ blob.body = entry.md5

(* Slip: a blob that does not match is asked for again, without a limit.    *)
DownloadsAgain(r) ==
  /\ pc[r] = "download" /\ todo[r] # {}
  /\ LET p == Min(todo[r])
         folder == storage[Source(r)] IN
       /\ p \in DOMAIN folder /\ Matches(folder[p], listing[r][p])
       /\ files' = [files EXCEPT ![r] =
            [q \in DOMAIN @ \union {p} |-> IF q = p THEN folder[p].body ELSE @[q]]]
       /\ todo' = [todo EXCEPT ![r] = @ \ {p}]
  /\ UNCHANGED <<pc, listing, imported, storage, writes, workspace>>

(* Slip: a blob that has gone since the listing is passed over.             *)
SkipsMissing(r) ==
  /\ pc[r] = "download" /\ todo[r] # {}
  /\ LET p == Min(todo[r])
         folder == storage[Source(r)] IN
       /\ p \notin DOMAIN folder
       /\ todo' = [todo EXCEPT ![r] = @ \ {p}]
  /\ UNCHANGED <<pc, files, listing, imported, storage, writes, workspace>>

(* The next blob of the listing is downloaded and written.                  *)
Download(r) ==
  /\ pc[r] = "download" /\ todo[r] # {}
  /\ LET p == Min(todo[r])
         folder == storage[Source(r)] IN
       IF p \in DOMAIN folder /\ Matches(folder[p], listing[r][p])
       THEN /\ files' = [files EXCEPT ![r] =
                 [q \in DOMAIN @ \union {p} |-> IF q = p THEN folder[p].body ELSE @[q]]]
            /\ todo' = [todo EXCEPT ![r] = @ \ {p}]
            /\ UNCHANGED pc
       ELSE Goto(r, "failed") /\ UNCHANGED <<files, todo>>
  /\ UNCHANGED <<listing, imported, storage, writes, workspace>>

(* All is downloaded: the manifest is made, the Dockerfile must be there.   *)
Downloaded(r) ==
  /\ pc[r] = "download" /\ todo[r] = {}
  /\ Goto(r, IF Dockerfile \in DOMAIN files[r] THEN "lookup" ELSE "failed")
  /\ UNCHANGED <<listing, todo, files, imported, storage, writes, workspace>>

\* Slip: name and version are enough.
SameNameWillDo(r, found) == found # NoEnvironment

\* Slip: the source is compared, the manifest is not.
SameSourceWillDo(r, found) ==
  found # NoEnvironment /\ \E said \in found.provenance : said.source = Source(r)

(* _validate_workspace_environment: every key of the provenance agrees.     *)
Valid(r, found) ==
  /\ found # NoEnvironment
  /\ found.provenance = {Provenance(r, files[r])}

(* The environment found or created is validated before it is returned.     *)
Accept(r, found) ==
  \/ /\ Valid(r, found)
     /\ imported' = [imported EXCEPT ![r] = found]
     /\ Goto(r, "imported")
  \/ /\ ~Valid(r, found)
     /\ Goto(r, "collided")
     /\ UNCHANGED imported

(* _existing_workspace_environment.                                         *)
LookUp(r) ==
  /\ pc[r] = "lookup"
  /\ IF workspace[Target(r)] = NoEnvironment
     THEN Goto(r, "create") /\ UNCHANGED imported
     ELSE Accept(r, workspace[Target(r)])
  /\ UNCHANGED <<listing, todo, files, storage, writes, workspace>>

(* environments.create_or_update; the provenance may not be persisted.      *)
Create(r) ==
  /\ pc[r] = "create"
  /\ workspace[Target(r)] = NoEnvironment
  /\ \E said \in {{}, {Provenance(r, files[r])}} :
       LET made == Environment(r, files[r], said) IN
         /\ workspace' = [workspace EXCEPT ![Target(r)] = made]
         /\ Accept(r, made)
  /\ UNCHANGED <<listing, todo, files, storage, writes>>

(* Another import has created it since the lookup.                          *)
CreateLate(r) ==
  /\ pc[r] = "create"
  /\ workspace[Target(r)] # NoEnvironment
  /\ \/ Accept(r, workspace[Target(r)])
     \/ Goto(r, "failed") /\ UNCHANGED imported
  /\ UNCHANGED <<listing, todo, files, storage, writes, workspace>>

(* Any call of the registry, of its storage or of the workspace raises, a   *)
(* name is unsafe, or the run is cancelled.                                 *)
Abort(r) ==
  /\ pc[r] \notin Stopped
  /\ Goto(r, "failed")
  /\ UNCHANGED <<listing, todo, files, imported, storage, writes, workspace>>

(* Registry: a blob is put, with or without an MD5 that is its own, or      *)
(* deleted.                                                                 *)
Publish(s, p) ==
  /\ writes < MaxWrites
  /\ writes' = writes + 1
  /\ \/ \E b \in Blobs : storage' =
          [storage EXCEPT ![s] =
             [q \in DOMAIN @ \union {p} |-> IF q = p THEN b ELSE @[q]]]
     \/ storage' = [storage EXCEPT ![s] = [q \in DOMAIN @ \ {p} |-> @[q]]]
  /\ UNCHANGED <<pc, listing, todo, files, imported, workspace>>

Step(r) ==
  \/ ResolveImage(r) \/ List(r) \/ Download(r) \/ Downloaded(r)
  \/ LookUp(r) \/ Create(r) \/ CreateLate(r)

Next ==
  \/ \E r \in Runs : Step(r) \/ Abort(r)
  \/ \E s \in BuildSources, p \in Paths : Publish(s, p)

Spec == Init /\ [][Next]_vars

(* The script runs; every request it makes has a time limit.                *)
FairSpec == Spec /\ \A r \in Runs : WF_vars(Step(r))

-----------------------------------------------------------------------------
(* Properties                                                               *)

(* Every variable has its type.                                             *)
TypeOK ==
  /\ pc \in [Runs -> {"resolve", "download", "lookup", "create"} \union Stopped]
  /\ \A r \in Runs :
       /\ todo[r] \subseteq DOMAIN listing[r]
       /\ DOMAIN files[r] = DOMAIN listing[r] \ todo[r]
       /\ files[r] \in Contexts
       /\ imported[r] # NoEnvironment => imported[r].context \in Contexts
  /\ storage \in [BuildSources -> Folders]
  /\ writes \in 0 .. MaxWrites

(* What an import returns was made of the very contents its listing named,  *)
(* all of them and nothing else, although the storage may have changed after*)
(* the listing or between two downloads, and although another run may have  *)
(* created the environment (create_batch_deployment.py:510-548, 676-708).   *)
ImportsWhatItListed ==
  \A r \in Runs : pc[r] = "imported" =>
    imported[r].context = [p \in DOMAIN listing[r] |-> listing[r][p].md5]

(* Two registry environments whose names become one workspace name          *)
(* (create_batch_deployment.py:249-258) are never taken for each other,     *)
(* whichever run comes first and wherever the other is in its import.       *)
ImportsItsOwnSource ==
  \A r \in Runs : pc[r] = "imported" => imported[r].source = Source(r)

(* The files written are bounded in total, however the blobs grow once they *)
(* are listed (create_batch_deployment.py:466-471, 525-528).                *)
DownloadBounded ==
  \A r \in Runs :
    Total([p \in DOMAIN files[r] |-> SizeOf[files[r][p]]]) <= MaxTotal

(* The mapping to ImportContract: what a source claims to hold are the MD5s *)
(* of its blobs, and the copy are those of the listing, whatever was        *)
(* downloaded of it; a version is what it was really made of.               *)
Claims == UNION {[ps -> Contents \union {NoHash}] : ps \in SUBSET Paths}
Claimed(entries) == [p \in DOMAIN entries |-> entries[p].md5]
Offered ==
  [s \in Sources |-> IF s \in ImageSources THEN ImageContext ELSE Claimed(storage[s])]

MadeOf(environment) ==
  IF environment = NoEnvironment THEN NoEnvironment
  ELSE [source |-> environment.source, context |-> environment.context]
Versions == [t \in Targets |-> MadeOf(workspace[t])]

Progress(r) ==
  CASE pc[r] = "resolve" -> [at |-> "asked"]
    [] pc[r] = "imported" -> [at |-> "delivered", version |-> MadeOf(imported[r])]
    [] pc[r] \in {"collided", "failed"} -> [at |-> "refused"]
    [] OTHER -> [at |-> "copied", context |-> Claimed(listing[r])]
Imports == [r \in Runs |-> Progress(r)]

Contract == INSTANCE ImportContract WITH
  Wanted <- [r \in Runs |-> Source(r)],
  Name <- TargetOf,
  claimed <- Offered,
  versions <- Versions,
  progress <- Imports

(* Although it lists, downloads, looks up and creates in separate calls, the*)
(* import is as if it had copied its source at one moment: it ends with a   *)
(* version made of that copy, or is refused, and replaces no version        *)
(* (create_batch_deployment.py:510-708, 775-834).                           *)
KeepsContract == Contract!Spec

(* Every import ends, with the environment or with an exception.            *)
EveryImportEnds == \A r \in Runs : <>(pc[r] \in Stopped)

(* create_batch_deployment.py:598-601: an import that is refused collides   *)
(* "with a different registry source or manifest", or with an environment   *)
(* that does not say what it was made of.                                   *)
CollidesWithAnotherSource ==
  \A r \in Runs : pc[r] = "collided" =>
    LET found == workspace[Target(r)] IN
      \/ found.provenance = {}
      \/ found.source # Source(r)
      \/ found.context # files[r]

(* docs/python-sdk-v2-batch.md:31-32: full registry resource IDs "remain    *)
(* supported without rewriting": a run that deploys one would have made no  *)
(* workspace environment of it.                                             *)
KeepsFullIds ==
  \A r \in Runs : pc[r] = "imported" /\ Reference[r] \in FullIds =>
    workspace[Target(r)] = NoEnvironment
=============================================================================
