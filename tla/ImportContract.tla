--------------------------- MODULE ImportContract ---------------------------
(***************************************************************************)
(* What a deployment may rely on when it has a registry environment        *)
(* imported: although the import lists, downloads, looks up and creates in *)
(* separate calls, it is as if it had copied, at one moment, what its      *)
(* source claimed to hold: it ends with a workspace version made of that   *)
(* copy and of that source, or is refused, and no version is ever replaced.*)
(* EnvironmentImport.tla implements this.                                  *)
(***************************************************************************)
CONSTANTS Runs,      \* the imports
          Sources,   \* the registry environment versions
          Wanted,    \* the source each run imports
          Name,      \* the workspace name and version a source's names become
          Claims     \* what a source may claim to hold

VARIABLES claimed,   \* what each source claims to hold now
          versions,  \* the environment versions of the workspace
          progress   \* what each import has come to

vars == <<claimed, versions, progress>>

NoVersion == [source |-> "none"]
Version(r) == [source |-> Wanted[r], context |-> progress[r].context]

Init ==
  /\ claimed \in [Sources -> Claims]
  /\ versions = [t \in {Name[s] : s \in Sources} |-> NoVersion]
  /\ progress = [r \in Runs |-> [at |-> "asked"]]

(* The source of a run, all of it at once, is copied.                       *)
Copy(r) ==
  /\ progress[r].at = "asked"
  /\ progress' = [progress EXCEPT ![r] = [at |-> "copied", context |-> claimed[Wanted[r]]]]
  /\ UNCHANGED <<claimed, versions>>

(* A version is made of the copy, where there is none of that name yet.     *)
Make(r) ==
  /\ progress[r].at = "copied"
  /\ versions[Name[Wanted[r]]] = NoVersion
  /\ versions' = [versions EXCEPT ![Name[Wanted[r]]] = Version(r)]

(* The import ends with the version made of its copy, by itself or before.  *)
Deliver(r) ==
  /\ progress[r].at = "copied"
  /\ \/ Make(r)
     \/ versions[Name[Wanted[r]]] = Version(r) /\ UNCHANGED versions
  /\ progress' = [progress EXCEPT ![r] = [at |-> "delivered", version |-> Version(r)]]
  /\ UNCHANGED claimed

(* A refused import may leave the version it has made.                      *)
Refuse(r) ==
  /\ progress[r].at \in {"asked", "copied"}
  /\ Make(r) \/ UNCHANGED versions
  /\ progress' = [progress EXCEPT ![r] = [at |-> "refused"]]
  /\ UNCHANGED claimed

(* What a source claims to hold is another's to change.                     *)
Claim(s) ==
  /\ \E c \in Claims : claimed' = [claimed EXCEPT ![s] = c]
  /\ UNCHANGED <<versions, progress>>

Next ==
  \/ \E r \in Runs : Copy(r) \/ Deliver(r) \/ Refuse(r)
  \/ \E s \in Sources : Claim(s)

Spec == Init /\ [][Next]_vars
=============================================================================
