----------------------- MODULE EnvironmentImportProof -----------------------
(***************************************************************************)
(* Proofs about the imports of EnvironmentImport.tla, for every set of     *)
(* runs and of registry environments, whatever names they become in the    *)
(* workspace, and for any number of changes of the registry's storage.     *)
(***************************************************************************)
EXTENDS EnvironmentImport, FiniteSetTheorems, TLAPS

(***************************************************************************)
(* What a run has listed, and has still to download.                       *)
(***************************************************************************)
Entries == [length : Nat, md5 : Contents]
IsListing(entries) ==
  DOMAIN entries \subseteq Paths /\ entries \in [DOMAIN entries -> Entries]

TypeInv ==
  /\ pc \in [Runs -> {"resolve", "download", "lookup", "create"} \union Stopped]
  /\ DOMAIN listing = Runs /\ \A r \in Runs : IsListing(listing[r])
  /\ todo \in [Runs -> SUBSET Paths]
  /\ files \in [Runs -> Contexts]
  /\ DOMAIN imported = Runs
  /\ DOMAIN workspace = Targets
  /\ storage \in [BuildSources -> Folders]
  /\ writes \in 0 .. MaxWrites

(***************************************************************************)
(* The files of a run are what its listing says of the paths it has        *)
(* downloaded, and the listing is within the limit.                        *)
(***************************************************************************)
ListedLengths(entries) == [p \in DOMAIN entries |-> entries[p].length]
Listed(entries) == [p \in DOMAIN entries |-> entries[p].md5]

FilesInv(r) ==
  /\ todo[r] \subseteq DOMAIN listing[r]
  /\ DOMAIN files[r] = DOMAIN listing[r] \ todo[r]
  /\ \A p \in DOMAIN files[r] :
       files[r][p] = listing[r][p].md5 /\ SizeOf[files[r][p]] = listing[r][p].length
  /\ Total(ListedLengths(listing[r])) <= MaxTotal
  /\ pc[r] = "resolve" => listing[r] = NoFiles
  /\ pc[r] \notin {"download", "failed"} => todo[r] = {}

(***************************************************************************)
(* What a workspace environment says of its origin, if anything, is true.  *)
(***************************************************************************)
Truthful(environment) ==
  /\ environment.context \in Contexts
  /\ \A said \in environment.provenance :
       said.source = environment.source /\ said.manifest = environment.context

WorkspaceInv == \A t \in Targets : workspace[t] # NoEnvironment => Truthful(workspace[t])

ImportedInv(r) ==
  /\ imported[r] # NoEnvironment => Truthful(imported[r])
  /\ pc[r] = "imported" =>
       imported[r].source = Source(r) /\ imported[r].context = files[r]

IInv ==
  /\ TypeInv
  /\ \A r \in Runs : FilesInv(r) /\ ImportedInv(r)
  /\ WorkspaceInv

-----------------------------------------------------------------------------
(***************************************************************************)
(* Sums.  MapThenSumSet, which Total adds up lengths with, is a recursive  *)
(* function on sets; a claim about all of its values is proved by a minimal*)
(* set for which it fails, one about naturals by the least.                *)
(***************************************************************************)

(* Every non-empty set of naturals has a least element.                     *)
LEMMA LeastNatural ==
  ASSUME NEW T \in SUBSET Nat, T # {}
  PROVE  \E n \in T : \A m \in T : n <= m
<1>1. PICK n \in T : \A m \in T : ~(<<m, n>> \in OpToRel(<, Nat))
  BY NatLessThanWellFounded, WFMin
<1>2. \A m \in T : ~(m < n)
  BY <1>1 DEF OpToRel
<1>3. QED
  BY <1>2

(* Every non-empty set of subsets of a finite set has a minimal element.    *)
LEMMA MinimalSubset ==
  ASSUME NEW S, IsFiniteSet(S), NEW T \in SUBSET SUBSET S, T # {}
  PROVE  \E U \in T : \A W \in T : W \subseteq U => W = U
<1>1. T \subseteq FiniteSubsetsOf(S)
  BY FS_Subset DEF FiniteSubsetsOf
<1>2. PICK U \in T : \A W \in T : ~(<<W, U>> \in StrictSubsetOrdering(S))
  BY <1>1, FS_StrictSubsetOrderingWellFounded, WFMin
<1>3. QED
  BY <1>2 DEF StrictSubsetOrdering

-----------------------------------------------------------------------------
(* f gives the sum of g over every subset of S, as the fold computes it.    *)
Any(s) == CHOOSE x \in s : TRUE

Adds(f, S, g) ==
  f = [s \in SUBSET S |-> IF s = {} THEN 0 ELSE g[Any(s)] + f[s \ {Any(s)}]]

(* A non-empty set has such an element.                                     *)
LEMMA AnyIsElement == \A s : s # {} => Any(s) \in s
BY DEF Any

(* Two such functions agree where both are defined and add up the same.     *)
LEMMA AddsAgree ==
  ASSUME NEW S, IsFiniteSet(S), NEW f, NEW g, Adds(f, S, g),
         NEW T, NEW h, NEW e, Adds(h, T, e),
         NEW U, U \subseteq S, U \subseteq T, \A x \in U : g[x] = e[x]
  PROVE  f[U] = h[U]
<1> DEFINE Differ == {s \in SUBSET U : f[s] # h[s]}
<1>1. SUFFICES ASSUME Differ # {} PROVE FALSE
  OBVIOUS
<1>2. PICK s \in Differ : \A t \in Differ : t \subseteq s => t = s
  <2>1. IsFiniteSet(U)
    BY FS_Subset
  <2>2. Differ \in SUBSET SUBSET U
    OBVIOUS
  <2>3. QED
    <3> HIDE DEF Differ
    <3> QED
      BY <1>1, <2>1, <2>2, MinimalSubset
<1>3. /\ f[s] = IF s = {} THEN 0 ELSE g[Any(s)] + f[s \ {Any(s)}]
      /\ h[s] = IF s = {} THEN 0 ELSE e[Any(s)] + h[s \ {Any(s)}]
  BY DEF Adds
<1>4. s # {}
  BY <1>3
<1>5. Any(s) \in s
  BY <1>4, AnyIsElement
<1>6. s \ {Any(s)} \notin Differ
  BY <1>2, <1>5
<1>7. f[s \ {Any(s)}] = h[s \ {Any(s)}] /\ g[Any(s)] = e[Any(s)]
  BY <1>5, <1>6
<1>8. QED
  BY <1>3, <1>4, <1>7

(* Such a function exists: were there a subset without one, a minimal such  *)
(* subset would get one from those of its own subsets.                      *)
LEMMA AddsExists ==
  ASSUME NEW S, IsFiniteSet(S), NEW g \in [S -> Nat]
  PROVE  \E f \in [SUBSET S -> Nat] : Adds(f, S, g)
<1> DEFINE Without == {T \in SUBSET S : ~\E f \in [SUBSET T -> Nat] : Adds(f, T, g)}
<1>1. SUFFICES ASSUME Without # {} PROVE FALSE
  OBVIOUS
<1>2. PICK T \in Without : \A U \in Without : U \subseteq T => U = T
  <2>1. Without \in SUBSET SUBSET S
    OBVIOUS
  <2>2. QED
    <3> HIDE DEF Without
    <3> QED
      BY <1>1, <2>1, MinimalSubset
<1> DEFINE Smaller == (SUBSET T) \ {T}
           F == [U \in Smaller |-> CHOOSE f \in [SUBSET U -> Nat] : Adds(f, U, g)]
           Below(s) == s \ {Any(s)}
           h == [s \in SUBSET T |->
                   IF s = {} THEN 0 ELSE g[Any(s)] + F[Below(s)][Below(s)]]
<1>3. \A U \in Smaller : F[U] \in [SUBSET U -> Nat] /\ Adds(F[U], U, g)
  <2>1. \A U \in Smaller : \E f \in [SUBSET U -> Nat] : Adds(f, U, g)
    BY <1>2
  <2>2. QED
    BY <2>1
<1> HIDE DEF F
<1>4. \A s \in SUBSET T : s # {} => Any(s) \in s /\ Any(s) \in S /\ Below(s) \in Smaller
  BY AnyIsElement
<1>5. h \in [SUBSET T -> Nat]
  <2>1. \A U \in Smaller : F[U][U] \in Nat
    BY <1>3
  <2>2. \A s \in SUBSET T : s # {} => g[Any(s)] \in Nat /\ F[Below(s)][Below(s)] \in Nat
    <3> HIDE DEF Below, Smaller
    <3> QED
      BY <1>4, <2>1
  <2>3. QED
    <3> HIDE DEF Below
    <3> QED
      BY <2>2
<1>6. ASSUME NEW t \in Smaller PROVE F[t][t] = h[t]
  <2>1. CASE t = {}
    <3>1. F[t][t] = 0
      BY <1>3, <2>1 DEF Adds
    <3>2. QED
      BY <2>1, <3>1
  <2>2. CASE t # {}
    <3>1. F[t][t] = g[Any(t)] + F[t][Below(t)]
      BY <1>3, <2>2 DEF Adds
    <3>2. Below(t) \in Smaller /\ Below(t) \subseteq t
      BY <1>4
    <3>3. F[t][Below(t)] = F[Below(t)][Below(t)]
      <4>1. IsFiniteSet(t)
        BY FS_Subset
      <4>2. Adds(F[t], t, g) /\ Adds(F[Below(t)], Below(t), g)
        BY <1>3, <3>2
      <4>3. QED
        BY <3>2, <4>1, <4>2, AddsAgree
    <3>4. QED
      BY <2>2, <3>1, <3>3
  <2>3. QED
    BY <2>1, <2>2
<1>7. Adds(h, T, g)
  <2>1. \A s \in SUBSET T : s # {} => F[Below(s)][Below(s)] = h[Below(s)]
    BY <1>4, <1>6
  <2>2. h = [s \in SUBSET T |-> IF s = {} THEN 0 ELSE g[Any(s)] + h[Below(s)]]
    BY <2>1
  <2>3. QED
    BY <2>2 DEF Adds
<1>8. QED
  BY <1>2, <1>5, <1>7

(* Every such function has naturals as values.                              *)
LEMMA AddsNaturals ==
  ASSUME NEW S, IsFiniteSet(S), NEW g \in [S -> Nat], NEW f, Adds(f, S, g)
  PROVE  f \in [SUBSET S -> Nat]
<1>1. PICK h \in [SUBSET S -> Nat] : Adds(h, S, g)
  BY AddsExists
<1>2. \A U \in SUBSET S : f[U] = h[U]
  BY <1>1, AddsAgree
<1>3. f = [U \in SUBSET S |-> f[U]]
  BY DEF Adds
<1>4. QED
  BY <1>2, <1>3

(* What is added first makes no difference.                                 *)
LEMMA AnyOrder ==
  ASSUME NEW S, IsFiniteSet(S), NEW g \in [S -> Nat], NEW f, Adds(f, S, g)
  PROVE  \A t \in SUBSET S : \A x \in t : f[t] = g[x] + f[t \ {x}]
<1> DEFINE Wrong == {t \in SUBSET S : \E x \in t : f[t] # g[x] + f[t \ {x}]}
<1>1. SUFFICES ASSUME Wrong # {} PROVE FALSE
  OBVIOUS
<1>2. PICK t \in Wrong : \A u \in Wrong : u \subseteq t => u = t
  <2>1. Wrong \in SUBSET SUBSET S
    OBVIOUS
  <2>2. QED
    <3> HIDE DEF Wrong
    <3> QED
      BY <1>1, <2>1, MinimalSubset
<1>3. PICK x \in t : f[t] # g[x] + f[t \ {x}]
  BY <1>2
<1> DEFINE a == Any(t)
<1>4. a \in t /\ f[t] = g[a] + f[t \ {a}]
  <2>1. a \in t
    BY <1>3, AnyIsElement
  <2>2. QED
    BY <1>2, <2>1 DEF Adds
<1>5. a # x
  BY <1>3, <1>4
<1> HIDE DEF a
<1>6. f[t \ {a}] = g[x] + f[(t \ {a}) \ {x}]
  BY <1>2, <1>3, <1>4, <1>5
<1>7. f[t \ {x}] = g[a] + f[(t \ {x}) \ {a}]
  BY <1>2, <1>3, <1>4, <1>5
<1>8. (t \ {x}) \ {a} = (t \ {a}) \ {x}
  OBVIOUS
<1>9. f \in [SUBSET S -> Nat]
  BY AddsNaturals
<1>10. g[a] \in Nat /\ g[x] \in Nat /\ f[(t \ {a}) \ {x}] \in Nat
  BY <1>3, <1>4, <1>9
<1>11. f[t] = g[x] + (g[a] + f[(t \ {a}) \ {x}])
  BY <1>4, <1>6, <1>10
<1>12. f[t \ {x}] = g[a] + f[(t \ {a}) \ {x}]
  BY <1>7, <1>8
<1>13. QED
  BY <1>3, <1>11, <1>12

(* A larger set does not have a smaller sum.                                *)
LEMMA AddsMonotone ==
  ASSUME NEW S, IsFiniteSet(S), NEW g \in [S -> Nat], NEW f, Adds(f, S, g),
         NEW T \in SUBSET S
  PROVE  f[T] <= f[S]
<1> DEFINE Wrong == {U \in SUBSET S : T \subseteq U /\ ~(f[T] <= f[U])}
<1>1. SUFFICES ASSUME Wrong # {} PROVE FALSE
  OBVIOUS
<1>2. PICK U \in Wrong : \A W \in Wrong : W \subseteq U => W = U
  <2>1. Wrong \in SUBSET SUBSET S
    OBVIOUS
  <2>2. QED
    <3> HIDE DEF Wrong
    <3> QED
      BY <1>1, <2>1, MinimalSubset
<1>3. f \in [SUBSET S -> Nat]
  BY AddsNaturals
<1>4. PICK x \in U : x \notin T
  <2>1. f[T] <= f[T]
    BY <1>3
  <2>2. T # U
    BY <1>2, <2>1
  <2>3. QED
    BY <1>2, <2>2
<1>5. f[U] = g[x] + f[U \ {x}]
  BY <1>2, <1>4, AnyOrder
<1>6. f[T] <= f[U \ {x}]
  BY <1>2, <1>4
<1>7. g[x] \in Nat /\ f[U \ {x}] \in Nat /\ f[T] \in Nat
  BY <1>2, <1>3, <1>4
<1>8. QED
  BY <1>2, <1>5, <1>6, <1>7

-----------------------------------------------------------------------------
(* MapThenSumSet is the value of such a function for the whole set.         *)
LEMMA MapSumUnfolds ==
  ASSUME NEW g, NEW S
  PROVE  MapThenSumSet(LAMBDA x : g[x], S) = (CHOOSE f : Adds(f, S, g))[S]
BY DEF MapThenSumSet, MapThenFoldSet, Adds, Any

(* The sum of naturals over a finite set.                                   *)
LEMMA SumByAdds ==
  ASSUME NEW S, IsFiniteSet(S), NEW g \in [S -> Nat]
  PROVE  \E f : /\ Adds(f, S, g)
               /\ MapThenSumSet(LAMBDA x : g[x], S) = f[S]
<1>1. \E f : Adds(f, S, g)
  BY AddsExists
<1>2. Adds(CHOOSE f : Adds(f, S, g), S, g)
  BY <1>1
<1>3. QED
  BY <1>2, MapSumUnfolds

(* It is a natural, and no smaller than that over a subset.                 *)
LEMMA SumMonotone ==
  ASSUME NEW S, IsFiniteSet(S), NEW g \in [S -> Nat], NEW T \in SUBSET S,
         NEW e \in [T -> Nat], \A x \in T : e[x] = g[x]
  PROVE  /\ MapThenSumSet(LAMBDA x : g[x], S) \in Nat
         /\ MapThenSumSet(LAMBDA x : e[x], T) <= MapThenSumSet(LAMBDA x : g[x], S)
<1>1. PICK f : Adds(f, S, g) /\ MapThenSumSet(LAMBDA x : g[x], S) = f[S]
  BY SumByAdds
<1>2. IsFiniteSet(T)
  BY FS_Subset
<1>3. PICK h : Adds(h, T, e) /\ MapThenSumSet(LAMBDA x : e[x], T) = h[T]
  BY <1>2, SumByAdds
<1>4. h[T] = f[T]
  BY <1>1, <1>2, <1>3, AddsAgree
<1>5. f[T] <= f[S]
  BY <1>1, AddsMonotone
<1>6. f[S] \in Nat
  <2>1. f \in [SUBSET S -> Nat]
    BY <1>1, AddsNaturals
  <2>2. QED
    BY <2>1
<1>7. QED
  BY <1>1, <1>3, <1>4, <1>5, <1>6

-----------------------------------------------------------------------------
(***************************************************************************)
(* The operators of the model.                                             *)
(***************************************************************************)

(* A folder maps some of the paths to blobs.                                *)
LEMMA FolderForm ==
  \A f : f \in Folders <=> DOMAIN f \subseteq Paths /\ f \in [DOMAIN f -> Blobs]
BY DEF Folders

(* A context maps some of the paths to contents.                            *)
LEMMA ContextForm ==
  \A f : f \in Contexts <=> DOMAIN f \subseteq Paths /\ f \in [DOMAIN f -> Contents]
BY DEF Contexts

(* A context with one more file is a context.                               *)
LEMMA AddedFile ==
  ASSUME NEW f \in Contexts, NEW p \in Paths, NEW c \in Contents
  PROVE  [q \in DOMAIN f \union {p} |-> IF q = p THEN c ELSE f[q]] \in Contexts
BY ContextForm

(* A folder with a blob put or deleted is a folder.                         *)
LEMMA PublishedBlob ==
  ASSUME NEW f \in Folders, NEW p \in Paths
  PROVE  /\ \A b \in Blobs : [q \in DOMAIN f \union {p} |-> IF q = p THEN b ELSE f[q]] \in Folders
         /\ [q \in DOMAIN f \ {p} |-> f[q]] \in Folders
BY FolderForm

(* The next path of a download is one that is still to be downloaded.       *)
LEMMA NextPath ==
  ASSUME NEW T \in SUBSET Paths, T # {}
  PROVE  Min(T) \in T
<1>1. T \in SUBSET Nat
  BY ImportAssumption
<1>2. \E x \in T : \A y \in T : x <= y
  BY <1>1, LeastNatural
<1>3. QED
  BY <1>2 DEF Min

(* The total of some of the listed lengths is within that of all of them.   *)
LEMMA PartOfTotal ==
  ASSUME NEW S \in SUBSET Paths, NEW g \in [S -> Nat], NEW T \in SUBSET S,
         NEW e \in [T -> Nat], \A p \in T : e[p] = g[p]
  PROVE  Total(g) \in Nat /\ Total(e) <= Total(g)
<1>1. IsFiniteSet(S)
  BY ImportAssumption, FS_Subset
<1>2. DOMAIN g = S /\ DOMAIN e = T
  OBVIOUS
<1>3. QED
  BY <1>1, <1>2, SumMonotone DEF Total

(* Nothing listed adds up to 0.                                             *)
LEMMA NoTotal ==
  ASSUME NEW g \in [{} -> Nat]
  PROVE  Total(g) = 0
<1>1. IsFiniteSet({})
  BY FS_EmptySet
<1>2. PICK f : Adds(f, {}, g) /\ MapThenSumSet(LAMBDA p : g[p], {}) = f[{}]
  BY <1>1, SumByAdds
<1>3. f[{}] = 0
  BY <1>2 DEF Adds
<1>4. QED
  BY <1>2, <1>3 DEF Total

-----------------------------------------------------------------------------
(* List either fails or keeps the entries of a listing within the limit.    *)
LEMMA ListMeans ==
  ASSUME TypeInv, NEW r \in Runs, List(r)
  PROVE  /\ pc[r] = "resolve"
         /\ UNCHANGED <<files, imported, storage, writes, workspace>>
         /\ \/ /\ pc' = [pc EXCEPT ![r] = "failed"] /\ UNCHANGED <<listing, todo>>
            \/ /\ pc' = [pc EXCEPT ![r] = "download"]
               /\ \E entries :
                    /\ IsListing(entries)
                    /\ Total(ListedLengths(entries)) <= MaxTotal
                    /\ listing' = [listing EXCEPT ![r] = entries]
                    /\ todo' = [todo EXCEPT ![r] = DOMAIN entries]
<1> DEFINE folder == storage[Source(r)]
           entries == [p \in DOMAIN folder |->
                         [length |-> Sizes(folder)[p], md5 |-> folder[p].md5]]
<1>1. pc[r] = "resolve" /\ UNCHANGED <<files, imported, storage, writes, workspace>>
  BY DEF List
<1>2. CASE Acceptable(folder)
  <2>1. folder \in Folders
    BY DEF TypeInv, List, Source, BuildSources, Sources, References
  <2>2. DOMAIN folder \subseteq Paths /\ folder \in [DOMAIN folder -> Blobs]
    BY <2>1, FolderForm
  <2>3. Sizes(folder) \in [DOMAIN folder -> Nat]
    BY <2>2, ImportAssumption DEF Sizes, Blobs
  <2>4. \A p \in DOMAIN folder : folder[p].md5 \in Contents
    BY <1>2, <2>2 DEF Acceptable, Blobs
  <2>5. IsListing(entries)
    BY <2>2, <2>3, <2>4 DEF IsListing, Entries
  <2>6. ListedLengths(entries) = Sizes(folder)
    BY <2>3 DEF ListedLengths
  <2>7. Total(ListedLengths(entries)) <= MaxTotal
    BY <1>2, <2>6 DEF Acceptable
  <2>8. /\ pc' = [pc EXCEPT ![r] = "download"]
        /\ listing' = [listing EXCEPT ![r] = entries]
        /\ todo' = [todo EXCEPT ![r] = DOMAIN entries]
    BY <1>2 DEF List, Goto
  <2> HIDE DEF entries
  <2>9. QED
    BY <1>1, <2>5, <2>7, <2>8
<1>3. CASE ~Acceptable(folder)
  BY <1>1, <1>3 DEF List, Goto
<1>4. QED
  BY <1>2, <1>3

(* Download either fails or writes the very content that the entry of one   *)
(* of the paths names.                                                      *)
LEMMA DownloadMeans ==
  ASSUME TypeInv, NEW r \in Runs, FilesInv(r), Download(r)
  PROVE  /\ pc[r] = "download"
         /\ UNCHANGED <<listing, imported, storage, writes, workspace>>
         /\ \/ /\ pc' = [pc EXCEPT ![r] = "failed"] /\ UNCHANGED <<files, todo>>
            \/ /\ UNCHANGED pc
               /\ \E p \in todo[r], c \in Contents :
                    /\ SizeOf[c] = listing[r][p].length /\ c = listing[r][p].md5
                    /\ files' = [files EXCEPT ![r] =
                         [q \in DOMAIN files[r] \union {p} |->
                            IF q = p THEN c ELSE files[r][q]]]
                    /\ todo' = [todo EXCEPT ![r] = todo[r] \ {p}]
<1> DEFINE p == Min(todo[r])
           folder == storage[Source(r)]
<1>1. pc[r] = "download" /\ UNCHANGED <<listing, imported, storage, writes, workspace>>
  BY DEF Download
<1>2. CASE p \in DOMAIN folder /\ Matches(folder[p], listing[r][p])
  <2>1. p \in todo[r]
    BY NextPath DEF TypeInv, Download
  <2>2. folder[p].body \in Contents
    <3>1. listing[r][p].md5 \in Contents
      BY <2>1 DEF TypeInv, FilesInv, IsListing, Entries
    <3>2. QED
      BY <1>2, <3>1 DEF Matches
  <2>3. /\ UNCHANGED pc
        /\ files' = [files EXCEPT ![r] =
             [q \in DOMAIN files[r] \union {p} |->
                IF q = p THEN folder[p].body ELSE files[r][q]]]
        /\ todo' = [todo EXCEPT ![r] = todo[r] \ {p}]
    BY <1>2 DEF Download, TypeInv
  <2>4. SizeOf[folder[p].body] = listing[r][p].length /\ folder[p].body = listing[r][p].md5
    BY <1>2 DEF Matches
  <2> HIDE DEF p, folder
  <2>5. QED
    BY <1>1, <2>1, <2>2, <2>3, <2>4
<1>3. CASE ~(p \in DOMAIN folder /\ Matches(folder[p], listing[r][p]))
  BY <1>1, <1>3 DEF Download, Goto
<1>4. QED
  BY <1>2, <1>3

(* What an import that looks the environment up or creates it does.         *)
Resolving(r) == LookUp(r) \/ Create(r) \/ CreateLate(r)

(* It takes an environment of the workspace, old or new, whose provenance   *)
(* is that of its own download; what it makes says so or nothing.           *)
LEMMA ResolvingMeans ==
  ASSUME TypeInv, NEW r \in Runs, Resolving(r)
  PROVE  /\ pc[r] \in {"lookup", "create"}
         /\ UNCHANGED <<listing, todo, files, storage, writes>>
         /\ \/ UNCHANGED workspace
            \/ \E said \in {{}, {Provenance(r, files[r])}} :
                 workspace' = [workspace EXCEPT ![Target(r)] =
                                 Environment(r, files[r], said)]
         /\ \/ /\ pc' = [pc EXCEPT ![r] = "imported"]
               /\ Valid(r, workspace'[Target(r)])
               /\ imported' = [imported EXCEPT ![r] = workspace'[Target(r)]]
            \/ /\ \E to \in {"create", "collided", "failed"} : pc' = [pc EXCEPT ![r] = to]
               /\ UNCHANGED imported
<1>1. Target(r) \in Targets
  BY DEF Target, Source, Targets, Sources, References
<1>2. CASE LookUp(r)
  BY <1>2 DEF LookUp, Accept, Goto
<1>3. CASE Create(r)
  <2>1. PICK said \in {{}, {Provenance(r, files[r])}} :
             /\ workspace' = [workspace EXCEPT ![Target(r)] = Environment(r, files[r], said)]
             /\ Accept(r, Environment(r, files[r], said))
    BY <1>3 DEF Create
  <2>2. workspace'[Target(r)] = Environment(r, files[r], said)
    BY <1>1, <2>1 DEF TypeInv
  <2>3. Accept(r, workspace'[Target(r)])
    BY <2>1, <2>2
  <2>4. /\ pc[r] \in {"lookup", "create"}
        /\ UNCHANGED <<listing, todo, files, storage, writes>>
    BY <1>3 DEF Create
  <2>5. QED
    BY <2>1, <2>3, <2>4 DEF Accept, Goto
<1>4. CASE CreateLate(r)
  BY <1>4 DEF CreateLate, Accept, Goto
<1>5. QED
  BY <1>2, <1>3, <1>4 DEF Resolving

\* What a run does to nothing but its own place.
Moving(r) == ResolveImage(r) \/ Downloaded(r) \/ Abort(r)

(* Every step is one of these.                                              *)
LEMMA Steps ==
  [Next]_vars =>
    \/ \E r \in Runs : Moving(r) \/ List(r) \/ Download(r) \/ Resolving(r)
    \/ \E s \in BuildSources, p \in Paths : Publish(s, p)
    \/ UNCHANGED vars
BY DEF Next, Step, Moving, Resolving

(* Where such a step goes.                                                  *)
LEMMA MovingMeans ==
  ASSUME NEW r \in Runs, Moving(r)
  PROVE  /\ UNCHANGED <<listing, todo, files, imported, storage, writes, workspace>>
         /\ \/ /\ pc[r] = "resolve" \/ (pc[r] = "download" /\ todo[r] = {})
               /\ pc' = [pc EXCEPT ![r] = "lookup"]
            \/ pc' = [pc EXCEPT ![r] = "failed"]
BY DEF Moving, ResolveImage, Downloaded, Abort, Goto

-----------------------------------------------------------------------------
(* Every variable keeps its type.                                           *)
LEMMA TypeStep ==
  ASSUME TypeInv, \A r \in Runs : FilesInv(r), [Next]_vars
  PROVE  TypeInv'
<1> USE DEF Stopped
<1>1. ASSUME NEW r \in Runs, Moving(r)
      PROVE  TypeInv'
  BY <1>1, MovingMeans DEF TypeInv
<1>2. ASSUME NEW r \in Runs, List(r)
      PROVE  TypeInv'
  <2>1. CASE UNCHANGED <<listing, todo>>
    BY <1>2, <2>1, ListMeans DEF TypeInv
  <2>2. CASE ~UNCHANGED <<listing, todo>>
    <3>1. PICK entries :
            /\ pc' = [pc EXCEPT ![r] = "download"]
            /\ IsListing(entries)
            /\ listing' = [listing EXCEPT ![r] = entries]
            /\ todo' = [todo EXCEPT ![r] = DOMAIN entries]
            /\ UNCHANGED <<files, imported, storage, writes, workspace>>
      BY <1>2, <2>2, ListMeans
    <3>2. DOMAIN entries \subseteq Paths
      BY <3>1 DEF IsListing
    <3>3. \A q \in Runs : listing'[q] = IF q = r THEN entries ELSE listing[q]
      BY <3>1 DEF TypeInv
    <3>4. \A q \in Runs : IsListing(listing'[q])
      BY <3>1, <3>3 DEF TypeInv
    <3>5. (\A q \in Runs : IsListing(listing[q]))'
      BY <3>4 DEF IsListing
    <3>6. QED
      BY <3>1, <3>2, <3>5 DEF TypeInv
  <2>3. QED
    BY <2>1, <2>2
<1>3. ASSUME NEW r \in Runs, Download(r)
      PROVE  TypeInv'
  <2>1. CASE UNCHANGED <<files, todo>>
    BY <1>3, <2>1, DownloadMeans DEF TypeInv, IsListing
  <2>2. CASE ~UNCHANGED <<files, todo>>
    <3>1. PICK p \in todo[r], c \in Contents :
            /\ UNCHANGED <<pc, listing, imported, storage, writes, workspace>>
            /\ files' = [files EXCEPT ![r] =
                 [q \in DOMAIN files[r] \union {p} |-> IF q = p THEN c ELSE files[r][q]]]
            /\ todo' = [todo EXCEPT ![r] = todo[r] \ {p}]
      BY <1>3, <2>2, DownloadMeans
    <3>2. p \in Paths /\ files[r] \in Contexts
      BY DEF TypeInv
    <3>3. [q \in DOMAIN files[r] \union {p} |-> IF q = p THEN c ELSE files[r][q]] \in Contexts
      BY <3>2, AddedFile
    <3>4. files' \in [Runs -> Contexts] /\ todo' \in [Runs -> SUBSET Paths]
      BY <3>1, <3>3 DEF TypeInv
    <3>5. QED
      BY <3>1, <3>4 DEF TypeInv, IsListing
  <2>3. QED
    BY <2>1, <2>2
<1>4. ASSUME NEW r \in Runs, Resolving(r)
      PROVE  TypeInv'
  <2>1. /\ UNCHANGED <<listing, todo, files, storage, writes>>
        /\ DOMAIN workspace' = Targets
        /\ DOMAIN imported' = Runs
    BY <1>4, ResolvingMeans DEF TypeInv
  <2>2. \E to \in {"imported", "create", "collided", "failed"} : pc' = [pc EXCEPT ![r] = to]
    BY <1>4, ResolvingMeans
  <2>3. QED
    BY <2>1, <2>2 DEF TypeInv, IsListing
<1>5. ASSUME NEW s \in BuildSources, NEW p \in Paths, Publish(s, p)
      PROVE  TypeInv'
  <2>1. storage[s] \in Folders /\ writes' \in 0 .. MaxWrites
    BY <1>5, ImportAssumption DEF TypeInv, Publish
  <2>2. \E folder \in Folders : storage' = [storage EXCEPT ![s] = folder]
    <3>1. /\ \A b \in Blobs :
                [q \in DOMAIN storage[s] \union {p} |->
                   IF q = p THEN b ELSE storage[s][q]] \in Folders
          /\ [q \in DOMAIN storage[s] \ {p} |-> storage[s][q]] \in Folders
      BY <2>1, PublishedBlob
    <3>2. QED
      BY <1>5, <3>1 DEF Publish, TypeInv
  <2>3. QED
    BY <1>5, <2>1, <2>2 DEF TypeInv, Publish, IsListing
<1>6. CASE UNCHANGED vars
  BY <1>6 DEF vars, TypeInv, IsListing
<1>7. QED
  BY <1>1, <1>2, <1>3, <1>4, <1>5, <1>6, Steps

(* A run that has not moved keeps its files and its listing.                *)
LEMMA SameFiles ==
  ASSUME NEW q \in Runs, FilesInv(q),
         pc'[q] = pc[q], listing'[q] = listing[q], todo'[q] = todo[q], files'[q] = files[q]
  PROVE  FilesInv(q)'
BY DEF FilesInv

(* The files of every run remain what its listing says of them: a download  *)
(* adds the content that the entry names, and the rest is as it was.        *)
LEMMA FilesStep ==
  ASSUME TypeInv, \A r \in Runs : FilesInv(r), [Next]_vars, NEW q \in Runs
  PROVE  FilesInv(q)'
<1>1. ASSUME NEW r \in Runs, Moving(r)
      PROVE  FilesInv(q)'
  BY <1>1, MovingMeans, SameFiles DEF TypeInv, FilesInv
<1>2. ASSUME NEW r \in Runs, List(r)
      PROVE  FilesInv(q)'
  <2>1. CASE q # r
    BY <1>2, <2>1, ListMeans, SameFiles DEF TypeInv
  <2>2. CASE q = r /\ UNCHANGED <<listing, todo>>
    BY <1>2, <2>2, ListMeans DEF TypeInv, FilesInv
  <2>3. CASE q = r /\ ~UNCHANGED <<listing, todo>>
    <3>1. PICK entries :
            /\ pc' = [pc EXCEPT ![r] = "download"]
            /\ Total(ListedLengths(entries)) <= MaxTotal
            /\ listing' = [listing EXCEPT ![r] = entries]
            /\ todo' = [todo EXCEPT ![r] = DOMAIN entries]
            /\ UNCHANGED files /\ pc[r] = "resolve"
      BY <1>2, <2>3, ListMeans
    <3>2. DOMAIN files[r] = {}
      BY <2>3, <3>1 DEF FilesInv, NoFiles
    <3>3. pc'[q] = "download" /\ listing'[q] = entries /\ todo'[q] = DOMAIN entries
          /\ files'[q] = files[q]
      BY <2>3, <3>1 DEF TypeInv
    <3>4. QED
      BY <2>3, <3>1, <3>2, <3>3 DEF FilesInv
  <2>4. QED
    BY <2>1, <2>2, <2>3
<1>3. ASSUME NEW r \in Runs, Download(r)
      PROVE  FilesInv(q)'
  <2>1. CASE q # r
    <3>1. /\ UNCHANGED listing
          /\ pc' = pc \/ pc' = [pc EXCEPT ![r] = "failed"]
          /\ todo' = todo \/ \E T : todo' = [todo EXCEPT ![r] = T]
          /\ files' = files \/ \E F : files' = [files EXCEPT ![r] = F]
      BY <1>3 DEF Download, Goto
    <3>2. /\ pc'[q] = pc[q] /\ listing'[q] = listing[q]
          /\ todo'[q] = todo[q] /\ files'[q] = files[q]
      BY <2>1, <3>1 DEF TypeInv
    <3>3. QED
      BY <3>2, SameFiles
  <2>2. CASE q = r /\ UNCHANGED <<files, todo>>
    BY <1>3, <2>2, DownloadMeans DEF TypeInv, FilesInv
  <2>3. CASE q = r /\ ~UNCHANGED <<files, todo>>
    <3>1. PICK p \in todo[r], c \in Contents :
            /\ UNCHANGED <<pc, listing>> /\ pc[r] = "download"
            /\ SizeOf[c] = listing[r][p].length /\ c = listing[r][p].md5
            /\ files' = [files EXCEPT ![r] =
                 [x \in DOMAIN files[r] \union {p} |-> IF x = p THEN c ELSE files[r][x]]]
            /\ todo' = [todo EXCEPT ![r] = todo[r] \ {p}]
      BY <1>3, <2>3, DownloadMeans
    <3>2. /\ pc'[q] = "download" /\ listing'[q] = listing[q]
          /\ todo'[q] = todo[q] \ {p}
          /\ files'[q] = [x \in DOMAIN files[q] \union {p} |-> IF x = p THEN c ELSE files[q][x]]
      BY <2>3, <3>1 DEF TypeInv
    <3>3. DOMAIN files'[q] = DOMAIN listing'[q] \ todo'[q]
      BY <2>3, <3>1, <3>2 DEF FilesInv
    <3>4. \A x \in DOMAIN files'[q] :
             /\ files'[q][x] = listing'[q][x].md5
             /\ SizeOf[files'[q][x]] = listing'[q][x].length
      BY <2>3, <3>1, <3>2 DEF FilesInv
    <3>5. QED
      BY <2>3, <3>2, <3>3, <3>4 DEF FilesInv
  <2>4. QED
    BY <2>1, <2>2, <2>3
<1>4. ASSUME NEW r \in Runs, Resolving(r)
      PROVE  FilesInv(q)'
  <2>1. \E to \in {"imported", "create", "collided", "failed"} : pc' = [pc EXCEPT ![r] = to]
    BY <1>4, ResolvingMeans
  <2>2. pc[r] \in {"lookup", "create"} /\ UNCHANGED <<listing, todo, files>>
    BY <1>4, ResolvingMeans
  <2>3. QED
    BY <2>1, <2>2 DEF TypeInv, FilesInv
<1>5. ASSUME NEW s \in BuildSources, NEW p \in Paths, Publish(s, p)
      PROVE  FilesInv(q)'
  BY <1>5, SameFiles DEF Publish
<1>6. CASE UNCHANGED vars
  BY <1>6, SameFiles DEF vars
<1>7. QED
  BY <1>1, <1>2, <1>3, <1>4, <1>5, <1>6, Steps

(* The environments of the workspace remain truthful: what is made says of  *)
(* itself what it is, or nothing.                                           *)
LEMMA WorkspaceStep ==
  ASSUME TypeInv, WorkspaceInv, [Next]_vars
  PROVE  WorkspaceInv'
<1>1. ASSUME NEW r \in Runs, Moving(r) \/ List(r) \/ Download(r)
      PROVE  workspace' = workspace
  BY <1>1 DEF Moving, ResolveImage, Downloaded, Abort, List, Download
<1>2. ASSUME NEW r \in Runs, Resolving(r)
      PROVE  WorkspaceInv'
  <2>1. CASE UNCHANGED workspace
    BY <2>1 DEF WorkspaceInv, Truthful
  <2>2. ASSUME NEW said \in {{}, {Provenance(r, files[r])}},
               workspace' = [workspace EXCEPT ![Target(r)] = Environment(r, files[r], said)]
        PROVE  WorkspaceInv'
    <3>1. Truthful(Environment(r, files[r], said))
      BY DEF TypeInv, Truthful, Environment, Provenance
    <3>2. \A t \in Targets : workspace'[t] = workspace[t]
                             \/ workspace'[t] = Environment(r, files[r], said)
      BY <2>2 DEF TypeInv
    <3>3. \A t \in Targets : workspace'[t] # NoEnvironment => Truthful(workspace'[t])
      BY <3>1, <3>2 DEF WorkspaceInv
    <3>4. QED
      BY <3>3 DEF WorkspaceInv, Truthful
  <2>3. QED
    BY <1>2, <2>1, <2>2, ResolvingMeans
<1>3. ASSUME NEW s \in BuildSources, NEW p \in Paths, Publish(s, p)
      PROVE  workspace' = workspace
  BY <1>3 DEF Publish
<1>4. workspace' = workspace => WorkspaceInv'
  BY DEF WorkspaceInv, Truthful
<1>5. QED
  BY <1>1, <1>2, <1>3, <1>4, Steps DEF vars

(* What is imported is the run's own: it has the provenance of the run's    *)
(* download, and what it says is true.                                      *)
LEMMA ImportedStep ==
  ASSUME TypeInv, WorkspaceInv', \A r \in Runs : ImportedInv(r), [Next]_vars, NEW q \in Runs
  PROVE  ImportedInv(q)'
<1>1. ASSUME pc'[q] = pc[q] \/ pc'[q] # "imported", imported'[q] = imported[q],
             files'[q] = files[q] \/ pc'[q] # "imported"
      PROVE  ImportedInv(q)'
  BY <1>1 DEF ImportedInv, Truthful
<1>2. ASSUME NEW r \in Runs, Resolving(r)
      PROVE  ImportedInv(q)'
  <2>1. CASE q # r
    <3>1. /\ UNCHANGED files
          /\ \E to : pc' = [pc EXCEPT ![r] = to]
          /\ imported' = imported \/ \E e : imported' = [imported EXCEPT ![r] = e]
      BY <1>2, ResolvingMeans
    <3>2. pc'[q] = pc[q] /\ imported'[q] = imported[q] /\ files'[q] = files[q]
      BY <2>1, <3>1 DEF TypeInv
    <3>3. QED
      BY <1>1, <3>2
  <2>2. CASE q = r /\ \E to \in {"create", "collided", "failed"} : pc' = [pc EXCEPT ![r] = to]
                       /\ UNCHANGED imported
    <3>1. pc'[q] # "imported" /\ imported'[q] = imported[q]
      BY <2>2 DEF TypeInv
    <3>2. QED
      BY <1>1, <3>1
  <2>3. CASE q = r /\ Valid(r, workspace'[Target(r)])
                  /\ imported' = [imported EXCEPT ![r] = workspace'[Target(r)]]
    <3> DEFINE found == workspace'[Target(r)]
    <3>1. Valid(r, found) /\ UNCHANGED files
      BY <1>2, <2>3, ResolvingMeans
    <3>2. found # NoEnvironment /\ Truthful(found)
      BY <3>1 DEF Valid, WorkspaceInv, Target, Source, Targets, Sources, References, Truthful
    <3>3. imported'[q] = found /\ files'[q] = files[r]
      BY <2>3, <3>1 DEF TypeInv
    <3>4. found.source = Source(r) /\ found.context = files[r]
      BY <3>1, <3>2 DEF Valid, Truthful, Provenance
    <3>5. Truthful(imported'[q])
      BY <3>2, <3>3
    <3> HIDE DEF found
    <3>6. QED
      BY <2>3, <3>3, <3>4, <3>5 DEF ImportedInv, Truthful, Source
  <2>4. QED
    BY <1>2, <2>1, <2>2, <2>3, ResolvingMeans
<1>3. ASSUME NEW r \in Runs, Moving(r) \/ List(r)
      PROVE  ImportedInv(q)'
  <2>1. pc'[q] = pc[q] \/ pc'[q] # "imported"
    BY <1>3, MovingMeans, ListMeans DEF TypeInv
  <2>2. imported' = imported /\ files' = files
    BY <1>3, MovingMeans, ListMeans
  <2>3. QED
    BY <1>1, <2>1, <2>2
<1>4. ASSUME NEW r \in Runs, Download(r)
      PROVE  ImportedInv(q)'
  <2>1. /\ imported' = imported
        /\ UNCHANGED pc \/ pc' = [pc EXCEPT ![r] = "failed"]
        /\ pc[r] = "download"
        /\ \A x \in Runs : x # r => files'[x] = files[x]
    BY <1>4 DEF Download, Goto, TypeInv
  <2>2. QED
    BY <1>1, <2>1 DEF TypeInv
<1>5. ASSUME NEW s \in BuildSources, NEW p \in Paths, Publish(s, p)
      PROVE  ImportedInv(q)'
  BY <1>1, <1>5 DEF Publish
<1>6. CASE UNCHANGED vars
  BY <1>1, <1>6 DEF vars
<1>7. QED
  BY <1>2, <1>3, <1>4, <1>5, <1>6, Steps

(* The invariant holds of the initial states.                               *)
LEMMA InitInv == Init => IInv
<1> SUFFICES ASSUME Init PROVE IInv
  OBVIOUS
<1>1. TypeInv
  <2>1. NoFiles \in Contexts
    BY ContextForm DEF NoFiles
  <2>2. IsListing(NoFiles)
    BY DEF IsListing, NoFiles
  <2>3. QED
    BY <2>1, <2>2, ImportAssumption DEF Init, TypeInv
<1>2. \A r \in Runs : FilesInv(r)
  <2>1. ListedLengths(NoFiles) \in [{} -> Nat]
    BY DEF ListedLengths, NoFiles
  <2>2. Total(ListedLengths(NoFiles)) = 0
    BY <2>1, NoTotal
  <2>3. QED
    BY <2>2, ImportAssumption DEF Init, FilesInv, NoFiles
<1>3. WorkspaceInv /\ \A r \in Runs : ImportedInv(r)
  BY DEF Init, WorkspaceInv, ImportedInv
<1>4. QED
  BY <1>1, <1>2, <1>3 DEF IInv

(* Every step keeps it.                                                     *)
LEMMA NextInv == IInv /\ [Next]_vars => IInv'
<1> SUFFICES ASSUME IInv, [Next]_vars PROVE IInv'
  OBVIOUS
<1>1. TypeInv' /\ WorkspaceInv'
  BY TypeStep, WorkspaceStep DEF IInv
<1>2. \A r \in Runs : FilesInv(r)'
  BY FilesStep DEF IInv
<1>3. \A r \in Runs : ImportedInv(r)'
  BY <1>1, ImportedStep DEF IInv
<1>4. QED
  BY <1>1, <1>2, <1>3 DEF IInv

(* The layers together hold in every state of the imports.                  *)
THEOREM Inductive == Spec => []IInv
BY InitInv, NextInv, PTL DEF Spec

(* Every variable of an import keeps its type, and its files are those      *)
(* listed that are no longer to be downloaded.                              *)
THEOREM TypeCorrect == Spec => []TypeOK
<1>1. IInv => TypeOK
  BY DEF IInv, TypeInv, FilesInv, ImportedInv, Truthful, TypeOK
<1>2. QED
  BY Inductive, <1>1, PTL

(* Once a run has downloaded all it listed, its files are what the listing  *)
(* claims.                                                                  *)
LEMMA FilesAreListed ==
  ASSUME TypeInv, NEW r \in Runs, FilesInv(r), todo[r] = {}
  PROVE  files[r] = Claimed(listing[r])
<1>1. files[r] \in Contexts
  BY DEF TypeInv
<1>2. files[r] = [p \in DOMAIN files[r] |-> files[r][p]]
  BY <1>1, ContextForm
<1>3. DOMAIN files[r] = DOMAIN listing[r]
  BY DEF FilesInv
<1>4. \A p \in DOMAIN files[r] : files[r][p] = listing[r][p].md5
  BY DEF FilesInv
<1>5. QED
  BY <1>2, <1>3, <1>4 DEF Claimed

(* What an import returns is made of the very contents it listed, whatever  *)
(* was published meanwhile and whoever created the environment.             *)
THEOREM ListedCorrect == Spec => []ImportsWhatItListed
<1>1. ASSUME IInv, NEW r \in Runs, pc[r] = "imported"
      PROVE  imported[r].context = Claimed(listing[r])
  <2>1. imported[r].context = files[r] /\ FilesInv(r) /\ todo[r] = {}
    BY <1>1 DEF IInv, ImportedInv, FilesInv
  <2>2. QED
    BY <1>1, <2>1, FilesAreListed DEF IInv
<1>2. IInv => ImportsWhatItListed
  BY <1>1 DEF ImportsWhatItListed, Claimed
<1>3. QED
  BY Inductive, <1>2, PTL

(* It was made of the run's own registry environment, whatever other ones   *)
(* have the same name in the workspace.                                     *)
THEOREM OwnSourceCorrect == Spec => []ImportsItsOwnSource
<1>1. IInv => ImportsItsOwnSource
  BY DEF IInv, ImportedInv, ImportsItsOwnSource
<1>2. QED
  BY Inductive, <1>1, PTL

(* The files a run has written are within the total limit at every moment.  *)
THEOREM BoundedCorrect == Spec => []DownloadBounded
<1>1. ASSUME IInv, NEW r \in Runs
      PROVE  Total([p \in DOMAIN files[r] |-> SizeOf[files[r][p]]]) <= MaxTotal
  <2> DEFINE S == DOMAIN listing[r]
             T == DOMAIN files[r]
             g == ListedLengths(listing[r])
             e == [p \in T |-> SizeOf[files[r][p]]]
  <2>1. S \in SUBSET Paths /\ T \in SUBSET S
    BY <1>1 DEF IInv, TypeInv, IsListing, FilesInv
  <2>2. g \in [S -> Nat]
    BY <1>1 DEF IInv, TypeInv, IsListing, Entries, ListedLengths
  <2>3. e \in [T -> Nat] /\ \A p \in T : e[p] = g[p]
    <3>1. \A p \in T : SizeOf[files[r][p]] = listing[r][p].length
      BY <1>1 DEF IInv, FilesInv
    <3>2. \A p \in T : e[p] = g[p]
      BY <2>1, <3>1 DEF ListedLengths
    <3>3. QED
      <4> HIDE DEF S, g
      <4>1. \A p \in T : g[p] \in Nat
        BY <2>1, <2>2
      <4>2. QED
        BY <3>2, <4>1
  <2>4. Total(g) <= MaxTotal
    BY <1>1 DEF IInv, FilesInv
  <2>5. Total(g) \in Nat /\ Total(e) <= Total(g)
    <3> HIDE DEF S, T, g, e
    <3> QED
      BY <2>1, <2>2, <2>3, PartOfTotal
  <2>6. Total(e) \in Nat
    <3> HIDE DEF S, T, g, e
    <3>1. T \in SUBSET Paths
      BY <2>1
    <3> QED
      BY <2>3, <3>1, PartOfTotal
  <2>7. Total(e) <= MaxTotal
    <3> HIDE DEF S, T, g, e
    <3> QED
      BY <2>4, <2>5, <2>6, ImportAssumption
  <2>8. QED
    BY <2>7
<1>2. IInv => DownloadBounded
  BY <1>1 DEF DownloadBounded
<1>3. QED
  BY Inductive, <1>2, PTL

-----------------------------------------------------------------------------
(***************************************************************************)
(* The import implements ImportContract.  The listing of a build context is*)
(* its Copy, and so is the resolution of an image; the downloads and a look*)
(* up that finds nothing stutter; a valid environment, found or created, is*)
(* its Deliver, and every other end of a run is its Refuse.                *)
(***************************************************************************)

(* The initial states are initial states of the contract.                   *)
LEMMA InitMaps == Init => Contract!Init
<1> SUFFICES ASSUME Init PROVE Contract!Init
  OBVIOUS
<1>1. Offered \in [Sources -> Claims]
  <2>1. ImageContext \in Claims
    BY DEF ImageContext, NoFiles, Claims
  <2>2. \A f \in Folders : Claimed(f) \in Claims
    BY FolderForm DEF Claimed, Claims, Blobs
  <2>3. \A s \in BuildSources : storage[s] \in Folders
    BY DEF Init
  <2>4. QED
    BY <2>1, <2>2, <2>3 DEF Offered, BuildSources
<1>2. Versions = [t \in Targets |-> NoEnvironment]
  BY DEF Init, Versions, MadeOf
<1>3. Imports = [r \in Runs |-> [at |-> "asked"]]
  BY DEF Init, Imports, Progress
<1>4. QED
  BY <1>1, <1>2, <1>3 DEF Contract!Init, Contract!NoVersion, NoEnvironment, Targets

(* A run's step changes what its own import has come to only.               *)
LEMMA OnlyOwnProgress ==
  ASSUME NEW r \in Runs,
         \A q \in Runs \ {r} : /\ pc'[q] = pc[q] /\ listing'[q] = listing[q]
                               /\ imported'[q] = imported[q]
  PROVE  Imports' = [Imports EXCEPT ![r] = Progress(r)']
<1>1. \A q \in Runs \ {r} : Progress(q)' = Progress(q)
  BY DEF Progress, Claimed
<1>2. QED
  BY <1>1 DEF Imports

(* What the steps of runs leave alone.                                      *)
LEMMA SameOffers == storage' = storage => Offered' = Offered
BY DEF Offered, Claimed

LEMMA SameVersions == workspace' = workspace => Versions' = Versions
BY DEF Versions, MadeOf

(* A run that copies.                                                       *)
LEMMA CopyMaps ==
  ASSUME TypeInv, NEW r \in Runs, pc[r] = "resolve",
         NEW to \in {"lookup", "download"}, pc' = [pc EXCEPT ![r] = to],
         \A q \in Runs \ {r} : listing'[q] = listing[q],
         Claimed(listing'[r]) = Offered[Source(r)], UNCHANGED <<imported, storage, workspace>>
  PROVE  Contract!Copy(r)
<1>1. Progress(r) = [at |-> "asked"]
  BY DEF Progress
<1>2. Progress(r)' = [at |-> "copied", context |-> Offered[Source(r)]]
  <2>1. pc'[r] = to
    BY DEF TypeInv
  <2>2. QED
    BY <2>1 DEF Progress, Claimed, Stopped
<1>3. Imports' = [Imports EXCEPT ![r] = Progress(r)']
  BY OnlyOwnProgress DEF TypeInv
<1>4. Offered' = Offered /\ Versions' = Versions
  BY SameOffers, SameVersions
<1>5. Imports[r].at = "asked"
  BY <1>1 DEF Imports
<1>6. QED
  BY <1>2, <1>3, <1>4, <1>5 DEF Contract!Copy

(* A run that has not ended, before it has copied or after.                 *)
LEMMA Underway ==
  ASSUME TypeInv, NEW r \in Runs, pc[r] \notin Stopped
  PROVE  /\ Imports[r] = Progress(r)
         /\ Progress(r).at \in {"asked", "copied"}
         /\ pc[r] # "resolve" =>
              Progress(r) = [at |-> "copied", context |-> Claimed(listing[r])]
BY DEF Imports, Progress, Stopped

(* A step of a run that has copied, and goes on, changes nothing of the     *)
(* contract.                                                                *)
LEMMA QuietMaps ==
  ASSUME TypeInv, NEW r \in Runs, pc[r] \in {"download", "lookup", "create"},
         NEW to \in {"download", "lookup", "create"}, pc' = [pc EXCEPT ![r] = to],
         UNCHANGED <<listing, imported, storage, workspace>>
  PROVE  UNCHANGED Contract!vars
<1>1. \A q \in Runs : Progress(q)' = Progress(q)
  BY DEF TypeInv, Progress, Claimed, Stopped
<1>2. Imports' = Imports
  BY <1>1 DEF Imports
<1>3. QED
  BY <1>2, SameOffers, SameVersions DEF Contract!vars

(* What the creation of an environment makes of the contract's versions.    *)
LEMMA MakeMaps ==
  ASSUME TypeInv, NEW r \in Runs, FilesInv(r), Create(r)
  PROVE  Contract!Make(r)
<1>1. pc[r] = "create" /\ workspace[Target(r)] = NoEnvironment
  BY DEF Create
<1>2. PICK said : workspace' = [workspace EXCEPT ![Target(r)] = Environment(r, files[r], said)]
  BY DEF Create
<1>3. Target(r) \in Targets
  BY DEF Target, Source, Targets, Sources, References
<1>4. files[r] = Claimed(listing[r])
  BY <1>1, FilesAreListed DEF FilesInv
<1>5. MadeOf(Environment(r, files[r], said)) =
        [source |-> Source(r), context |-> Claimed(listing[r])]
  <2>1. "context" \in DOMAIN Environment(r, files[r], said)
    BY DEF Environment
  <2>2. "context" \notin DOMAIN NoEnvironment
    BY DEF NoEnvironment
  <2>3. Environment(r, files[r], said) # NoEnvironment
    BY <2>1, <2>2
  <2>4. QED
    BY <1>4, <2>3 DEF MadeOf, Environment
<1>6. Versions' = [Versions EXCEPT ![Target(r)] =
                     [source |-> Source(r), context |-> Claimed(listing[r])]]
  BY <1>2, <1>3, <1>5 DEF Versions, TypeInv
<1>7. Versions[Target(r)] = Contract!NoVersion
  BY <1>1, <1>3 DEF Versions, MadeOf, Contract!NoVersion, NoEnvironment
<1>8. Imports[r] = [at |-> "copied", context |-> Claimed(listing[r])]
  BY <1>1, Underway DEF Stopped
<1>9. QED
  BY <1>6, <1>7, <1>8 DEF Contract!Make, Contract!Version, Target

(* A run that ends without an environment; it may have made one.            *)
LEMMA RefuseMaps ==
  ASSUME TypeInv, NEW r \in Runs, pc[r] \notin Stopped,
         NEW to \in {"failed", "collided"}, pc' = [pc EXCEPT ![r] = to],
         UNCHANGED <<listing, imported, storage>>,
         Contract!Make(r) \/ workspace' = workspace
  PROVE  Contract!Refuse(r)
<1>1. Imports[r].at \in {"asked", "copied"}
  BY Underway
<1>2. Imports' = [Imports EXCEPT ![r] = [at |-> "refused"]]
  <2>1. Progress(r)' = [at |-> "refused"]
    BY DEF TypeInv, Progress
  <2>2. Imports' = [Imports EXCEPT ![r] = Progress(r)']
    BY OnlyOwnProgress DEF TypeInv
  <2>3. QED
    BY <2>1, <2>2
<1>3. QED
  BY <1>1, <1>2, SameOffers, SameVersions DEF Contract!Refuse

(* A run that ends with an environment: it is valid, so it was made of what *)
(* the run has copied; the run has made it, or found it.                    *)
LEMMA DeliverMaps ==
  ASSUME TypeInv, NEW r \in Runs, FilesInv(r), WorkspaceInv',
         pc[r] \in {"lookup", "create"}, pc' = [pc EXCEPT ![r] = "imported"],
         Valid(r, workspace'[Target(r)]),
         imported' = [imported EXCEPT ![r] = workspace'[Target(r)]],
         UNCHANGED <<listing, storage>>,
         Contract!Make(r) \/ workspace' = workspace
  PROVE  Contract!Deliver(r)
<1> DEFINE found == workspace'[Target(r)]
           version == [source |-> Source(r), context |-> Claimed(listing[r])]
<1>1. Target(r) \in Targets
  BY DEF Target, Source, Targets, Sources, References
<1>2. files[r] = Claimed(listing[r])
  BY FilesAreListed DEF FilesInv
<1>3. found # NoEnvironment /\ found.provenance = {Provenance(r, files[r])}
  BY DEF Valid
<1>4. \A said \in found.provenance : said.source = found.source /\ said.manifest = found.context
  BY <1>1, <1>3 DEF WorkspaceInv, Truthful
<1>5. MadeOf(found) = version
  BY <1>2, <1>3, <1>4 DEF MadeOf, Provenance
<1>6. Imports[r] = [at |-> "copied", context |-> Claimed(listing[r])]
  BY Underway DEF Stopped
<1>7. Contract!Version(r) = version
  BY <1>6 DEF Contract!Version
<1>8. Imports' = [Imports EXCEPT ![r] = [at |-> "delivered", version |-> version]]
  <2>1. pc'[r] = "imported" /\ imported'[r] = found
    BY DEF TypeInv
  <2>2. Progress(r)' = [at |-> "delivered", version |-> version]
    BY <1>5, <2>1 DEF Progress, MadeOf
  <2>3. Imports' = [Imports EXCEPT ![r] = Progress(r)']
    BY OnlyOwnProgress DEF TypeInv
  <2>4. QED
    BY <2>2, <2>3
<1>9. CASE Contract!Make(r)
  BY <1>6, <1>7, <1>8, <1>9, SameOffers DEF Contract!Deliver
<1>10. CASE workspace' = workspace
  <2>1. Versions[Target(r)] = version
    BY <1>1, <1>5, <1>10 DEF Versions
  <2>2. QED
    BY <1>6, <1>7, <1>8, <1>10, <2>1, SameOffers, SameVersions
       DEF Contract!Deliver, Target
<1>11. QED
  BY <1>9, <1>10

(* A change of the registry's storage is a new claim of one source.         *)
LEMMA PublishMaps ==
  ASSUME TypeInv, TypeInv', NEW s \in BuildSources, NEW p \in Paths, Publish(s, p)
  PROVE  Contract!Claim(s)
<1>1. \A x \in BuildSources \ {s} : storage'[x] = storage[x]
  BY DEF Publish, TypeInv
<1>2. Claimed(storage'[s]) \in Claims
  <2>1. storage'[s] \in Folders
    BY DEF TypeInv
  <2>2. QED
    BY <2>1, FolderForm DEF Claimed, Claims, Blobs
<1>3. Offered' = [Offered EXCEPT ![s] = Claimed(storage'[s])]
  BY <1>1 DEF Offered, Claimed, BuildSources
<1>4. Imports' = Imports /\ Versions' = Versions
  BY SameVersions DEF Publish, Imports, Progress, Claimed
<1>5. QED
  BY <1>2, <1>3, <1>4 DEF Contract!Claim

(* Every step of a run is a step of the contract or a stutter.              *)
LEMMA RunMaps ==
  ASSUME IInv, IInv', NEW r \in Runs, Step(r) \/ Abort(r)
  PROVE  [Contract!Next]_(Contract!vars)
<1>1. TypeInv /\ FilesInv(r) /\ WorkspaceInv'
  BY DEF IInv
<1>2. ASSUME pc[r] \notin Stopped, NEW to \in {"failed", "collided"},
             pc' = [pc EXCEPT ![r] = to], UNCHANGED <<listing, imported, storage>>,
             Contract!Make(r) \/ workspace' = workspace
      PROVE  Contract!Next
  BY <1>1, <1>2, RefuseMaps DEF Contract!Next
<1>3. CASE ResolveImage(r)
  <2>1. UNCHANGED listing /\ listing[r] = NoFiles
    BY <1>1, <1>3 DEF ResolveImage, FilesInv
  <2>2. Claimed(listing[r]) = Offered[Source(r)]
    BY <1>3, <2>1 DEF ResolveImage, Claimed, NoFiles, Offered, ImageContext, Source, Sources, References
  <2>3. Contract!Copy(r)
    BY <1>1, <1>3, <2>1, <2>2, CopyMaps DEF ResolveImage, Goto, Claimed
  <2>4. QED
    BY <2>3 DEF Contract!Next
<1>4. CASE List(r)
  <2> DEFINE folder == storage[Source(r)]
             entries == [p \in DOMAIN folder |->
                           [length |-> Sizes(folder)[p], md5 |-> folder[p].md5]]
  <2>1. CASE Acceptable(folder)
    <3>1. Claimed(entries) = Offered[Source(r)]
      BY <1>4 DEF List, Claimed, Offered, Source, Sources, References
    <3>2. /\ listing' = [listing EXCEPT ![r] = entries]
          /\ pc' = [pc EXCEPT ![r] = "download"]
      BY <1>4, <2>1 DEF List, Goto
    <3> HIDE DEF entries
    <3>3. listing'[r] = entries /\ \A q \in Runs \ {r} : listing'[q] = listing[q]
      BY <1>1, <3>2 DEF TypeInv
    <3>4. Contract!Copy(r)
      BY <1>1, <1>4, <3>1, <3>2, <3>3, CopyMaps DEF List
    <3>5. QED
      BY <3>4 DEF Contract!Next
  <2>2. CASE ~Acceptable(folder)
    BY <1>2, <1>4, <2>2 DEF List, Goto, Stopped
  <2>3. QED
    BY <2>1, <2>2
<1>5. CASE Download(r)
  <2>1. CASE UNCHANGED pc
    <3>1. pc' = [pc EXCEPT ![r] = "download"]
      BY <1>1, <1>5, <2>1 DEF Download, TypeInv
    <3>2. QED
      BY <1>1, <1>5, <3>1, QuietMaps DEF Download
  <2>2. CASE pc' = [pc EXCEPT ![r] = "failed"]
    BY <1>2, <1>5, <2>2 DEF Download, Stopped
  <2>3. QED
    BY <1>5, <2>1, <2>2 DEF Download, Goto
<1>6. CASE Downloaded(r)
  <2>1. CASE pc' = [pc EXCEPT ![r] = "lookup"]
    BY <1>1, <1>6, <2>1, QuietMaps DEF Downloaded
  <2>2. CASE pc' = [pc EXCEPT ![r] = "failed"]
    BY <1>2, <1>6, <2>2 DEF Downloaded, Stopped
  <2>3. QED
    BY <1>6, <2>1, <2>2 DEF Downloaded, Goto
<1>7. CASE Resolving(r)
  <2>1. pc[r] \in {"lookup", "create"} /\ UNCHANGED <<listing, storage>>
    BY <1>1, <1>7, ResolvingMeans
  <2>2. Contract!Make(r) \/ workspace' = workspace
    BY <1>1, <1>7, MakeMaps DEF Resolving, LookUp, CreateLate
  <2>3. CASE /\ pc' = [pc EXCEPT ![r] = "imported"]
             /\ Valid(r, workspace'[Target(r)])
             /\ imported' = [imported EXCEPT ![r] = workspace'[Target(r)]]
    <3>1. Contract!Deliver(r)
      BY <1>1, <2>1, <2>2, <2>3, DeliverMaps
    <3>2. QED
      BY <3>1 DEF Contract!Next
  <2>4. CASE /\ \E to \in {"collided", "failed"} : pc' = [pc EXCEPT ![r] = to]
             /\ UNCHANGED imported
    BY <1>2, <2>1, <2>2, <2>4 DEF Stopped
  <2>5. CASE pc' = [pc EXCEPT ![r] = "create"] /\ UNCHANGED <<imported, workspace>>
    BY <1>1, <2>1, <2>5, QuietMaps
  <2>6. pc' = [pc EXCEPT ![r] = "create"] => workspace' = workspace
    BY <1>1, <1>7 DEF Resolving, LookUp, Create, CreateLate, Accept, Goto, TypeInv
  <2>7. QED
    BY <1>1, <1>7, <2>3, <2>4, <2>5, <2>6, ResolvingMeans
<1>8. CASE Abort(r)
  BY <1>2, <1>8 DEF Abort, Goto
<1>9. QED
  BY <1>3, <1>4, <1>5, <1>6, <1>7, <1>8 DEF Step, Resolving

(* The import of create_batch_deployment.py:482-781 is as if it had copied   *)
(* its source at one moment.                                                *)
THEOREM ContractKept == Spec => KeepsContract
<1>1. IInv /\ IInv' /\ [Next]_vars => [Contract!Next]_(Contract!vars)
  <2> SUFFICES ASSUME IInv, IInv', [Next]_vars PROVE [Contract!Next]_(Contract!vars)
    OBVIOUS
  <2>1. CASE UNCHANGED vars
    <3>1. Imports' = Imports
      BY <2>1 DEF vars, Imports, Progress, Claimed
    <3>2. QED
      BY <2>1, <3>1, SameOffers, SameVersions DEF vars, Contract!vars
  <2>2. ASSUME NEW s \in BuildSources, NEW p \in Paths, Publish(s, p)
        PROVE  Contract!Next
    BY <2>2, PublishMaps DEF IInv, Contract!Next, BuildSources
  <2>3. QED
    BY <2>1, <2>2, RunMaps DEF Next
<1>2. QED
  BY InitMaps, Inductive, <1>1, PTL DEF Spec, KeepsContract, Contract!Spec

-----------------------------------------------------------------------------
(***************************************************************************)
(* Why the imports end: a step of a run takes it to a later place, or has  *)
(* one path less to download, and no other run is touched.                 *)
(***************************************************************************)
Stage(r) ==
  CASE pc[r] = "resolve" -> 0
    [] pc[r] = "download" -> 1
    [] pc[r] = "lookup" -> 2
    [] pc[r] = "create" -> 3
    [] OTHER -> 4

Further(r) ==
  \/ Stage(r)' > Stage(r)
  \/ /\ Stage(r)' = Stage(r)
     /\ todo'[r] \subseteq todo[r] /\ todo'[r] # todo[r]

Place(r) == <<pc[r], listing[r], todo[r], files[r], imported[r]>>

Advance ==
  \/ \E r \in Runs : Further(r) /\ \A q \in Runs \ {r} : UNCHANGED Place(q)
  \/ writes' > writes /\ \A q \in Runs : UNCHANGED Place(q)

(* No import is kept busy for ever by a storage that changes under it: a    *)
(* download never puts a path back, and a refused one is not repeated       *)
(* (create_batch_deployment.py:510-551).                                    *)
AlwaysFurther == [][Advance]_vars

(* Every step is progress of one import, or a change of the storage.        *)
THEOREM AlwaysFurtherCorrect == Spec => AlwaysFurther
<1>1. ASSUME IInv, NEW r \in Runs, Step(r) \/ Abort(r), NEW q \in Runs \ {r}
      PROVE  UNCHANGED Place(q)
  <2>1. TypeInv /\ FilesInv(r)
    BY <1>1 DEF IInv
  <2>2. CASE Moving(r)
    BY <2>1, <2>2, MovingMeans DEF TypeInv, Place
  <2>3. CASE List(r)
    <3>1. /\ UNCHANGED <<files, imported>>
          /\ \E to : pc' = [pc EXCEPT ![r] = to]
          /\ listing' = listing \/ \E entries : listing' = [listing EXCEPT ![r] = entries]
          /\ todo' = todo \/ \E T : todo' = [todo EXCEPT ![r] = T]
      BY <2>3 DEF List, Goto
    <3>2. QED
      BY <2>1, <3>1 DEF TypeInv, Place
  <2>4. CASE Download(r)
    <3>1. /\ UNCHANGED <<listing, imported>>
          /\ pc' = pc \/ pc' = [pc EXCEPT ![r] = "failed"]
          /\ todo' = todo \/ \E T : todo' = [todo EXCEPT ![r] = T]
          /\ files' = files \/ \E F : files' = [files EXCEPT ![r] = F]
      BY <2>4 DEF Download, Goto
    <3>2. QED
      BY <2>1, <3>1 DEF TypeInv, Place
  <2>5. CASE Resolving(r)
    <3>1. /\ UNCHANGED <<listing, todo, files>>
          /\ \E to : pc' = [pc EXCEPT ![r] = to]
          /\ imported' = imported \/ \E e : imported' = [imported EXCEPT ![r] = e]
      BY <2>1, <2>5, ResolvingMeans
    <3>2. QED
      BY <2>1, <3>1 DEF TypeInv, Place
  <2>6. QED
    BY <1>1, <2>2, <2>3, <2>4, <2>5 DEF Step, Moving, Resolving
<1>2. ASSUME TypeInv, NEW r \in Runs, FilesInv(r), Step(r) \/ Abort(r)
      PROVE  Further(r)
  <2> USE DEF Further, Stage, Stopped
  <2>1. CASE Moving(r)
    BY <1>2, <2>1, MovingMeans DEF TypeInv, Moving, ResolveImage, Downloaded, Abort, Goto
  <2>2. CASE List(r)
    BY <1>2, <2>2 DEF TypeInv, List, Goto
  <2>3. CASE Download(r)
    <3>1. pc[r] = "download"
      BY <2>3 DEF Download
    <3>2. CASE pc' = [pc EXCEPT ![r] = "failed"]
      BY <1>2, <3>1, <3>2 DEF TypeInv
    <3>3. ASSUME UNCHANGED pc, NEW p \in todo[r], todo' = [todo EXCEPT ![r] = todo[r] \ {p}]
          PROVE  Further(r)
      BY <1>2, <3>3 DEF TypeInv
    <3>4. QED
      BY <1>2, <2>3, <3>2, <3>3, DownloadMeans
  <2>4. CASE LookUp(r) \/ CreateLate(r)
    BY <1>2, <2>4 DEF TypeInv, LookUp, CreateLate, Accept, Goto
  <2>5. CASE Create(r)
    BY <1>2, <2>5 DEF TypeInv, Create, Accept, Goto
  <2>6. QED
    BY <1>2, <2>1, <2>2, <2>3, <2>4, <2>5 DEF Step, Moving
<1>3. IInv /\ [Next]_vars => [Advance]_vars
  <2> SUFFICES ASSUME IInv, Next PROVE Advance
    OBVIOUS
  <2>1. ASSUME NEW r \in Runs, Step(r) \/ Abort(r) PROVE Advance
    BY <1>1, <1>2, <2>1 DEF IInv, Advance
  <2>2. ASSUME NEW s \in BuildSources, NEW p \in Paths, Publish(s, p) PROVE Advance
    BY <2>2, ImportAssumption DEF IInv, TypeInv, Publish, Advance, Place
  <2>3. QED
    BY <2>1, <2>2 DEF Next
<1>4. QED
  BY Inductive, <1>3, PTL DEF Spec, AlwaysFurther
=============================================================================
