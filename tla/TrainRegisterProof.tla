------------------------- MODULE TrainRegisterProof -------------------------
(***************************************************************************)
(* Proofs about the training runs of TrainRegister.tla, for any runs, any  *)
(* children of a job, any files and any limits of the diagnostics.         *)
(***************************************************************************)
EXTENDS TrainRegister, SequenceTheorems, WellFoundedInduction, TLAPS

(***************************************************************************)
(* A run that has come to the registration has found its job completed,    *)
(* which no job ceases to be; it puts one version, and what it was answered*)
(* and what it publishes name that version.                                *)
(***************************************************************************)
BeforeRegistering ==
  {"submit", "announce", "wait", "list", "diagnose", "register", "raised"}

RegistrationInv(r) ==
  /\ pc[r] \in {"register", "registering", "done"} => status[r] = "Completed"
  /\ pc[r] = "submit" => status[r] = "none"
  /\ pc[r] \in {"wait", "register", "registering"} => output[r].job
  /\ pc[r] = "registering" => output[r].version = 0
  /\ pc[r] \in BeforeRegistering => reply[r] = 0 /\ output[r].version = 0
  /\ pc[r] \in BeforeRegistering => \A v \in DOMAIN models : models[v] # r
  /\ reply[r] # 0 => models[reply[r]] = r
  /\ output[r].version # 0 => models[output[r].version] = r /\ output[r].job

(***************************************************************************)
(* The visited and the unvisited jobs together are those to be diagnosed;  *)
(* what was printed about a visited job is one of the reports of           *)
(* Diagnostics.tla.                                                        *)
(***************************************************************************)
ToDiagnose(r) == IF failing[r] = {} THEN {Parent} ELSE failing[r]

DiagnosisInv(r) ==
  /\ pc[r] \in {"submit", "announce", "wait", "list"} => diagnosed[r] = {}
  /\ pc[r] = "diagnose" => diagnosed[r] \union undiagnosed[r] = ToDiagnose(r)
  /\ pc[r] = "raised" => diagnosed[r] = ToDiagnose(r)
  /\ reports[r] \subseteq Reports

IInv ==
  /\ TypeOK
  /\ OnlyCompletedRegistered
  /\ RegistersOnce
  /\ \A r \in Runs : RegistrationInv(r) /\ DiagnosisInv(r)

-----------------------------------------------------------------------------
(***************************************************************************)
(* Functions that are defined by recursion over the naturals: what each    *)
(* value is made of, step has as a function of the place and of the value  *)
(* before.                                                                 *)
(***************************************************************************)
Recurs(f, n, first, step) ==
  /\ f[0] = first
  /\ \A i \in 1 .. n : f[i] = step[<<i, f[i - 1]>>]

(* Every non-empty set of naturals has a least element.                     *)
LEMMA LeastNatural ==
  ASSUME NEW T \in SUBSET Nat, T # {}
  PROVE  \E n \in T : \A m \in T : n <= m
<1>1. PICK n \in T : \A m \in T : ~(<<m, n>> \in OpToRel(<, Nat))
  BY NatLessThanWellFounded, WFMin
<1>2. \A m \in T : ~(m < n)
  BY <1>1 DEF OpToRel
<1>3. QED
  BY <1>2

(* There is such a function up to every number: were there a number without *)
(* one, the function up to the number before the least of them would give   *)
(* it one.                                                                  *)
LEMMA RecursionExists ==
  ASSUME NEW X, NEW first \in X, NEW m \in Nat, NEW step \in [(1 .. m) \X X -> X]
  PROVE  \E f \in [0 .. m -> X] : Recurs(f, m, first, step)
<1> DEFINE Without == {n \in 0 .. m : ~\E f \in [0 .. n -> X] : Recurs(f, n, first, step)}
<1>1. SUFFICES ASSUME Without # {} PROVE FALSE
  BY DEF Recurs
<1>2. PICK n \in Without : \A k \in Without : n <= k
  <2>1. Without \in SUBSET Nat
    OBVIOUS
  <2>2. QED
    <3> HIDE DEF Without
    <3> QED
      BY <1>1, <2>1, LeastNatural
<1>3. CASE n = 0
  <2> DEFINE f == [i \in 0 .. 0 |-> first]
  <2>1. f \in [0 .. 0 -> X] /\ Recurs(f, 0, first, step)
    BY DEF Recurs
  <2>2. QED
    BY <1>2, <1>3, <2>1
<1>4. CASE n # 0
  <2>1. n - 1 \in 0 .. m /\ n - 1 \notin Without /\ n \in 1 .. m
    BY <1>2, <1>4
  <2>2. PICK f \in [0 .. n - 1 -> X] : Recurs(f, n - 1, first, step)
    BY <2>1
  <2> DEFINE longer == [i \in 0 .. n |-> IF i < n THEN f[i] ELSE step[<<n, f[n - 1]>>]]
  <2>3. longer \in [0 .. n -> X]
    <3>1. f[n - 1] \in X
      BY <2>1
    <3>2. step[<<n, f[n - 1]>>] \in X
      BY <2>1, <3>1
    <3>3. \A i \in 0 .. n : i < n => f[i] \in X
      BY <2>1
    <3>4. \A i \in 0 .. n : (IF i < n THEN f[i] ELSE step[<<n, f[n - 1]>>]) \in X
      BY <3>2, <3>3
    <3>5. QED
      BY <3>4
  <2>4. ASSUME NEW i \in 1 .. n PROVE longer[i] = step[<<i, longer[i - 1]>>]
    <3>1. longer[i - 1] = f[i - 1]
      BY <2>1
    <3>2. CASE i = n
      <4>1. longer[n] = step[<<n, f[n - 1]>>]
        BY <2>1
      <4>2. QED
        BY <3>1, <3>2, <4>1
    <3>3. CASE i # n
      <4>1. i \in 1 .. n - 1
        BY <2>1, <3>3
      <4>2. longer[i] = f[i] /\ f[i] = step[<<i, f[i - 1]>>]
        BY <2>1, <2>2, <4>1 DEF Recurs
      <4>3. QED
        BY <3>1, <4>2
    <3>4. QED
      BY <3>2, <3>3
  <2>5. longer[0] = first
    BY <2>1, <2>2 DEF Recurs
  <2>6. Recurs(longer, n, first, step)
    BY <2>4, <2>5 DEF Recurs
  <2>7. QED
    BY <1>2, <2>3, <2>6
<1>5. QED
  BY <1>3, <1>4

-----------------------------------------------------------------------------
(* What a text of a file may be.                                            *)
Texts == Seq([error : BOOLEAN, length : Nat])

(* What the k-th line adds to the length of those before it.                *)
Longer(lines, k, before) ==
  IF k \notin Selected(lines) THEN before
  ELSE before + lines[k].length + 1
         + IF before > 0 /\ k - 1 \notin Selected(lines) THEN GapChars + 1 ELSE 0

(* The length of the joined lines is a natural.                             *)
LEMMA JoinedNatural ==
  ASSUME NEW lines \in Texts
  PROVE  Joined(lines) \in Nat
<1> DEFINE n == Len(lines)
           step == [x \in (1 .. n) \X Nat |-> Longer(lines, x[1], x[2])]
           Computes(joined) ==
             joined = [k \in 0 .. n |-> IF k = 0 THEN 0 ELSE Longer(lines, k, joined[k - 1])]
<1>1. n \in Nat
  BY LenProperties DEF Texts
<1>2. \A k \in 1 .. n, before \in Nat : Longer(lines, k, before) \in Nat
  <2>1. ASSUME NEW k \in 1 .. n PROVE lines[k].length \in Nat
    <3>1. lines[k] \in [error : BOOLEAN, length : Nat]
      BY ElementOfSeq DEF Texts
    <3>2. QED
      BY <3>1
  <2>2. GapChars \in Nat
    BY DiagnosticsAssumption
  <2> HIDE DEF n
  <2>3. QED
    BY <2>1, <2>2 DEF Longer
<1>3. step \in [(1 .. n) \X Nat -> Nat]
  <2> HIDE DEF n
  <2>1. QED
    BY <1>2
<1>4. PICK f \in [0 .. n -> Nat] : Recurs(f, n, 0, step)
  <2> HIDE DEF step
  <2>1. QED
    BY <1>1, <1>3, RecursionExists
<1>5. Computes(f)
  <2>1. \A k \in 1 .. n : k - 1 \in 0 .. n /\ f[k - 1] \in Nat
    BY <1>1
  <2>2. \A k \in 1 .. n : f[k] = Longer(lines, k, f[k - 1])
    BY <1>1, <1>4, <2>1 DEF Recurs
  <2>3. f[0] = 0
    BY <1>4 DEF Recurs
  <2>4. QED
    BY <1>1, <2>2, <2>3
<1>6. ASSUME NEW g, Computes(g) PROVE g[n] \in Nat
  <2>1. g[0] = 0
    BY <1>1, <1>6
  <2>2. \A k \in 1 .. n : g[k] = Longer(lines, k, g[k - 1])
    BY <1>1, <1>6
  <2> HIDE DEF Computes
  <2> DEFINE Wrong == {k \in 0 .. n : g[k] \notin Nat}
  <2>3. SUFFICES ASSUME Wrong # {} PROVE FALSE
    BY <1>1
  <2>4. PICK k \in Wrong : \A j \in Wrong : k <= j
    <3>1. Wrong \in SUBSET Nat
      OBVIOUS
    <3>2. QED
      <4> HIDE DEF Wrong
      <4> QED
        BY <2>3, <3>1, LeastNatural
  <2>5. k \in 1 .. n
    BY <1>1, <2>1, <2>4
  <2>6. g[k - 1] \in Nat
    <3>1. k - 1 \in 0 .. n /\ ~(k <= k - 1)
      BY <1>1, <2>5
    <3>2. QED
      BY <2>4, <3>1
  <2>7. g[k] \in Nat
    BY <1>2, <2>2, <2>5, <2>6
  <2>8. QED
    BY <2>4, <2>7
<1>7. Joined(lines) = (CHOOSE joined : Computes(joined))[n]
  BY DEF Joined, Longer
<1>8. QED
  <2> HIDE DEF Computes
  <2>1. QED
    BY <1>5, <1>6, <1>7

(* The length of an excerpt is a natural.                                   *)
LEMMA ExcerptNatural ==
  ASSUME NEW lines \in Texts
  PROVE  ExcerptLength(lines) \in Nat
BY JoinedNatural DEF ExcerptLength

(* What is read of a file is a text.                                        *)
LEMMA ContentText ==
  ASSUME NEW file \in Files
  PROVE  Content(file) \in Texts
<1>1. file.lines \in Texts /\ file.read \in 0 .. Len(file.lines)
  BY DiagnosticsAssumption DEF Texts
<1>2. Len(file.lines) \in Nat
  BY <1>1, LenProperties DEF Texts
<1>3. ASSUME NEW k \in 1 .. file.read
      PROVE  file.lines[k] \in [error : BOOLEAN, length : Nat]
  <2>1. k \in 1 .. Len(file.lines)
    BY <1>1, <1>2
  <2>2. QED
    BY <1>1, <2>1, ElementOfSeq DEF Texts
<1>4. QED
  BY <1>1, <1>2, <1>3, SubSeqProperties DEF Content, Texts

-----------------------------------------------------------------------------
(* What the file leaves of the characters left before it.                   *)
Remaining(file, i, before) ==
  IF i > MaxFiles \/ before <= 0 \/ ~file.readable THEN before
  ELSE before - Bounded(ExcerptLength(Content(file)), before)

Leaves(left, files, n) ==
  /\ DOMAIN left = 0 .. n
  /\ left[0] = MaxChars
  /\ \A i \in 1 .. n : left[i] = Remaining(files[i], i, left[i - 1])

(* Left is such a function.                                                 *)
LEMMA LeftLeaves ==
  ASSUME NEW files \in Seq(Files)
  PROVE  Leaves(Left(files), files, Len(files))
<1> DEFINE n == Len(files)
           step == [x \in (1 .. n) \X Int |-> Remaining(files[x[1]], x[1], x[2])]
           Computes(left) ==
             left = [i \in 0 .. n |->
                       IF i = 0 THEN MaxChars ELSE Remaining(files[i], i, left[i - 1])]
<1>1. Left(files) = CHOOSE left : Computes(left)
  BY DEF Left, Remaining
<1>2. n \in Nat /\ \A i \in 1 .. n : files[i] \in Files
  OBVIOUS
<1>3. step \in [(1 .. n) \X Int -> Int]
  <2>1. \A file \in Files : ExcerptLength(Content(file)) \in Nat
    BY ContentText, ExcerptNatural
  <2>2. ASSUME NEW i \in 1 .. n, NEW before \in Int
        PROVE  Remaining(files[i], i, before) \in Int
    BY <1>2, <2>1, <2>2, DiagnosticsAssumption DEF Remaining, Bounded
  <2>3. QED
    BY <2>2
<1>4. PICK f \in [0 .. n -> Int] : Recurs(f, n, MaxChars, step)
  <2>1. MaxChars \in Int
    BY DiagnosticsAssumption
  <2>2. QED
    <3> HIDE DEF step
    <3> QED
      BY <1>2, <1>3, <2>1, RecursionExists
<1>5. Computes(f)
  <2>1. \A i \in 1 .. n : f[i] = Remaining(files[i], i, f[i - 1])
    BY <1>2, <1>4 DEF Recurs
  <2>2. QED
    BY <1>2, <1>4, <2>1 DEF Recurs
<1>6. Computes(Left(files))
  <2> HIDE DEF Computes
  <2> QED
    BY <1>1, <1>5
<1>7. QED
  <2>1. DOMAIN Left(files) = 0 .. n
    BY <1>6
  <2>2. Left(files)[0] = MaxChars
    BY <1>2, <1>6
  <2>3. \A i \in 1 .. n : Left(files)[i] = Remaining(files[i], i, Left(files)[i - 1])
    BY <1>2, <1>6
  <2>4. QED
    BY <2>1, <2>2, <2>3 DEF Leaves

(* A file takes no more than is left and the note of one cut, something     *)
(* when its excerpt has a length, and nothing when nothing is left.         *)
LEMMA RemainingBounded ==
  ASSUME NEW file \in Files, NEW i \in Nat,
         NEW before \in Int, 0 - MarkerChars <= before, before <= MaxChars
  PROVE  /\ Remaining(file, i, before) \in Int
         /\ 0 - MarkerChars <= Remaining(file, i, before)
         /\ Remaining(file, i, before) <= before
         /\ before <= 0 => Remaining(file, i, before) = before
         /\ (/\ i <= MaxFiles
             /\ file.readable
             /\ ExcerptLength(Content(file)) > 0
             /\ before > 0) => Remaining(file, i, before) # before
<1>1. ExcerptLength(Content(file)) \in Nat
  BY ContentText, ExcerptNatural
<1>2. MarkerChars \in Nat /\ MaxChars \in Nat /\ MaxFiles \in Nat
  BY DiagnosticsAssumption
<1>3. QED
  BY <1>1, <1>2 DEF Remaining, Bounded

(* Whatever the files, what is left stays within these bounds.              *)
LEMMA LeftBounded ==
  ASSUME NEW files \in Seq(Files), NEW left,
         Leaves(left, files, Len(files)), NEW n \in 0 .. Len(files)
  PROVE  left[n] \in Int /\ 0 - MarkerChars <= left[n] /\ left[n] <= MaxChars
<1> DEFINE Within(v) == v \in Int /\ 0 - MarkerChars <= v /\ v <= MaxChars
           Wrong == {k \in 0 .. Len(files) : ~Within(left[k])}
<1>1. SUFFICES ASSUME Wrong # {} PROVE FALSE
  OBVIOUS
<1>2. PICK k \in Wrong : \A j \in Wrong : k <= j
  <2>1. Wrong \in SUBSET Nat
    OBVIOUS
  <2>2. QED
    <3> HIDE DEF Wrong
    <3> QED
      BY <1>1, <2>1, LeastNatural
<1>3. k \in 1 .. Len(files)
  BY <1>2, DiagnosticsAssumption DEF Leaves
<1>4. Within(left[k - 1])
  BY <1>2, <1>3
<1>5. left[k] = Remaining(files[k], k, left[k - 1]) /\ files[k] \in Files
  BY <1>3 DEF Leaves
<1>6. Within(left[k])
  <2>1. k \in Nat
    BY <1>3
  <2>2. /\ left[k - 1] \in Int
        /\ 0 - MarkerChars <= left[k - 1]
        /\ left[k - 1] <= MaxChars
    BY <1>4
  <2>3. /\ Remaining(files[k], k, left[k - 1]) \in Int
        /\ 0 - MarkerChars <= Remaining(files[k], k, left[k - 1])
        /\ Remaining(files[k], k, left[k - 1]) <= left[k - 1]
    BY <1>5, <2>1, <2>2, RemainingBounded
  <2>4. MaxChars \in Int
    BY DiagnosticsAssumption
  <2>5. QED
    BY <1>5, <2>2, <2>3, <2>4
<1>7. QED
  BY <1>2, <1>6

(* Once nothing is left, nothing is left after any further file.            *)
LEMMA LeftStaysUsedUp ==
  ASSUME NEW files \in Seq(Files), NEW left,
         Leaves(left, files, Len(files)),
         NEW i \in 0 .. Len(files), left[i] <= 0,
         NEW n \in i .. Len(files)
  PROVE  left[n] <= 0
<1> DEFINE Wrong == {k \in i .. Len(files) : ~(left[k] <= 0)}
<1>1. SUFFICES ASSUME Wrong # {} PROVE FALSE
  OBVIOUS
<1>2. PICK k \in Wrong : \A j \in Wrong : k <= j
  <2>1. Wrong \in SUBSET Nat
    OBVIOUS
  <2>2. QED
    <3> HIDE DEF Wrong
    <3> QED
      BY <1>1, <2>1, LeastNatural
<1>3. k \in 1 .. Len(files) /\ k # i
  BY <1>2
<1>4. left[k - 1] <= 0
  BY <1>2, <1>3
<1>5. left[k] = Remaining(files[k], k, left[k - 1]) /\ files[k] \in Files
  BY <1>3 DEF Leaves
<1>6. left[k - 1] \in Int /\ 0 - MarkerChars <= left[k - 1] /\ left[k - 1] <= MaxChars
  BY <1>3, LeftBounded
<1>7. left[k] = left[k - 1]
  BY <1>3, <1>4, <1>5, <1>6, RemainingBounded
<1>8. QED
  BY <1>2, <1>4, <1>7

(* A download is a sequence of files.                                       *)
LEMMA DownloadedSequences == Downloaded \subseteq Seq(Files)
<1>1. Downloads \subseteq Seq(Files)
  BY DiagnosticsAssumption DEF Downloads
<1>2. \A d, added \in Downloads : added \o d \in Seq(Files) /\ d \o added \in Seq(Files)
  BY <1>1, ConcatProperties
<1>3. <<>> \in Seq(Files)
  OBVIOUS
<1>4. QED
  <2> SUFFICES ASSUME NEW files \in Downloaded PROVE files \in Seq(Files)
    OBVIOUS
  <2> DEFINE Both == UNION {{d, added \o d, d \o added} :
                    d \in {f \in Downloads : ~ContainsLogFile(f)}, added \in Downloads}
  <2>1. files = <<>> \/ files \in Downloads \/ files \in Both
    <3>1. Downloaded = {<<>>} \union {d \in Downloads : ContainsLogFile(d)} \union Both
      BY DEF Downloaded
    <3> HIDE DEF Both
    <3>2. QED
      BY <3>1
  <2>2. CASE files \in Both
    <3>1. PICK d \in Downloads, added \in Downloads : files \in {d, added \o d, d \o added}
      BY <2>2
    <3>2. QED
      BY <1>1, <1>2, <3>1
  <2> HIDE DEF Both
  <2>3. QED
    BY <1>1, <1>3, <2>1, <2>2

(* What is printed about a job is no more than the limit and the note of    *)
(* one cut, and of what is read an excerpt that is left out is left out     *)
(* with a word (aml_client.py:418-455, 492-502), for all files and limits.  *)
LEMMA ReportsBounded ==
  ASSUME NEW report \in Reports
  PROVE  /\ report \in [over : Nat, silent : SUBSET {"read", "unread"}]
         /\ report.over <= MarkerChars
         /\ "read" \notin report.silent
<1>1. PICK files \in Downloaded : report = Report(files)
  BY DEF Reports
<1>2. files \in Seq(Files) /\ Len(files) \in Nat /\ DOMAIN files = 1 .. Len(files)
  BY DownloadedSequences
<1> DEFINE left == Left(files)
<1>3. Leaves(left, files, Len(files))
  BY <1>2, LeftLeaves
<1> HIDE DEF left
<1>4. \A n \in 0 .. Len(files) :
        left[n] \in Int /\ 0 - MarkerChars <= left[n] /\ left[n] <= MaxChars
  BY <1>2, <1>3, LeftBounded
<1>5. MarkerChars \in Nat /\ MaxChars \in Nat /\ ContextLines \in Nat /\ MaxFiles \in Nat
  BY DiagnosticsAssumption
<1>6. ASSUME NEW i \in DOMAIN files PROVE ~Unannounced(files, i)
  <2>1. files[i] \in Files /\ i \in 1 .. Len(files)
    BY <1>2
  <2>2. ErrorLines(Content(files[i])) \subseteq Selected(Content(files[i]))
    <3>1. DOMAIN Content(files[i]) \subseteq Int
      BY <2>1, ContentText DEF Texts
    <3>2. \A e \in Int : e \in e - ContextLines .. e + ContextLines
      BY <1>5
    <3>3. QED
      BY <3>1, <3>2 DEF ErrorLines, Selected
  <2>3. ASSUME i <= MaxFiles, files[i].readable, ExcerptLength(Content(files[i])) > 0,
               left[i] = left[i - 1], ~(left[Len(files)] <= 0)
        PROVE  FALSE
    <3>1. left[i] = Remaining(files[i], i, left[i - 1])
      BY <1>3, <2>1 DEF Leaves
    <3>2. ~(left[i - 1] <= 0)
      BY <1>2, <1>3, <2>1, <2>3, LeftStaysUsedUp
    <3>3. left[i - 1] \in Int /\ 0 - MarkerChars <= left[i - 1] /\ left[i - 1] <= MaxChars
      BY <1>4, <2>1
    <3>4. i \in Nat /\ left[i - 1] > 0
      BY <2>1, <3>2, <3>3
    <3>5. left[i] # left[i - 1]
      BY <2>1, <2>3, <3>1, <3>3, <3>4, RemainingBounded
    <3>6. QED
      BY <2>3, <3>5
  <2>4. QED
    BY <2>2, <2>3 DEF Unannounced, LimitReached, left
<1>7. report = [over |-> IF MaxChars - left[Len(files)] > MaxChars
                         THEN (MaxChars - left[Len(files)]) - MaxChars ELSE 0,
                silent |-> {part \in {"read", "unread"} : \E i \in DOMAIN files :
                  IF part = "read" THEN Unannounced(files, i) ELSE Unread(files, i)}]
  BY <1>1 DEF Report, left
<1>8. left[Len(files)] \in Int /\ 0 - MarkerChars <= left[Len(files)]
  BY <1>2, <1>4
<1>9. report.over \in Nat /\ report.over <= MarkerChars
  BY <1>5, <1>7, <1>8
<1>10. "read" \notin report.silent
  BY <1>6, <1>7
<1>11. report \in [over : Nat, silent : SUBSET {"read", "unread"}]
  BY <1>7, <1>9
<1>12. QED
  BY <1>9, <1>10, <1>11

-----------------------------------------------------------------------------
(* What the registry holds after one more version was put.                  *)
LEMMA OneMoreVersion ==
  ASSUME NEW m \in Seq(Runs), NEW r \in Runs
  PROVE  /\ Append(m, r) \in Seq(Runs)
         /\ Len(m) \in Nat /\ DOMAIN m = 1 .. Len(m)
         /\ Len(Append(m, r)) = Len(m) + 1
         /\ DOMAIN Append(m, r) = 1 .. Len(m) + 1
         /\ \A v \in 1 .. Len(m) : Append(m, r)[v] = m[v]
         /\ Append(m, r)[Len(m) + 1] = r
BY AppendProperties, LenProperties

(* Every variable keeps its type.                                           *)
LEMMA TypeStep == TypeOK /\ [Next]_vars => TypeOK'
<1> SUFFICES ASSUME TypeOK, [Next]_vars PROVE TypeOK'
  OBVIOUS
<1> USE DEF TypeOK, Goto, external, diagnostics, Stopped, TerminalStatuses, FailedStatuses
<1>1. ASSUME NEW r \in Runs, Submit(r) \/ Announce(r)
      PROVE  TypeOK'
  <2>1. UNCHANGED <<models, reply, undiagnosed, diagnosed, failing, reports>>
    BY <1>1 DEF Submit, Announce
  <2>2. output' \in [Runs -> [job : BOOLEAN, version : 0 .. Len(models)]]
    <3>1. output' = output \/ output' = [output EXCEPT ![r].job = TRUE]
      BY <1>1 DEF Submit, Announce
    <3> HIDE DEF TypeOK
    <3>2. output \in [Runs -> [job : BOOLEAN, version : 0 .. Len(models)]]
      BY DEF TypeOK
    <3>3. QED
      BY <3>1, <3>2
  <2>3. pc' \in [Runs -> {"submit", "announce", "wait", "list", "diagnose",
                        "register", "registering"} \union Stopped]
    BY <1>1 DEF Submit, Announce
  <2>4. status' \in [Runs -> {"none", "Running"} \union TerminalStatuses]
    BY <1>1 DEF Submit, Announce
  <2>5. QED
    BY <2>1, <2>2, <2>3, <2>4
<1>2. ASSUME NEW r \in Runs, ListChildren(r)
      PROVE  TypeOK'
  BY <1>2 DEF ListChildren
<1>3. ASSUME NEW r \in Runs, Diagnose(r)
      PROVE  TypeOK'
  <2>1. PICK j \in undiagnosed[r], report \in Reports :
          /\ undiagnosed' = [undiagnosed EXCEPT ![r] = @ \ {j}]
          /\ diagnosed' = [diagnosed EXCEPT ![r] = @ \union {j}]
          /\ reports' = [reports EXCEPT ![r] = @ \union {report}]
    BY <1>3 DEF Diagnose
  <2>2. report \in [over : Nat, silent : SUBSET {"read", "unread"}]
    BY ReportsBounded
  <2>3. reports' \in [Runs -> SUBSET [over : Nat, silent : SUBSET {"read", "unread"}]]
    BY <2>1, <2>2
  <2>4. /\ undiagnosed' \in [Runs -> SUBSET (Children \union {Parent})]
        /\ diagnosed' \in [Runs -> SUBSET (Children \union {Parent})]
    BY <2>1
  <2>5. UNCHANGED <<pc, status, models, reply, output, failing>>
    BY <1>3 DEF Diagnose
  <2>6. QED
    BY <2>3, <2>4, <2>5
<1>4. ASSUME NEW r \in Runs, Register(r)
      PROVE  TypeOK'
  <2>1. /\ models' \in Seq(Runs) /\ Len(models) \in Nat
        /\ Len(models') = Len(models) + 1
    BY <1>4, OneMoreVersion DEF Register
  <2>2. reply' \in [Runs -> 0 .. Len(models')]
    BY <1>4, <2>1 DEF Register
  <2>3. output' \in [Runs -> [job : BOOLEAN, version : 0 .. Len(models')]]
    BY <1>4, <2>1 DEF Register
  <2>4. QED
    BY <1>4, <2>1, <2>2, <2>3 DEF Register
<1>5. ASSUME NEW r \in Runs, Publish(r)
      PROVE  TypeOK'
  BY <1>5 DEF Publish
<1>6. ASSUME NEW r \in Runs, JobChanges(r)
      PROVE  TypeOK'
  BY <1>6 DEF JobChanges, Passing, Final
<1>7. ASSUME NEW r \in Runs, JobEnded(r) \/ Raise(r) \/ Abort(r)
      PROVE  TypeOK'
  BY <1>7 DEF JobEnded, Raise, Abort
<1>8. CASE UNCHANGED vars
  BY <1>8 DEF vars
<1>9. QED
  BY <1>1, <1>2, <1>3, <1>4, <1>5, <1>6, <1>7, <1>8 DEF Next, Step

-----------------------------------------------------------------------------
RegistryInv ==
  /\ OnlyCompletedRegistered
  /\ RegistersOnce
  /\ \A r \in Runs : RegistrationInv(r)

(* A version is put once, for a completed job, and answered and published   *)
(* under the number it got.                                                 *)
LEMMA RegistryStep == TypeOK /\ RegistryInv /\ [Next]_vars => RegistryInv'
<1> SUFFICES ASSUME TypeOK, RegistryInv, [Next]_vars PROVE RegistryInv'
  OBVIOUS
<1> USE DEF TypeOK, RegistryInv, OnlyCompletedRegistered, RegistersOnce, RegistrationInv,
      BeforeRegistering, Goto, external
<1>1. ASSUME NEW r \in Runs, Submit(r) \/ Announce(r) \/ JobEnded(r)
      PROVE  RegistryInv'
  BY <1>1 DEF Submit, Announce, JobEnded, FailedStatuses, TerminalStatuses
<1>2. ASSUME NEW r \in Runs, ListChildren(r) \/ Diagnose(r) \/ Raise(r) \/ Abort(r)
      PROVE  RegistryInv'
  BY <1>2 DEF ListChildren, Diagnose, Raise, Abort, diagnostics
<1>3. ASSUME NEW r \in Runs, Register(r)
      PROVE  RegistryInv'
  <2>1. /\ Len(models) \in Nat /\ DOMAIN models = 1 .. Len(models)
        /\ Len(models') = Len(models) + 1
        /\ DOMAIN models' = 1 .. Len(models) + 1
        /\ \A v \in 1 .. Len(models) : models'[v] = models[v]
        /\ models'[Len(models) + 1] = r
    BY <1>3, OneMoreVersion DEF Register
  <2>2. status[r] = "Completed" /\ reply[r] = 0 /\ output[r].version = 0 /\ output[r].job
        /\ \A v \in DOMAIN models : models[v] # r
    BY <1>3 DEF Register
  <2>3. OnlyCompletedRegistered'
    BY <1>3, <2>1, <2>2 DEF Register
  <2>4. RegistersOnce'
    BY <1>3, <2>1, <2>2 DEF Register
  <2>5. ASSUME NEW q \in Runs PROVE RegistrationInv(q)'
    <3>1. output' = output /\ status' = status /\ pc' = [pc EXCEPT ![r] = "registering"]
      BY <1>3 DEF Register
    <3>2. reply'[q] # 0 => models'[reply'[q]] = q
      BY <1>3, <2>1, <2>2 DEF Register
    <3>3. output[q].version # 0 => models'[output[q].version] = q /\ output[q].job
      BY <2>1
    <3>4. q # r => reply'[q] = reply[q] /\ pc'[q] = pc[q]
      BY <1>3 DEF Register
    <3>5. pc'[q] \in BeforeRegistering =>
            /\ reply'[q] = 0 /\ output[q].version = 0
            /\ \A v \in DOMAIN models' : models'[v] # q
      <4>1. CASE q = r
        BY <3>1, <4>1
      <4>2. CASE q # r
        <5> SUFFICES ASSUME pc[q] \in BeforeRegistering
                     PROVE  /\ reply[q] = 0 /\ output[q].version = 0
                            /\ \A v \in DOMAIN models' : models'[v] # q
          BY <3>4, <4>2
        <5>1. /\ reply[q] = 0 /\ output[q].version = 0
              /\ \A v \in DOMAIN models : models[v] # q
          OBVIOUS
        <5>2. ASSUME NEW v \in DOMAIN models' PROVE models'[v] # q
          <6>1. v \in 1 .. Len(models) \/ v = Len(models) + 1
            BY <2>1
          <6>2. QED
            BY <2>1, <4>2, <5>1, <6>1
        <5>3. QED
          BY <5>1, <5>2
      <4>3. QED
        BY <4>1, <4>2
    <3>6. pc'[q] = "registering" => output'[q].version = 0
      BY <2>2, <3>1, <3>4
    <3>7. QED
      BY <2>2, <3>1, <3>2, <3>3, <3>4, <3>5, <3>6
  <2>6. QED
    BY <2>3, <2>4, <2>5
<1>4. ASSUME NEW r \in Runs, Publish(r)
      PROVE  RegistryInv'
  BY <1>4 DEF Publish
<1>5. ASSUME NEW r \in Runs, JobChanges(r)
      PROVE  RegistryInv'
  BY <1>5 DEF JobChanges, Passing, Final
<1>6. CASE UNCHANGED vars
  BY <1>6 DEF vars
<1>7. QED
  BY <1>1, <1>2, <1>3, <1>4, <1>5, <1>6 DEF Next, Step

(* Nothing to be diagnosed is lost between the list and the exception.      *)
LEMMA DiagnosisStep ==
  TypeOK /\ (\A r \in Runs : DiagnosisInv(r)) /\ [Next]_vars
    => \A r \in Runs : DiagnosisInv(r)'
<1> SUFFICES ASSUME TypeOK, \A r \in Runs : DiagnosisInv(r), [Next]_vars,
                    NEW q \in Runs
             PROVE  DiagnosisInv(q)'
  OBVIOUS
<1> USE DEF TypeOK, DiagnosisInv, ToDiagnose, Goto, external, diagnostics
<1>1. ASSUME NEW r \in Runs, Submit(r) \/ Announce(r) \/ JobEnded(r) \/ Raise(r)
               \/ Abort(r) \/ Register(r) \/ Publish(r) \/ JobChanges(r)
      PROVE  DiagnosisInv(q)'
  <2>1. UNCHANGED <<failing, undiagnosed, diagnosed, reports>>
    BY <1>1 DEF Submit, Announce, JobEnded, Raise, Abort, Register, Publish, JobChanges
  <2>2. CASE Submit(r) \/ Announce(r)
    BY <2>1, <2>2 DEF Submit, Announce
  <2>3. CASE JobEnded(r) \/ JobChanges(r)
    <3>1. pc' = pc \/ \E to \in {"register", "list"} :
            pc[r] = "wait" /\ pc' = [pc EXCEPT ![r] = to]
      BY <2>3 DEF JobEnded, JobChanges
    <3>2. pc'[q] = pc[q] \/ (pc[q] = "wait" /\ pc'[q] \in {"register", "list"})
      BY <3>1
    <3>3. QED
      BY <2>1, <3>2
  <2>4. CASE Raise(r)
    BY <2>1, <2>4 DEF Raise
  <2>5. CASE Abort(r) \/ Register(r) \/ Publish(r)
    <3>1. \E to \in {"aborted", "registering", "done"} : pc' = [pc EXCEPT ![r] = to]
      BY <2>5 DEF Abort, Register, Publish
    <3>2. pc'[q] \in {pc[q], "aborted", "registering", "done"}
      BY <3>1
    <3>3. QED
      BY <2>1, <3>2
  <2>6. QED
    BY <1>1, <2>2, <2>3, <2>4, <2>5
<1>2. ASSUME NEW r \in Runs, ListChildren(r)
      PROVE  DiagnosisInv(q)'
  <2>1. CASE q # r
    BY <1>2, <2>1 DEF ListChildren
  <2>2. CASE q = r
    BY <1>2, <2>2 DEF ListChildren
  <2>3. QED
    BY <2>1, <2>2
<1>3. ASSUME NEW r \in Runs, Diagnose(r)
      PROVE  DiagnosisInv(q)'
  <2>1. PICK j \in undiagnosed[r], report \in Reports :
          /\ undiagnosed' = [undiagnosed EXCEPT ![r] = @ \ {j}]
          /\ diagnosed' = [diagnosed EXCEPT ![r] = @ \union {j}]
          /\ reports' = [reports EXCEPT ![r] = @ \union {report}]
    BY <1>3 DEF Diagnose
  <2>2. pc[r] = "diagnose" /\ UNCHANGED <<pc, failing>>
    BY <1>3 DEF Diagnose
  <2>3. reports'[q] \subseteq Reports
    BY <2>1
  <2>4. diagnosed'[q] \union undiagnosed'[q] = diagnosed[q] \union undiagnosed[q]
    BY <2>1
  <2>5. q # r => diagnosed'[q] = diagnosed[q]
    BY <2>1
  <2>6. QED
    BY <2>2, <2>3, <2>4, <2>5
<1>4. CASE UNCHANGED vars
  BY <1>4 DEF vars
<1>5. QED
  BY <1>1, <1>2, <1>3, <1>4 DEF Next, Step

-----------------------------------------------------------------------------
(* The invariant holds when no run has begun.                               *)
LEMMA InitInv == Init => IInv
<1> SUFFICES ASSUME Init PROVE IInv
  OBVIOUS
<1> USE DEF Init
<1>1. TypeOK
  BY DEF TypeOK, NoOutput
<1>2. RegistryInv
  BY DEF RegistryInv, OnlyCompletedRegistered, RegistersOnce, RegistrationInv,
     BeforeRegistering, NoOutput
<1>3. \A r \in Runs : DiagnosisInv(r)
  BY DEF DiagnosisInv
<1>4. QED
  BY <1>1, <1>2, <1>3 DEF IInv, RegistryInv

(* Every step keeps the invariant.                                          *)
LEMMA NextInv == IInv /\ [Next]_vars => IInv'
<1> SUFFICES ASSUME IInv, [Next]_vars PROVE IInv'
  OBVIOUS
<1>1. TypeOK' /\ RegistryInv'
  BY TypeStep, RegistryStep DEF IInv, RegistryInv
<1>2. \A r \in Runs : DiagnosisInv(r)'
  BY DiagnosisStep DEF IInv
<1>3. QED
  BY <1>1, <1>2 DEF IInv, RegistryInv

(* The registration and the diagnosis invariants of all runs together hold  *)
(* in every state.                                                          *)
THEOREM Inductive == Spec => []IInv
BY InitInv, NextInv, PTL DEF Spec

(* Every variable of the training runs keeps its type; that what was        *)
(* printed over the limit is a natural rests on the proofs about Left.      *)
THEOREM TypeCorrect == Spec => []TypeOK
<1>1. IInv => TypeOK
  BY DEF IInv
<1>2. QED
  BY Inductive, <1>1, PTL

(* No version of the model is the output of a job that has not completed.   *)
THEOREM OnlyCompletedCorrect == Spec => []OnlyCompletedRegistered
<1>1. IInv => OnlyCompletedRegistered
  BY DEF IInv
<1>2. QED
  BY Inductive, <1>1, PTL

(* A run puts one version at most, its answer lost or not.                  *)
THEOREM RegistersOnceCorrect == Spec => []RegistersOnce
<1>1. IInv => RegistersOnce
  BY DEF IInv
<1>2. QED
  BY Inductive, <1>1, PTL

(* The version a run publishes is the one its own job produced, however     *)
(* many runs register under the name meanwhile.                             *)
THEOREM OutputsCorrect == Spec => []OutputsNameOwnModel
<1>1. IInv => OutputsNameOwnModel
  BY DEF IInv, RegistrationInv, OutputsNameOwnModel
<1>2. QED
  BY Inductive, <1>1, PTL

(* A run that raises has visited every failed child, or the job, and about  *)
(* each it printed no more than the limit and the note of one cut, and left *)
(* out silently nothing that it read: for all files, downloads and limits.  *)
THEOREM EveryFailureDiagnosedCorrect == Spec => []EveryFailureDiagnosed
<1>1. IInv => EveryFailureDiagnosed
  BY ReportsBounded DEF IInv, DiagnosisInv, ToDiagnose, EveryFailureDiagnosed
<1>2. QED
  BY Inductive, <1>1, PTL

-----------------------------------------------------------------------------
(* The runs implement TrainingContract: what a step does to the jobs, the   *)
(* registry and the outputs is one of its steps, or nothing.                *)
Completed == {r \in Runs : status[r] = "Completed"}

(* The first states are first states of the contract.                       *)
LEMMA InitMaps == Init => Contract!Init
BY DEF Init, Contract!Init, NoOutput

(* A job is submitted: none has completed by that.                          *)
LEMMA SubmitMaps ==
  ASSUME IInv, NEW r \in Runs, Submit(r)
  PROVE  UNCHANGED Contract!vars
<1>1. status[r] = "none" /\ status' = [status EXCEPT ![r] = "Running"]
  BY DEF Submit, Goto, IInv, RegistrationInv
<1>2. Completed' = Completed
  BY <1>1 DEF IInv, TypeOK, Completed
<1>3. QED
  BY <1>2 DEF Submit, Contract!vars, Completed

(* The name of the job is written before there is a version to name.        *)
LEMMA AnnounceMaps ==
  ASSUME IInv, NEW r \in Runs, Announce(r)
  PROVE  Contract!NameJob(r)
BY DEF Announce, Goto, external, IInv, RegistrationInv, BeforeRegistering, Contract!NameJob

(* A model is registered for a job that has completed and was named, and    *)
(* that has no version yet.                                                 *)
LEMMA RegisterMaps ==
  ASSUME IInv, NEW r \in Runs, Register(r)
  PROVE  Contract!Register(r)
BY DEF Register, Goto, IInv, RegistrationInv, BeforeRegistering, Contract!Register

(* The version in the answer is the run's own.                              *)
LEMMA PublishMaps ==
  ASSUME IInv, NEW r \in Runs, Publish(r)
  PROVE  Contract!NameVersion(r)
<1>1. output[r].version = 0 /\ reply[r] \in DOMAIN models /\ models[reply[r]] = r
  <2>1. reply[r] \in 0 .. Len(models) /\ reply[r] # 0 /\ DOMAIN models = 1 .. Len(models)
    BY OneMoreVersion DEF Publish, IInv, TypeOK
  <2>2. QED
    BY <2>1 DEF Publish, Goto, IInv, RegistrationInv
<1>2. output' = [output EXCEPT ![r].version = reply[r]] /\ UNCHANGED <<status, models>>
  BY DEF Publish, external
<1>3. QED
  BY <1>1, <1>2 DEF Contract!NameVersion

(* A job changes its status, to Completed or to another.                    *)
LEMMA JobMaps ==
  ASSUME IInv, NEW r \in Runs, JobChanges(r)
  PROVE  Contract!Complete(r) \/ UNCHANGED Contract!vars
<1>1. PICK s \in Passing \union Final :
        status[r] # "Completed" /\ status' = [status EXCEPT ![r] = s]
  BY DEF JobChanges, Passing
<1>2. CASE s = "Completed"
  <2>1. Completed' = Completed \union {r}
    BY <1>1, <1>2 DEF IInv, TypeOK, Completed
  <2>2. QED
    BY <2>1 DEF JobChanges, Contract!Complete, Completed
<1>3. CASE s # "Completed"
  <2>1. Completed' = Completed
    BY <1>1, <1>3 DEF IInv, TypeOK, Completed
  <2>2. QED
    BY <2>1 DEF JobChanges, Contract!vars, Completed
<1>4. QED
  BY <1>2, <1>3

(* The steps of the wait and of the diagnostics, and the end of a run, are  *)
(* none of the contract's.                                                  *)
LEMMA QuietMaps ==
  ASSUME NEW r \in Runs,
         JobEnded(r) \/ ListChildren(r) \/ Diagnose(r) \/ Raise(r) \/ Abort(r)
  PROVE  UNCHANGED Contract!vars
<1>1. UNCHANGED <<status, models, output>>
  BY DEF JobEnded, ListChildren, Diagnose, Raise, Abort, external
<1>2. QED
  BY <1>1 DEF Contract!vars

(* Any number of runs that train and register keep the contract, with jobs  *)
(* that pause and go on, answers that are lost and runs that are cancelled. *)
THEOREM ContractKept == Spec => KeepsContract
<1>1. IInv /\ [Next]_vars => [Contract!Next]_(Contract!vars)
  <2> SUFFICES ASSUME IInv, [Next]_vars PROVE [Contract!Next]_(Contract!vars)
    OBVIOUS
  <2>1. ASSUME NEW r \in Runs, Announce(r) \/ Register(r) \/ Publish(r) \/ JobChanges(r)
        PROVE  [Contract!Next]_(Contract!vars)
    BY <2>1, AnnounceMaps, RegisterMaps, PublishMaps, JobMaps DEF Contract!Next
  <2>2. ASSUME NEW r \in Runs, Submit(r) \/ JobEnded(r) \/ ListChildren(r) \/ Diagnose(r)
                 \/ Raise(r) \/ Abort(r)
        PROVE  [Contract!Next]_(Contract!vars)
    BY <2>2, SubmitMaps, QuietMaps
  <2>3. CASE UNCHANGED vars
    BY <2>3 DEF vars, Contract!vars
  <2>4. QED
    BY <2>1, <2>2, <2>3 DEF Next, Step
<1>2. QED
  BY InitMaps, Inductive, <1>1, PTL DEF Spec, KeepsContract, Contract!Spec

-----------------------------------------------------------------------------
(* The safe part of EveryRunEnds.                                           *)
Stage(r) ==
  CASE pc[r] = "submit" -> 0
    [] pc[r] = "announce" -> 1
    [] pc[r] = "wait" -> 2
    [] pc[r] \in {"list", "register"} -> 3
    [] pc[r] \in {"diagnose", "registering"} -> 4
    [] OTHER -> 5

Further(r) ==
  \/ Stage(r)' > Stage(r)
  \/ /\ pc' = pc
     /\ \E j \in undiagnosed[r] : undiagnosed'[r] = undiagnosed[r] \ {j}

Advance ==
  \E r \in Runs :
    /\ Further(r)
    /\ \A q \in Runs \ {r} : pc'[q] = pc[q] /\ undiagnosed'[q] = undiagnosed[q]

(* Every step of a run, which leaves the others where they are, takes it to *)
(* a later place or to one job less that is to be diagnosed: nothing is     *)
(* submitted, registered or visited a second time (aml_client.py:338-362,   *)
(* 418-455, train_and_register_model.py:30-56).  Only jobs go to and fro.   *)
AlwaysFurther == [][Advance]_<<pc, undiagnosed>>

(* The steps that leave the diagnostics alone.                              *)
LEMMA RunGoesFurther ==
  ASSUME TypeOK, NEW r \in Runs,
         Submit(r) \/ Announce(r) \/ JobEnded(r) \/ Raise(r) \/ Register(r) \/ Publish(r)
           \/ Abort(r)
  PROVE  Advance
<1>1. undiagnosed' = undiagnosed
  BY DEF Submit, Announce, JobEnded, Raise, Register, Publish, Abort, diagnostics
<1>2. \E to : pc' = [pc EXCEPT ![r] = to]
  BY DEF Submit, Announce, JobEnded, Raise, Register, Publish, Abort, Goto
<1>3. Stage(r)' > Stage(r)
  BY DEF TypeOK, Stage, Stopped, Submit, Announce, JobEnded, Raise, Register, Publish,
     Abort, Goto
<1>4. QED
  BY <1>1, <1>2, <1>3 DEF TypeOK, Further, Advance

(* Every step of a run is progress, for any number of runs and of children. *)
THEOREM AlwaysFurtherCorrect == Spec => AlwaysFurther
<1>1. TypeOK /\ [Next]_vars => [Advance]_<<pc, undiagnosed>>
  <2> SUFFICES ASSUME TypeOK, [Next]_vars, <<pc, undiagnosed>>' # <<pc, undiagnosed>>
               PROVE  Advance
    OBVIOUS
  <2>1. ASSUME NEW r \in Runs, ListChildren(r) PROVE Advance
    <3>1. \E x : undiagnosed' = [undiagnosed EXCEPT ![r] = x]
      BY <2>1 DEF ListChildren
    <3>2. Stage(r)' > Stage(r) /\ \A q \in Runs \ {r} : pc'[q] = pc[q]
      BY <2>1 DEF ListChildren, Goto, TypeOK, Stage
    <3>3. QED
      BY <3>1, <3>2 DEF TypeOK, Further, Advance
  <2>2. ASSUME NEW r \in Runs, Diagnose(r) PROVE Advance
    BY <2>2 DEF Diagnose, TypeOK, Further, Advance
  <2>3. ASSUME NEW r \in Runs, JobChanges(r) PROVE FALSE
    BY <2>3 DEF JobChanges, diagnostics
  <2>4. ~ UNCHANGED vars
    BY DEF vars
  <2>5. QED
    BY <2>1, <2>2, <2>3, <2>4, RunGoesFurther DEF Next, Step
<1>2. QED
  BY TypeCorrect, <1>1, PTL DEF Spec, AlwaysFurther
=============================================================================
