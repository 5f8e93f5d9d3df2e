----------------------------- MODULE Diagnostics -----------------------------
(***************************************************************************)
(* What _download_and_print_job_diagnostics of aml_client.py prints for a  *)
(* job: excerpts of the files it could download, within a limit of files   *)
(* and of characters.                                                      *)
(*                                                                         *)
(* A file has lines that match ERROR_LINE_PATTERN or not, of a length      *)
(* after the redaction.  Only its first MAX_DIAGNOSTIC_FILE_BYTES are      *)
(* read, here its first lines: one that the limit splits counts as two.    *)
(***************************************************************************)
EXTENDS Integers, Sequences

CONSTANTS Files,          \* shapes of files: [log, readable, lines, read]
          FilesOffered,   \* bound on the files of one download
          MaxFiles,       \* MAX_DIAGNOSTIC_FILES
          MaxChars,       \* MAX_DIAGNOSTIC_OUTPUT_CHARS
          ContextLines,   \* DIAGNOSTIC_CONTEXT_LINES
          GapChars,       \* length of the line that stands for a gap
          MarkerChars     \* length of the note that a text was cut

ASSUME DiagnosticsAssumption ==
  /\ \A file \in Files :
       /\ file.log \in BOOLEAN /\ file.readable \in BOOLEAN
       /\ file.lines \in Seq([error : BOOLEAN, length : Nat])
       /\ file.read \in 0 .. Len(file.lines)
  /\ {FilesOffered, MaxFiles, MaxChars, ContextLines, GapChars, MarkerChars} \subseteq Nat

\* diagnostic_file.read(MAX_DIAGNOSTIC_FILE_BYTES): the rest is dropped.
Content(file) == SubSeq(file.lines, 1, file.read)

-----------------------------------------------------------------------------
(* _diagnostic_excerpt                                                      *)

ErrorLines(lines) == {k \in DOMAIN lines : lines[k].error}

(* The error lines with their context, or the last lines.                   *)
Selected(lines) ==
  IF ErrorLines(lines) # {}
  THEN {k \in DOMAIN lines :
          \E e \in ErrorLines(lines) : k \in e - ContextLines .. e + ContextLines}
  ELSE {k \in DOMAIN lines : k > Len(lines) - (2 * ContextLines + 1)}

(* The length of what the first k lines add to the text, each of them, and  *)
(* the line that stands for a gap, with a line end.                         *)
Joined(lines) ==
  LET joined[k \in 0 .. Len(lines)] ==
        IF k = 0 THEN 0
        ELSE IF k \notin Selected(lines) THEN joined[k - 1]
        ELSE joined[k - 1] + lines[k].length + 1
               + IF joined[k - 1] > 0 /\ k - 1 \notin Selected(lines) THEN GapChars + 1 ELSE 0
  IN joined[Len(lines)]

\* There is no line end after the last one.
ExcerptLength(lines) == IF Joined(lines) = 0 THEN 0 ELSE Joined(lines) - 1

\* Slip: the limit of one text is used, not what the others have left of it.
BoundedByItself(length, max) == IF length <= MaxChars THEN length ELSE MaxChars + MarkerChars

(* _bounded_redacted_text: the note is added to what the limit leaves.      *)
Bounded(length, max) == IF length <= max THEN length ELSE max + MarkerChars

-----------------------------------------------------------------------------
(* The characters left after the first i files; a file that cannot be read, *)
(* or has nothing to show, takes none.                                      *)
Left(files) ==
  LET left[i \in 0 .. Len(files)] ==
        IF i = 0 THEN MaxChars
        ELSE IF i > MaxFiles \/ left[i - 1] <= 0 \/ ~files[i].readable THEN left[i - 1]
        ELSE left[i - 1] - Bounded(ExcerptLength(Content(files[i])), left[i - 1])
  IN left

\* Slip: the limit counts as reached only when it is passed.
PassedLimit(files) == Left(files)[Len(files)] < 0
(* The message that the output was limited.                                 *)
LimitReached(files) == Left(files)[Len(files)] <= 0

\* A file of which something that was read is neither shown nor named as
\* missing: an excerpt that is cut says so itself, and so do unreadable files
\* and too many files.
Unannounced(files, i) ==
  /\ files[i].readable
  /\ \/ ~(ErrorLines(Content(files[i])) \subseteq Selected(Content(files[i])))
     \/ /\ i <= MaxFiles
        /\ ExcerptLength(Content(files[i])) > 0
        /\ Left(files)[i] = Left(files)[i - 1]
        /\ ~LimitReached(files)

\* A file with an error in the part that is not read, of which no message tells.
Unread(files, i) ==
  /\ files[i].readable /\ i <= MaxFiles /\ ~LimitReached(files)
  /\ \E k \in ErrorLines(files[i].lines) : k > files[i].read

Downloads == UNION {[1 .. n -> Files] : n \in 0 .. FilesOffered}

ContainsLogFile(files) == \E i \in DOMAIN files : files[i].log

(* What can be there to print: nothing after a failed download; the files   *)
(* of the standard download if there is a log among them; else those the    *)
(* full download adds to them, which sort before or after them, if it does  *)
(* not fail.                                                                *)
Downloaded ==
  {<<>>} \union {d \in Downloads : ContainsLogFile(d)} \union
  UNION {{d, added \o d, d \o added} :
            d \in {f \in Downloads : ~ContainsLogFile(f)}, added \in Downloads}

(* What is printed about one job, by how far it is over the limit and by    *)
(* the part of its files, read or not, that is missing without a word.      *)
Report(files) ==
  [over |-> LET printed == MaxChars - Left(files)[Len(files)] IN
            IF printed > MaxChars THEN printed - MaxChars ELSE 0,
   silent |-> {part \in {"read", "unread"} : \E i \in DOMAIN files :
                 IF part = "read" THEN Unannounced(files, i) ELSE Unread(files, i)}]

Reports == {Report(files) : files \in Downloaded}
=============================================================================
