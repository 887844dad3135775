--------------------------- MODULE PatchEvidence ---------------------------
(***************************************************************************)
(* domain/models.FrozenPatchEvidence: the patch git wrote is redacted and  *)
(* read line by line, each added or context line gets the number it has in *)
(* the head file, and a citation is accepted if it reproduces such lines.  *)
(* Git writes and the program reads one line per step here, so that what   *)
(* the program made of the patch can be compared with what git meant.      *)
(*                                                                         *)
(* A text is what the reader can tell apart: its words, whether it begins  *)
(* with "++ ", what follows a character inside it that str.splitlines      *)
(* takes for a line end (a form feed, U+2028, ...), if there is one, and   *)
(* what redact() does with it where it stands: nothing; it replaces a part *)
(* of the line; the match of a keyword goes over the line end and takes    *)
(* the next line in ("if not token:"); the line begins, or ends, the PEM   *)
(* block that is replaced from one to the other.                           *)
(***************************************************************************)
EXTENDS Integers, FiniteSets

CONSTANTS Paths,       \* files the patch may touch
          Label,       \* Label[p]: p after "+++ b/", as quoted and redacted
          Stray,       \* not a path: what the rest of an added "++ ..." reads as
          DevNull,     \* git's name for the head side of a deleted file
          NoPath,      \* Python's None
          Texts,       \* texts of context and deleted lines
          Added,       \* texts of added lines
          Blank,       \* the words of an empty line
          Mask,        \* the words of a line with "[REDACTED]" in it
          MaxLine,     \* bound: lines of a head file
          MaxMatches,  \* bound: matches of redact() that reach over a line end
          MaxSpan      \* _MAX_CITATION_SPAN

Tails == {"none", "added", "context", "deleted", "other", "empty"}
Secrets == {"none", "line", "joined", "begins", "ends"}
Halves == {[t EXCEPT !.tail = "none"] : t \in Texts}
Labels == {Label[p] : p \in Paths} \cup {Stray}

ASSUME TextAssumption ==
  /\ Added \subseteq Texts
  /\ \A t \in Texts : /\ t = [words |-> t.words, header |-> t.header, tail |-> t.tail,
                             secret |-> t.secret]
                      /\ t.header \in BOOLEAN
                      /\ t.tail \in Tails
                      /\ t.secret \in Secrets
                      /\ t.words = Blank \/ t.tail # "none" => t.secret = "none"
ASSUME LabelAssumption == /\ Label = [p \in Paths |-> Label[p]]
                          /\ NoPath \notin Labels \cup {DevNull}
                          /\ DevNull \notin Labels
                          /\ DevNull \notin Paths
                          /\ NoPath \notin Paths
ASSUME BoundAssumption == {MaxLine, MaxMatches, MaxSpan} \subseteq Nat

VARIABLES place,     \* git: what it wrote last
          file,      \* git: the head file of the section, DevNull or NoPath
          number,    \* git: the number the next head line has
          shown,     \* git: the head lines written so far, by path and number
          held,      \* redact: the match that reaches over the last line's end
          matches,   \* redact: matches so far that reach over a line end
          merged,    \* files of which a line went into another's (history)
          reader     \* the locals of _iter_patch_lines, and _head_lines' result

git == <<place, file, number, shown>>
vars == <<git, held, matches, merged, reader>>

NoLine == -1

(* What redact() leaves of a text.                                         *)
Clean(t) == IF t.secret = "none" THEN t ELSE [t EXCEPT !.words = Mask]

TypeOK ==
  /\ place \in {"start", "section", "named", "hunk", "body"}
  /\ file \in Paths \cup {DevNull, NoPath}
  /\ number \in 0..(MaxLine + 1)
  /\ DOMAIN shown \subseteq Paths \X (1..MaxLine)
  /\ \A k \in DOMAIN shown : shown[k] \in Texts
  /\ held \in {"none", "joining", "block"}
  /\ matches \in Nat
  /\ merged \subseteq Paths
  /\ reader = [path |-> reader.path, next |-> reader.next, heads |-> reader.heads]
  /\ reader.path \in Labels \cup {NoPath}
  /\ reader.next \in Nat \cup {NoLine}
  /\ DOMAIN reader.heads \subseteq Labels \X Nat
  /\ \A k \in DOMAIN reader.heads : reader.heads[k] \in {Clean(t) : t \in Texts \cup Halves}

Nothing == [k \in {} |-> NoPath]

Init == /\ place = "start"
        /\ file = NoPath
        /\ number = 0
        /\ shown = Nothing
        /\ held = "none"
        /\ matches = 0
        /\ merged = {}
        /\ reader = [path |-> NoPath, next |-> NoLine, heads |-> Nothing]

With(f, k, t) == [x \in DOMAIN f \cup {k} |-> IF x = k THEN t ELSE f[x]]

-----------------------------------------------------------------------------
(* One physical line, as str.splitlines() delivers it, and what redact()   *)
(* does there: a hunk header may carry the text of a line of the file.     *)
Mark(kind) == [kind |-> kind, does |-> "none"]
Named(label) == [kind |-> "name", label |-> label, does |-> "none"]
Header(start, does) == [kind |-> "hunk", start |-> start, does |-> does]
Line(marker, t) == [kind |-> marker, text |-> Clean(t), does |-> t.secret]

Numbering(s) == s.path # NoPath /\ s.next # NoLine

Renamed(s, label) == [path |-> label, next |-> s.next, heads |-> s.heads]
Moved(s, start) == [path |-> s.path, next |-> start, heads |-> s.heads]
Kept(s, t) == [path |-> s.path, next |-> s.next + 1,
               heads |-> With(s.heads, <<s.path, s.next>>, t)]

(* Mutants of Read: /dev/null is a path; a deleted line takes a number; a  *)
(* context line takes none.                                                *)
ReadDevNull(s, raw) ==
  CASE raw.kind = "name" -> Renamed(s, raw.label)
    [] raw.kind = "hunk" -> Moved(s, raw.start)
    [] OTHER -> s

ReadCountingDeleted(s, raw) ==
  CASE raw.kind = "name" -> Renamed(s, IF raw.label = DevNull THEN NoPath ELSE raw.label)
    [] raw.kind = "hunk" -> Moved(s, raw.start)
    [] raw.kind \in {"added", "context", "deleted"} /\ Numbering(s) -> Kept(s, raw.text)
    [] OTHER -> s

ReadNotCountingContext(s, raw) ==
  CASE raw.kind = "name" -> Renamed(s, IF raw.label = DevNull THEN NoPath ELSE raw.label)
    [] raw.kind = "hunk" -> Moved(s, raw.start)
    [] raw.kind = "added" /\ Numbering(s) -> Kept(s, raw.text)
    [] raw.kind = "context" /\ Numbering(s) -> [Kept(s, raw.text) EXCEPT !.next = s.next]
    [] OTHER -> s

(* One round of _iter_patch_lines' loop, and of _head_lines' around it.    *)
Read(s, raw) ==
  CASE raw.kind = "name" -> Renamed(s, IF raw.label = DevNull THEN NoPath ELSE raw.label)
    [] raw.kind = "hunk" -> Moved(s, raw.start)
    [] raw.kind \in {"added", "context"} /\ Numbering(s) -> Kept(s, raw.text)
    [] raw.kind = "other" /\ Numbering(s) -> Moved(s, NoLine)
    [] OTHER -> s

(* A content line of the patch.  An added "++ ..." looks like the name of  *)
(* a file; a line end inside the text makes two lines of it, and what is   *)
(* after it has no marker of its own.                                      *)
First(marker, t) == IF marker = "added" /\ t.header THEN Named(Stray)
                    ELSE Line(marker, [t EXCEPT !.tail = "none"])

(* redact(), which a line goes through before it is read.  A match that    *)
(* reached over the line end has taken its place: the rest of the line, if *)
(* any, has become part of the line before.  A block is open up to its     *)
(* end; a keyword's match passes over blank context lines to a word.       *)
After(h, raw) ==
  CASE h = "block" -> IF raw.does = "ends" THEN "none" ELSE "block"
    [] h = "joining" /\ raw.kind = "context" /\ raw.text.words = Blank -> "joining"
    [] raw.does = "joined" -> "joining"
    [] raw.does = "begins" -> "block"
    [] OTHER -> "none"

Pass(s, h, raw) == IF h = "none" THEN Read(s, raw) ELSE s

ReadLine(raw) == /\ reader' = Pass(reader, held, raw)
                 /\ held' = After(held, raw)

ReadTwo(first, second) ==
  LET h == After(held, first)
  IN  /\ reader' = Pass(Pass(reader, held, first), h, second)
      /\ held' = After(h, second)

Reaching == {"joined", "begins"}
Counts(does) == /\ does \in Reaching => matches < MaxMatches
                /\ matches' = IF does \in Reaching THEN matches + 1 ELSE matches

ReadText(marker, t) ==
  /\ t.secret = "ends" => held = "block"
  /\ Counts(t.secret)
  /\ IF t.tail = "none" THEN ReadLine(First(marker, t))
                        ELSE ReadTwo(First(marker, t), Line(t.tail, t))

(* A line that says where the lines of f are, or one of them, is lost in   *)
(* an earlier line if one of these matches reaches it.                     *)
Loses(f, open) == merged' = merged \cup (IF held \in open THEN {f} \cap Paths ELSE {})

-----------------------------------------------------------------------------
(* What `git diff-tree --no-renames --unified=3 --patch` writes.           *)

(* "diff --git ...", the extended header, "Binary files ... differ": lines *)
(* that begin with a letter.  A binary, empty or mode-only file has no     *)
(* more than these.                                                        *)
Section == /\ place \notin {"named", "hunk"}
           /\ place' = "section"
           /\ file' = NoPath
           /\ number' = 0
           /\ ReadTwo(Mark("other"), Mark("other"))
           /\ Loses(file, {"block"})
           /\ UNCHANGED <<shown, matches>>

(* "--- ..." and "+++ ...".  A path has one section with a head side.      *)
Name(p) == /\ place = "section"
           /\ \A k \in DOMAIN shown : k[1] # p
           /\ file' = p
           /\ place' = "named"
           /\ ReadTwo(Mark("deleted"), Named(IF p = DevNull THEN DevNull ELSE Label[p]))
           /\ Loses(p, {"block"})
           /\ UNCHANGED <<number, shown, matches>>

(* "@@ -a,b +start,c @@".  A deleted or emptied file has the one hunk that *)
(* starts at 0; a hunk has lines, and hunks never touch.                   *)
Hunk(start, does) == /\ \/ place = "named"
                        \/ place = "body" /\ number < start /\ number # 0
                     /\ file = DevNull => start = 0
                     /\ number' = start
                     /\ place' = "hunk"
                     /\ ReadLine(Header(start, does))
                     /\ Counts(does)
                     /\ Loses(file, {"joining", "block"})
                     /\ UNCHANGED <<file, shown>>

(* An added or context line, at a number of the head file.                 *)
Keep(marker, t) == /\ place \in {"hunk", "body"}
                   /\ number \in 1..MaxLine
                   /\ place' = "body"
                   /\ marker = "added" => t \in Added
                   /\ shown' = With(shown, <<file, number>>, t)
                   /\ number' = number + 1
                   /\ ReadText(marker, t)
                   /\ Loses(file, {"joining", "block"})
                   /\ UNCHANGED file

Delete(t) == /\ place \in {"hunk", "body"}
             /\ place' = "body"
             /\ ReadText("deleted", t)
             /\ UNCHANGED <<file, number, shown, merged>>

(* "\ No newline at end of file".                                          *)
NoNewline == /\ place = "body"
             /\ ReadLine(Mark("nonewline"))
             /\ UNCHANGED <<git, matches, merged>>

Next == \/ Section
        \/ \E p \in Paths \cup {DevNull} : Name(p)
        \/ \E start \in 0..MaxLine, does \in {"none", "joined"} : Hunk(start, does)
        \/ \E t \in Texts : Keep("added", t) \/ Keep("context", t) \/ Delete(t)
        \/ NoNewline

Spec == Init /\ [][Next]_vars

-----------------------------------------------------------------------------
(* supports_citation and lookup.  An excerpt is the lines it joins.        *)
Expected(path, lo, hi) == [n \in lo..hi |-> reader.heads[<<path, n>>]]

Known(path, lo, hi) == \A n \in lo..hi : <<path, n>> \in DOMAIN reader.heads

Supported(path, lo, hi, excerpt) ==
  1 <= lo /\ lo <= hi /\ Known(path, lo, hi) /\ excerpt = Expected(path, lo, hi)

Lookup(path, lo, hi) ==
  IF 1 <= lo /\ lo <= hi /\ hi - lo + 1 <= MaxSpan /\ Known(path, lo, hi)
  THEN {[path |-> path, lo |-> lo, hi |-> hi, excerpt |-> Expected(path, lo, hi)]}
  ELSE {}

(* EvidenceCitation and supports_citation, which a finding must pass: the  *)
(* excerpt must not be the empty string.                                   *)
IsBlank(lo, hi, excerpt) == lo = hi /\ excerpt[lo].words = Blank

Accepted(path, lo, hi, excerpt) ==
  ~IsBlank(lo, hi, excerpt) /\ Supported(path, lo, hi, excerpt)

-----------------------------------------------------------------------------
(* In a file that redact() took no line of into another, a citation by     *)
(* path and line numbers is supported exactly if every line of it is one   *)
(* git wrote for that head file, with that text as redacted: deleted       *)
(* lines, files and gaps between hunks are never cited.  What the cite     *)
(* tool hands out is that citation, and it is accepted unless it is one    *)
(* blank line.                                                             *)
CitationsAreExact ==
  \A p \in Paths \ merged, lo \in 1..MaxLine, hi \in 1..MaxLine :
     lo <= hi =>
        LET whole == \A n \in lo..hi : <<p, n>> \in DOMAIN shown
            text == [n \in lo..hi |-> Clean(shown[<<p, n>>])]
        IN  /\ whole <=> Known(p, lo, hi)
            /\ whole => Accepted(p, lo, hi, text) \/ IsBlank(lo, hi, text)
            /\ \A c \in Lookup(p, lo, hi) : c.excerpt = text

(* Reading on never changes what was numbered before: no two lines of the  *)
(* patch are taken for one line of a file that kept its lines, whatever    *)
(* redact() took of others.                                                *)
NumbersAreFinal ==
  [][\A k \in DOMAIN reader.heads :
        k[1] \in Paths \ merged' =>
           k \in DOMAIN reader'.heads /\ reader'.heads[k] = reader.heads[k]]_vars

(* The number shown before a line is its exact number in the head file.    *)
NumberedExactly ==
  \A k \in DOMAIN reader.heads : k \in DOMAIN shown /\ reader.heads[k] = Clean(shown[k])

(* What the cite tool hands out is correct by construction. It does not    *)
(* hold of one blank line (README, section 4).                             *)
LookupIsAccepted ==
  \A p \in Paths, lo \in 1..MaxLine, hi \in 1..MaxLine :
     \A c \in Lookup(p, lo, hi) : Accepted(c.path, c.lo, c.hi, c.excerpt)

-----------------------------------------------------------------------------
(* Why they hold: where git is in a hunk of a file that lost no line, the  *)
(* reader is at the same line of the same file.  Elsewhere it is in a file *)
(* that lost one, or in none.                                              *)
HeadSide == {"named", "hunk", "body"}
Intact == place \in HeadSide /\ file \in Paths \ merged

InStep ==
  /\ Intact => reader.path = Label[file]
  /\ Intact /\ place # "named" => reader.next = number
  /\ place \in HeadSide => file # NoPath /\ reader.path \in {file, NoPath} \cup merged
  /\ place \in {"section", "named"} \/ file = DevNull => number = 0

(* Between hunks only a block is still open, and it has the file before.   *)
BlockHeld ==
  /\ place = "start" => held = "none" /\ reader.path = NoPath
  /\ place \in {"section", "named"} => held # "joining"
  /\ place = "section" /\ held = "block" => reader.path \in {NoPath} \cup merged
  /\ place = "named" /\ held = "block" => ~Intact

(* No number at or after the next one is taken.                            *)
Ascending == place \in HeadSide =>
               \A k \in DOMAIN shown : k[1] = file => k[2] < number

(* The lines of an intact file are known as git wrote them.                *)
Faithful ==
  \A k \in DOMAIN reader.heads \cup DOMAIN shown :
     k[1] \in Paths \ merged =>
        /\ k \in DOMAIN reader.heads \cap DOMAIN shown
        /\ reader.heads[k] = Clean(shown[k])

EvidenceInv == TypeOK /\ InStep /\ BlockHeld /\ Ascending /\ Faithful
=============================================================================
