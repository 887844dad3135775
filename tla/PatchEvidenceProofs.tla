------------------------ MODULE PatchEvidenceProofs ------------------------
(***************************************************************************)
(* For a patch without odd line ends and odd path names, and whatever      *)
(* redact() does to its lines, citations are exact in every file that kept *)
(* its lines: for any files, their number and their length.  The argument  *)
(* is that in such a file the reader stays in step with git, and elsewhere *)
(* writes no number of such a file (EvidenceInv).                          *)
(***************************************************************************)
EXTENDS PatchEvidence, TLAPS

PlainTexts == \A t \in Texts : t.tail = "none" /\ (t \in Added => ~t.header)
PlainPaths == \A p \in Paths : Label[p] = p

Cleaned == {Clean(t) : t \in Texts \cup Halves}

ReaderOK(s) == /\ s = [path |-> s.path, next |-> s.next, heads |-> s.heads]
               /\ s.path \in Labels \cup {NoPath}
               /\ s.next \in Nat \cup {NoLine}
               /\ DOMAIN s.heads \subseteq Labels \X Nat
               /\ \A k \in DOMAIN s.heads : s.heads[k] \in Cleaned

(* A text without a line end in it is one physical line.                   *)
LEMMA WholeText ==
  ASSUME PlainTexts, NEW t \in Texts, NEW marker \in {"added", "context", "deleted"},
         marker = "added" => t \in Added
  PROVE  First(marker, t) = Line(marker, t)
<1>1. t.tail = "none" /\ ~(marker = "added" /\ t.header)
  BY DEF PlainTexts
<1>2. [t EXCEPT !.tail = "none"] = t
  BY <1>1, TextAssumption
<1> QED BY <1>1, <1>2 DEF First

LEMMA CleanTexts == \A t \in Texts : Clean(t) \in Cleaned
  BY DEF Cleaned

(* What reading one line does, by its kind.                                *)
LEMMA ReadKinds ==
  ASSUME NEW s
  PROVE  /\ Read(s, Mark("other")) \in {s, Moved(s, NoLine)}
         /\ Read(s, Mark("deleted")) = s
         /\ Read(s, Mark("nonewline")) = s
         /\ \A label : Read(s, Named(label))
                        = Renamed(s, IF label = DevNull THEN NoPath ELSE label)
         /\ \A start, does : Read(s, Header(start, does)) = Moved(s, start)
         /\ \A t : Read(s, Line("deleted", t)) = s
         /\ \A t : \A marker \in {"added", "context"} :
               Read(s, Line(marker, t)) = IF Numbering(s) THEN Kept(s, Clean(t)) ELSE s
  BY DEF Read, Mark, Named, Header, Line

(* What a line leaves pending.                                             *)
LEMMA AfterKinds ==
  ASSUME NEW h \in {"none", "joining", "block"}
  PROVE  /\ \A raw : After(h, raw) \in {"none", "joining", "block"}
         /\ \A raw : After(h, raw) # "none" /\ raw.does = "none" => After(h, raw) = h
         /\ After(h, Mark("other")) = IF h = "block" THEN "block" ELSE "none"
         /\ After(h, Mark("deleted")) = IF h = "block" THEN "block" ELSE "none"
         /\ \A label : After(h, Named(label)) = IF h = "block" THEN "block" ELSE "none"
<1>1. \A raw : After(h, raw) \in {"none", "joining", "block"}
  BY DEF After
<1>2. \A raw : After(h, raw) # "none" /\ raw.does = "none" => After(h, raw) = h
  BY DEF After
<1> QED BY <1>1, <1>2 DEF After, Mark, Named

(* The types survive any line, also one that is counted in a wrong file.   *)
LEMMA ReaderTypes ==
  ASSUME NEW s, ReaderOK(s)
  PROVE  /\ ReaderOK(Moved(s, NoLine))
         /\ \A start \in Nat : ReaderOK(Moved(s, start))
         /\ \A label \in Labels \cup {NoPath} : ReaderOK(Renamed(s, label))
         /\ \A t \in Texts : Numbering(s) => ReaderOK(Kept(s, Clean(t)))
<1>1. ReaderOK(Moved(s, NoLine)) /\ \A start \in Nat : ReaderOK(Moved(s, start))
  BY DEF ReaderOK, Moved
<1>2. \A label \in Labels \cup {NoPath} : ReaderOK(Renamed(s, label))
  BY DEF ReaderOK, Renamed
<1>3. ASSUME NEW t \in Texts, Numbering(s) PROVE ReaderOK(Kept(s, Clean(t)))
  <2>1. s.path \in Labels /\ s.next \in Nat
    BY <1>3 DEF ReaderOK, Numbering
  <2>2. Clean(t) \in Cleaned
    BY CleanTexts
  <2>3. ASSUME NEW f, f = With(s.heads, <<s.path, s.next>>, Clean(t))
        PROVE  DOMAIN f \subseteq Labels \X Nat /\ \A k \in DOMAIN f : f[k] \in Cleaned
    BY <2>1, <2>2, <2>3 DEF With, ReaderOK
  <2> QED BY <2>1, <2>3 DEF ReaderOK, Kept
<1> QED BY <1>1, <1>2, <1>3

LEMMA TypeParts ==
  TypeOK <=> /\ place \in {"start", "section", "named", "hunk", "body"}
             /\ file \in Paths \cup {DevNull, NoPath}
             /\ number \in 0..(MaxLine + 1)
             /\ DOMAIN shown \subseteq Paths \X (1..MaxLine)
             /\ \A k \in DOMAIN shown : shown[k] \in Texts
             /\ held \in {"none", "joining", "block"}
             /\ matches \in Nat
             /\ merged \subseteq Paths
             /\ ReaderOK(reader)
  BY DEF TypeOK, ReaderOK, Cleaned

LEMMA CountsTyped == ASSUME matches \in Nat, NEW does, Counts(does) PROVE matches' \in Nat
  BY DEF Counts

-----------------------------------------------------------------------------
LEMMA InitHolds == Init => EvidenceInv
<1> SUFFICES ASSUME Init PROVE EvidenceInv OBVIOUS
<1> USE BoundAssumption
<1>1. DOMAIN Nothing = {} BY DEF Nothing
<1>2. TypeOK BY <1>1 DEF Init, TypeOK, NoLine
<1>3. InStep BY DEF Init, InStep, Intact, HeadSide
<1>4. BlockHeld BY DEF Init, BlockHeld
<1> QED BY <1>1, <1>2, <1>3, <1>4 DEF Init, EvidenceInv, Ascending, HeadSide, Faithful

LEMMA SectionInStep ==
  ASSUME EvidenceInv, Section
  PROVE  EvidenceInv'
<1>1. TypeOK /\ InStep /\ BlockHeld /\ Faithful BY DEF EvidenceInv
<1> DEFINE other == Mark("other")
           middle == Pass(reader, held, other)
<1>2. /\ place' = "section" /\ file' = NoPath /\ number' = 0
      /\ shown' = shown /\ matches' = matches
      /\ place \in {"start", "section", "body"}
      /\ merged' = merged \cup (IF held = "block" THEN {file} \cap Paths ELSE {})
  BY <1>1, TypeParts DEF Section, Loses
<1>3. /\ held' = After(After(held, other), other)
      /\ reader' = Pass(middle, After(held, other), other)
  BY DEF Section, ReadTwo
<1>4. held' = IF held = "block" THEN "block" ELSE "none"
  BY <1>1, <1>3, TypeParts, AfterKinds
<1>5. middle \in {reader, Moved(reader, NoLine)}
  BY ReadKinds DEF Pass
<1>6. reader' \in {middle, Moved(middle, NoLine)}
  BY <1>3, ReadKinds DEF Pass
<1>7. ReaderOK(reader') /\ reader'.path = reader.path /\ reader'.heads = reader.heads
  <2>1. ReaderOK(middle) /\ middle.path = reader.path /\ middle.heads = reader.heads
    BY <1>1, <1>5, TypeParts, ReaderTypes DEF Moved
  <2> QED BY <1>6, <2>1, ReaderTypes DEF Moved
<1>8. TypeOK'
  BY <1>1, <1>2, <1>4, <1>7, TypeParts, BoundAssumption DEF TypeOK, ReaderOK, Cleaned
<1>9. held = "block" => reader.path \in {NoPath} \cup merged'
  <2>1. CASE place = "body"
    <3>1. reader.path \in {file, NoPath} \cup merged
      BY <1>1, <2>1 DEF InStep, HeadSide
    <3>2. reader.path # DevNull /\ file \in Paths \cup {DevNull, NoPath}
      BY <1>1, TypeParts, LabelAssumption DEF ReaderOK
    <3> QED BY <1>2, <3>1, <3>2
  <2> QED BY <1>1, <1>2, <2>1 DEF BlockHeld
<1>10. InStep' /\ BlockHeld' /\ Ascending'
  BY <1>2, <1>4, <1>7, <1>9 DEF InStep, Intact, HeadSide, BlockHeld, Ascending
<1>11. Faithful'
  BY <1>1, <1>2, <1>7 DEF Faithful
<1> QED BY <1>8, <1>10, <1>11 DEF EvidenceInv

LEMMA NameInStep ==
  ASSUME PlainPaths, EvidenceInv, NEW p \in Paths \cup {DevNull}, Name(p)
  PROVE  EvidenceInv'
<1>1. TypeOK /\ InStep /\ BlockHeld /\ Faithful BY DEF EvidenceInv
<1> DEFINE label == IF p = DevNull THEN DevNull ELSE Label[p]
           named == IF p = DevNull THEN NoPath ELSE p
<1>2. /\ place = "section" /\ place' = "named" /\ file' = p
      /\ number' = number /\ shown' = shown /\ matches' = matches
      /\ \A k \in DOMAIN shown : k[1] # p
      /\ merged' = merged \cup (IF held = "block" THEN {p} \cap Paths ELSE {})
  BY DEF Name, Loses
<1>3. held \in {"none", "block"} /\ number = 0
  BY <1>1, <1>2, TypeParts DEF BlockHeld, InStep
<1>4. held' = held
  BY <1>3, AfterKinds DEF Name, ReadTwo
<1>5. held = "none" => reader' = Renamed(reader, named)
  <2>1. reader' = Pass(Pass(reader, held, Mark("deleted")), After(held, Mark("deleted")),
                       Named(label))
    BY DEF Name, ReadTwo
  <2>2. ASSUME held = "none" PROVE reader' = Read(reader, Named(label))
    BY <2>1, <2>2, ReadKinds, AfterKinds DEF Pass
  <2>3. label = DevNull <=> p = DevNull
    BY LabelAssumption DEF Labels
  <2>4. p # DevNull => label = p
    BY DEF PlainPaths
  <2> QED BY <2>2, <2>3, <2>4, ReadKinds
<1>6. held = "block" => reader' = reader
  BY AfterKinds DEF Name, ReadTwo, Pass
<1>7. named \in Labels \cup {NoPath}
  BY DEF Labels, PlainPaths
<1>8. /\ ReaderOK(reader') /\ reader'.heads = reader.heads
      /\ reader'.path = IF held = "none" THEN named ELSE reader.path
  BY <1>1, <1>3, <1>5, <1>6, <1>7, TypeParts, ReaderTypes DEF Renamed
<1>9. TypeOK'
  BY <1>1, <1>2, <1>4, <1>8, TypeParts DEF TypeOK, ReaderOK, Cleaned
<1>10. InStep'
  <2>1. p # NoPath /\ (p \in Paths => Label[p] = p /\ p # DevNull)
    BY LabelAssumption DEF PlainPaths
  <2>2. held = "block" => reader.path \in {NoPath} \cup merged
    BY <1>1, <1>2 DEF BlockHeld
  <2> QED BY <1>2, <1>3, <1>8, <2>1, <2>2 DEF InStep, Intact, HeadSide
<1>11. BlockHeld'
  BY <1>2, <1>3, <1>4 DEF BlockHeld, Intact
<1>12. Ascending' /\ Faithful'
  BY <1>1, <1>2, <1>8 DEF Ascending, Faithful
<1> QED BY <1>9, <1>10, <1>11, <1>12 DEF EvidenceInv

LEMMA HunkInStep ==
  ASSUME EvidenceInv, NEW start \in 0..MaxLine, NEW does, Hunk(start, does)
  PROVE  EvidenceInv'
<1>1. TypeOK /\ InStep /\ BlockHeld /\ Ascending /\ Faithful BY DEF EvidenceInv
<1>2. /\ place' = "hunk" /\ file' = file /\ number' = start /\ shown' = shown
      /\ place \in {"named", "body"}
      /\ place = "body" => number < start
      /\ file = DevNull => start = 0
      /\ merged' = merged \cup (IF held # "none" THEN {file} \cap Paths ELSE {})
  BY <1>1, TypeParts DEF Hunk, Loses
<1>3. held' \in {"none", "joining", "block"} /\ matches' \in Nat
  BY <1>1, TypeParts, AfterKinds, CountsTyped DEF Hunk, ReadLine
<1>4. reader' = IF held = "none" THEN Moved(reader, start) ELSE reader
  BY ReadKinds DEF Hunk, ReadLine, Pass
<1>5. /\ ReaderOK(reader') /\ reader'.path = reader.path /\ reader'.heads = reader.heads
      /\ held = "none" => reader'.next = start
  <2>1. ReaderOK(reader) /\ start \in Nat
    BY <1>1, TypeParts, BoundAssumption
  <2>2. ReaderOK(Moved(reader, start))
    BY <2>1, ReaderTypes
  <2> QED BY <1>4, <2>1, <2>2 DEF Moved
<1>6. TypeOK'
  BY <1>1, <1>2, <1>3, <1>5, TypeParts, BoundAssumption DEF TypeOK, ReaderOK, Cleaned
<1>7. file # NoPath /\ (place = "named" => number = 0) /\ place \in HeadSide
  BY <1>1, <1>2 DEF InStep, HeadSide
<1>8. InStep' /\ BlockHeld'
  BY <1>1, <1>2, <1>5, <1>7 DEF InStep, BlockHeld, Intact, HeadSide
<1>9. Ascending'
  <2> SUFFICES ASSUME NEW k \in DOMAIN shown, k[1] = file PROVE k[2] < start
    BY <1>2 DEF Ascending
  <2>1. k[2] < number BY <1>1, <1>7 DEF Ascending
  <2>2. k[2] \in 1..MaxLine /\ number \in 0..(MaxLine + 1) BY <1>1 DEF TypeOK
  <2>3. number # 0 BY <2>1, <2>2, BoundAssumption
  <2>4. number < start BY <1>2, <1>7, <2>3
  <2> QED BY <2>1, <2>2, <2>4, BoundAssumption
<1>10. Faithful'
  BY <1>1, <1>2, <1>5 DEF Faithful
<1> QED BY <1>6, <1>8, <1>9, <1>10 DEF EvidenceInv

(* What is known of a text line: it is lost, or it is numbered where git   *)
(* has it, or the reader is in a file that lost a line.                    *)
LEMMA KeepEffect ==
  ASSUME PlainTexts, PlainPaths, EvidenceInv,
         NEW t \in Texts, NEW marker \in {"added", "context"}, Keep(marker, t)
  PROVE  /\ file \in Paths /\ <<file, number>> \notin DOMAIN shown
         /\ held # "none" => reader' = reader /\ merged' = merged \cup {file}
         /\ held = "none" =>
               /\ merged' = merged
               /\ reader' = IF Numbering(reader) THEN Kept(reader, Clean(t)) ELSE reader
               /\ file \notin merged =>
                     Numbering(reader) /\ reader.path = file /\ reader.next = number
<1>1. TypeOK /\ InStep /\ Ascending BY DEF EvidenceInv
<1>2. /\ place \in {"hunk", "body"} /\ number \in 1..MaxLine
      /\ marker = "added" => t \in Added
      /\ ReadText(marker, t)
      /\ merged' = merged \cup (IF held # "none" THEN {file} \cap Paths ELSE {})
  BY <1>1, TypeParts DEF Keep, Loses
<1>3. file \in Paths
  BY <1>1, <1>2, TypeParts, BoundAssumption DEF InStep, HeadSide
<1>4. <<file, number>> \notin DOMAIN shown
  <2> SUFFICES ASSUME <<file, number>> \in DOMAIN shown PROVE FALSE OBVIOUS
  <2>1. <<file, number>>[2] < number BY <1>1, <1>2 DEF Ascending, HeadSide
  <2> QED BY <1>2, <2>1, BoundAssumption
<1>5. reader' = Pass(reader, held, Line(marker, t))
  <2>1. ReadLine(First(marker, t))
    BY <1>2 DEF ReadText, PlainTexts
  <2> QED BY <1>2, <2>1, WholeText DEF ReadLine
<1>6. held = "none" =>
        reader' = IF Numbering(reader) THEN Kept(reader, Clean(t)) ELSE reader
  BY <1>5, ReadKinds DEF Pass
<1>7. file \notin merged => reader.path = file /\ reader.next = number
  BY <1>1, <1>2, <1>3 DEF InStep, Intact, HeadSide, PlainPaths
<1>8. file \notin merged => Numbering(reader)
  BY <1>2, <1>3, <1>7, LabelAssumption, BoundAssumption DEF Numbering, NoLine
<1> QED BY <1>2, <1>3, <1>4, <1>5, <1>6, <1>7, <1>8 DEF Pass

LEMMA KeepInStep ==
  ASSUME PlainTexts, PlainPaths, EvidenceInv,
         NEW t \in Texts, NEW marker \in {"added", "context"}, Keep(marker, t)
  PROVE  EvidenceInv'
<1>1. TypeOK /\ InStep /\ Ascending /\ Faithful BY DEF EvidenceInv
<1>2. /\ place \in {"hunk", "body"} /\ place' = "body" /\ file' = file /\ number' = number + 1
      /\ number \in 1..MaxLine
      /\ shown' = With(shown, <<file, number>>, t)
  BY DEF Keep
<1>3. /\ DOMAIN shown' = DOMAIN shown \cup {<<file, number>>}
      /\ shown'[<<file, number>>] = t
      /\ \A x \in DOMAIN shown : x # <<file, number>> => shown'[x] = shown[x]
  BY <1>2 DEF With
<1>4. /\ file \in Paths
      /\ held # "none" => reader' = reader /\ merged' = merged \cup {file}
      /\ held = "none" =>
               /\ merged' = merged
               /\ reader' = IF Numbering(reader) THEN Kept(reader, Clean(t)) ELSE reader
               /\ file \notin merged =>
                     Numbering(reader) /\ reader.path = file /\ reader.next = number
  BY KeepEffect
<1>5. held' \in {"none", "joining", "block"} /\ matches' \in Nat
  <2>1. ReadLine(First(marker, t)) /\ Counts(t.secret)
    BY DEF Keep, ReadText, PlainTexts
  <2> QED BY <1>1, <2>1, TypeParts, AfterKinds, CountsTyped DEF ReadLine
<1>6. ReaderOK(reader') /\ reader'.path = reader.path
  BY <1>1, <1>4, TypeParts, ReaderTypes DEF Kept
<1>7. TypeOK'
  <2>1. DOMAIN shown' \subseteq Paths \X (1..MaxLine)
    BY <1>1, <1>2, <1>3, <1>4, TypeParts
  <2>2. \A k \in DOMAIN shown' : shown'[k] \in Texts
    BY <1>1, <1>3, TypeParts
  <2>3. merged' \subseteq Paths
    BY <1>1, <1>4, TypeParts
  <2>4. number' \in 0..(MaxLine + 1)
    BY <1>2, BoundAssumption
  <2> QED BY <1>1, <1>2, <1>5, <1>6, <2>1, <2>2, <2>3, <2>4, TypeParts
          DEF TypeOK, ReaderOK, Cleaned
<1>8. InStep' /\ BlockHeld'
  <2>1. file' \notin merged' => reader'.path = Label[file'] /\ reader'.next = number'
    BY <1>2, <1>4 DEF Kept, PlainPaths
  <2>2. reader'.path \in {file', NoPath} \cup merged' /\ file' # NoPath
    BY <1>1, <1>2, <1>4, <1>6 DEF InStep, HeadSide
  <2>3. file' # DevNull
    BY <1>2, <1>4, LabelAssumption
  <2> QED BY <1>2, <2>1, <2>2, <2>3 DEF InStep, BlockHeld, Intact, HeadSide
<1>9. Ascending'
  <2> SUFFICES ASSUME NEW k \in DOMAIN shown', k[1] = file PROVE k[2] < number + 1
    BY <1>2 DEF Ascending
  <2>1. CASE k = <<file, number>> BY <2>1, <1>2, BoundAssumption
  <2>2. CASE k \in DOMAIN shown
    <3>1. k[2] < number BY <2>2, <1>1, <1>2 DEF Ascending, HeadSide
    <3>2. k[2] \in Nat BY <2>2, <1>1, BoundAssumption DEF TypeOK
    <3> QED BY <3>1, <3>2, <1>2, BoundAssumption
  <2> QED BY <2>1, <2>2, <1>3
<1>10. Faithful'
  <2> SUFFICES ASSUME NEW k \in DOMAIN reader'.heads \cup DOMAIN shown',
                      k[1] \in Paths \ merged'
               PROVE  /\ k \in DOMAIN reader'.heads \cap DOMAIN shown'
                      /\ reader'.heads[k] = Clean(shown'[k])
    BY DEF Faithful
  <2>1. CASE reader' = reader
    <3>1. file \in merged'
      <4>1. Kept(reader, Clean(t)) # reader \/ ~Numbering(reader)
        <5>1. ASSUME Numbering(reader) PROVE Kept(reader, Clean(t)).next # reader.next
          <6>1. reader.next \in Nat
            BY <1>1, <5>1, TypeParts DEF ReaderOK, Numbering
          <6> QED BY <6>1 DEF Kept
        <5> QED BY <5>1
      <4> QED BY <1>1, <1>4, <2>1, <4>1, TypeParts
    <3>2. k # <<file, number>>
      BY <3>1
    <3>3. k[1] \notin merged
      BY <1>4
    <3> QED BY <1>1, <1>3, <2>1, <3>2, <3>3 DEF Faithful
  <2>2. CASE reader' # reader
    <3>1. merged' = merged /\ Numbering(reader) /\ reader' = Kept(reader, Clean(t))
      BY <1>1, <1>4, <2>2, TypeParts
    <3>2. reader'.heads = With(reader.heads, <<reader.path, reader.next>>, Clean(t))
      BY <3>1 DEF Kept
    <3>3. CASE k = <<file, number>>
      <4>1. reader.path = file /\ reader.next = number
        BY <1>4, <2>2, <3>1, <3>3
      <4> QED BY <1>3, <3>2, <3>3, <4>1 DEF With
    <3>4. CASE k # <<file, number>>
      <4>1. k # <<reader.path, reader.next>>
        <5>1. CASE file \in merged
          <6>1. reader.path \in merged \cup {NoPath}
            BY <1>1, <1>2, <5>1 DEF InStep, HeadSide
          <6> QED BY <3>1, <6>1, LabelAssumption
        <5>2. CASE file \notin merged
          BY <1>4, <2>2, <3>4, <5>2
        <5> QED BY <5>1, <5>2
      <4>2. k \in DOMAIN reader.heads \cup DOMAIN shown
        BY <1>3, <3>2, <3>4, <4>1 DEF With
      <4>3. k \in DOMAIN reader.heads \cap DOMAIN shown /\ reader.heads[k] = Clean(shown[k])
        BY <1>1, <3>1, <4>2 DEF Faithful
      <4> QED BY <1>3, <3>2, <3>4, <4>1, <4>3 DEF With
    <3> QED BY <3>3, <3>4
  <2> QED BY <2>1, <2>2
<1> QED BY <1>7, <1>8, <1>9, <1>10 DEF EvidenceInv

(* Lines of the base file only: they may end a match or begin one.         *)
LEMMA BaseInStep ==
  ASSUME PlainTexts, EvidenceInv, NoNewline \/ \E t \in Texts : Delete(t)
  PROVE  EvidenceInv'
<1>1. TypeOK /\ InStep /\ Ascending /\ Faithful BY DEF EvidenceInv
<1>2. /\ place \in {"hunk", "body"} /\ place' = "body"
      /\ UNCHANGED <<file, number, shown, merged>>
  BY DEF NoNewline, Delete, git
<1>3. PICK raw : ReadLine(raw) /\ Read(reader, raw) = reader
  <2>1. ASSUME NEW t \in Texts, Delete(t)
        PROVE  ReadLine(Line("deleted", t)) /\ Read(reader, Line("deleted", t)) = reader
    <3>1. ReadLine(First("deleted", t))
      BY <2>1 DEF Delete, ReadText, PlainTexts
    <3> QED BY <3>1, WholeText, ReadKinds
  <2>2. CASE NoNewline
    BY <2>2, ReadKinds DEF NoNewline
  <2> QED BY <2>1, <2>2
<1>4. reader' = reader /\ held' \in {"none", "joining", "block"}
  BY <1>1, <1>3, TypeParts, AfterKinds DEF ReadLine, Pass
<1>5. matches' \in Nat
  BY <1>1, TypeParts, CountsTyped DEF NoNewline, Delete, ReadText
<1>6. TypeOK'
  BY <1>1, <1>2, <1>4, <1>5 DEF TypeOK
<1>7. InStep' /\ BlockHeld' /\ Ascending' /\ Faithful'
  BY <1>1, <1>2, <1>4 DEF InStep, BlockHeld, Ascending, Faithful, Intact, HeadSide
<1> QED BY <1>6, <1>7 DEF EvidenceInv

(* EvidenceInv is inductive for a patch without odd line ends and names.   *)
LEMMA StepInStep ==
  ASSUME PlainTexts, PlainPaths, EvidenceInv, [Next]_vars
  PROVE  EvidenceInv'
<1>1. CASE Section BY <1>1, SectionInStep
<1>2. CASE \E p \in Paths \cup {DevNull} : Name(p) BY <1>2, NameInStep
<1>3. CASE \E start \in 0..MaxLine, does \in {"none", "joined"} : Hunk(start, does)
  BY <1>3, HunkInStep
<1>4. CASE \E t \in Texts : Keep("added", t) \/ Keep("context", t) BY <1>4, KeepInStep
<1>5. CASE NoNewline \/ \E t \in Texts : Delete(t) BY <1>5, BaseInStep
<1>6. CASE UNCHANGED vars
  BY <1>6 DEF vars, git, EvidenceInv, TypeOK, InStep, BlockHeld, Ascending, Faithful, Intact
<1> QED BY <1>1, <1>2, <1>3, <1>4, <1>5, <1>6 DEF Next

-----------------------------------------------------------------------------
(* Whatever redact() takes of a patch, the reader is in step with git in   *)
(* every file that kept its lines, and numbers none of it from elsewhere   *)
(* (redaction.py:19-54, models.py:128-159).                                *)
THEOREM EvidenceInvariance ==
  ASSUME PlainTexts, PlainPaths
  PROVE  Spec => []EvidenceInv
<1>1. Init => EvidenceInv BY InitHolds
<1>2. EvidenceInv /\ [Next]_vars => EvidenceInv' BY StepInStep
<1> QED BY <1>1, <1>2, PTL DEF Spec

(* _iter_patch_lines knows no path that is not in the patch and no text    *)
(* that is not, redacted, in it.                                           *)
THEOREM EvidenceTypes ==
  ASSUME PlainTexts, PlainPaths
  PROVE  Spec => []TypeOK
<1>1. EvidenceInv => TypeOK BY DEF EvidenceInv
<1> QED BY <1>1, EvidenceInvariance, PTL

(* Where the reader is in step with git, citations are what git wrote.     *)
LEMMA ExactFromInv ==
  ASSUME EvidenceInv
  PROVE  CitationsAreExact
<1> SUFFICES ASSUME NEW p \in Paths \ merged,
                    NEW lo \in 1..MaxLine, NEW hi \in 1..MaxLine, lo <= hi
             PROVE  LET whole == \A n \in lo..hi : <<p, n>> \in DOMAIN shown
                        text == [n \in lo..hi |-> Clean(shown[<<p, n>>])]
                    IN  /\ whole <=> Known(p, lo, hi)
                        /\ whole => Accepted(p, lo, hi, text) \/ IsBlank(lo, hi, text)
                        /\ \A c \in Lookup(p, lo, hi) : c.excerpt = text
  BY DEF CitationsAreExact
<1> DEFINE whole == \A n \in lo..hi : <<p, n>> \in DOMAIN shown
           text == [n \in lo..hi |-> Clean(shown[<<p, n>>])]
<1>1. ASSUME NEW n \in lo..hi
      PROVE  /\ <<p, n>> \in DOMAIN shown <=> <<p, n>> \in DOMAIN reader.heads
             /\ <<p, n>> \in DOMAIN shown => reader.heads[<<p, n>>] = Clean(shown[<<p, n>>])
  <2>1. <<p, n>>[1] \in Paths \ merged
    OBVIOUS
  <2> QED BY <2>1 DEF EvidenceInv, Faithful
<1>2. whole <=> Known(p, lo, hi)
  BY <1>1 DEF Known
<1>3. whole => Expected(p, lo, hi) = text
  BY <1>1 DEF Expected
<1>4. 1 <= lo
  BY BoundAssumption
<1>5. \A c \in Lookup(p, lo, hi) : Known(p, lo, hi) /\ c.excerpt = Expected(p, lo, hi)
  BY DEF Lookup
<1>6. whole => Supported(p, lo, hi, text)
  BY <1>2, <1>3, <1>4 DEF Supported
<1>7. whole => Accepted(p, lo, hi, text) \/ IsBlank(lo, hi, text)
  BY <1>6 DEF Accepted
<1>8. \A c \in Lookup(p, lo, hi) : c.excerpt = text
  BY <1>2, <1>3, <1>5
<1> QED BY <1>2, <1>7, <1>8

(* For any patch without odd line ends and names, and in each file of it   *)
(* that redact() took no line of into another: a citation is accepted      *)
(* exactly if it reproduces head lines git wrote, as redacted, and is not  *)
(* one blank line (models.py:60-106, findings.py:16-30).                   *)
THEOREM ExactCitations ==
  ASSUME PlainTexts, PlainPaths
  PROVE  Spec => []CitationsAreExact
<1>1. EvidenceInv => CitationsAreExact BY ExactFromInv
<1> QED BY <1>1, EvidenceInvariance, PTL

(* A step keeps every number given before it in such a file.               *)
LEMMA StepKeepsNumbers ==
  ASSUME PlainTexts, PlainPaths, EvidenceInv, [Next]_vars
  PROVE  \A k \in DOMAIN reader.heads :
            k[1] \in Paths \ merged' =>
               k \in DOMAIN reader'.heads /\ reader'.heads[k] = reader.heads[k]
<1>1. Faithful /\ Faithful'
  BY StepInStep DEF EvidenceInv
<1>2. merged \subseteq merged'
  BY DEF Next, Section, Name, Hunk, Keep, Loses, Delete, NoNewline, vars
<1>3. \A k \in DOMAIN shown : k \in DOMAIN shown' /\ shown'[k] = shown[k]
  <2>1. CASE \E t \in Texts : Keep("added", t) \/ Keep("context", t)
    <3>1. PICK t \in Texts, marker \in {"added", "context"} : Keep(marker, t) BY <2>1
    <3>2. <<file, number>> \notin DOMAIN shown /\ shown' = With(shown, <<file, number>>, t)
      BY <3>1, KeepEffect DEF Keep
    <3> QED BY <3>2 DEF With
  <2>2. CASE shown' = shown
    BY <2>2
  <2> QED BY <2>1, <2>2 DEF Next, Section, Name, Hunk, Delete, NoNewline, git, vars
<1> QED BY <1>1, <1>2, <1>3 DEF Faithful

(* A number once given to a line is never given to another.                *)
THEOREM FinalNumbers ==
  ASSUME PlainTexts, PlainPaths
  PROVE  Spec => NumbersAreFinal
<1>1. EvidenceInv /\ [Next]_vars =>
        [\A k \in DOMAIN reader.heads :
           k[1] \in Paths \ merged' =>
              k \in DOMAIN reader'.heads /\ reader'.heads[k] = reader.heads[k]]_vars
  BY StepKeepsNumbers
<1> QED BY <1>1, EvidenceInvariance, PTL DEF Spec, NumbersAreFinal
=============================================================================
