-------------------------- MODULE MCPatchEvidence --------------------------
(* Instances of PatchEvidence for TLC: one or two files of a few lines.    *)
EXTENDS PatchEvidence

CONSTANTS a, b, tabbed, w1, w2

Text(words, header, tail, secret) ==
  [words |-> words, header |-> header, tail |-> tail, secret |-> secret]

Plain == {Text(w, FALSE, "none", "none") : w \in {w1, w2}}
WithBlank == Plain \cup {Text(Blank, FALSE, "none", "none")}
Broken == Plain \cup {Text(w2, FALSE, "other", "none")}
WithJoined == Plain \cup {Text(w2, FALSE, "none", "joined")}
Redacted == {Text(Blank, FALSE, "none", "none")}
            \cup {Text(w2, FALSE, "none", secret) : secret \in {"joined", "begins", "ends"}}
(* With one that begins with "++ ".                                        *)
Signed == Redacted \cup {Text(w1, TRUE, "none", "none")}

AsIs == [p \in Paths |-> p]
(* Git ends the label of a path that has a space with a tab.               *)
Tabbed == [p \in Paths |-> IF p = a THEN tabbed ELSE p]
=============================================================================
