------------------------------ MODULE MenuText ------------------------------
(***************************************************************************)
(* The text of the shared menu as lifecycle/menu.mjs sees and rewrites it. *)
(* A text is the sequence of what stands between the braces: rows, commas  *)
(* and comments, or something that is not JSON with comments.              *)
(* Operators named Mutant... are wrong versions of the definition that     *)
(* follows them.                                                           *)
(***************************************************************************)
EXTENDS Naturals, Sequences, FiniteSets

CONSTANTS
  Foreign,   \* the keys of rows that are not the plugin's
  Nothing    \* no file

\* The two rows the plugin owns.
Owned == {"setup", "system"}

Row(k, v) == [key |-> k, value |-> v]
Comma == Row("none", "comma")
Comment == Row("none", "comment")
Broken == Row("none", "broken")

\* A row of the plugin's is as it writes it now, as it wrote it once
\* (recognizedEntry knows three such forms), or somebody changed it.
Rows ==
  {Row(k, v) : k \in Owned, v \in {"current", "previous", "modified"}}
    \cup {Row(k, "theirs") : k \in Foreign}

Pieces == Rows \cup {Comma, Comment, Broken}

RecognizedEntry(row) == row.value \in {"current", "previous"}

Current(k) == Row(k, "current")
Whole == <<Current("setup"), Comma, Current("system")>>

-----------------------------------------------------------------------------
(***************************************************************************)
(* Parsing.  Comments count for nothing; a comma may follow the last row.  *)
(***************************************************************************)

\* What skipTrivia does not skip, and when a piece of it is the next after
\* another.
Significant(source) == {i \in DOMAIN source : source[i] # Comment}
Follows(source, i, j) == i < j /\ \A k \in Significant(source) : k <= i \/ j <= k

\* Rows and commas take turns, and a row comes first.
ParseJsonc(source) ==
  \A i \in Significant(source) :
    /\ source[i] \in Rows \cup {Comma}
    /\ (\A j \in Significant(source) : i <= j) => source[i] \in Rows
    /\ \A j \in Significant(source) :
         Follows(source, i, j) => (source[i] = Comma <=> source[j] \in Rows)

Properties(source) == {i \in DOMAIN source : source[i] \in Rows}

\* The commas next to a row, if there are any.
CommaAfter(source, i) == {j \in Significant(source) : Follows(source, i, j)}
CommaBefore(source, i) == {j \in Significant(source) : Follows(source, j, i)}

Mine(source) == {i \in Properties(source) : source[i].key \in Owned}
KeysOf(source) == {source[i].key : i \in Mine(source)}

\* Each of the plugin's rows is there at most once, and in a form it wrote.
CheckedDocument(source) ==
  /\ ParseJsonc(source)
  /\ \A i, j \in Mine(source) : source[i].key = source[j].key => i = j
  /\ \A i \in Mine(source) : RecognizedEntry(source[i])

\* What the inventory says of a menu that can be examined.
InspectMenu(source) ==
  CASE ~CheckedDocument(source) -> "modified"
    [] CheckedDocument(source) /\ KeysOf(source) = Owned -> "compatible"
    [] CheckedDocument(source) /\ KeysOf(source) = {} -> "missing"
    [] OTHER -> "incomplete"

-----------------------------------------------------------------------------
(***************************************************************************)
(* Rewriting.                                                              *)
(***************************************************************************)

\* Whether the last row has a comma.
TrailingComma(source) ==
  \E i \in Properties(source) :
    CommaAfter(source, i) # {} /\ \A j \in Properties(source) : j <= i

Prefix(source) ==
  IF Properties(source) # {} /\ ~TrailingComma(source) THEN <<Comma>> ELSE <<>>

\* Rows that are missing are put before the closing brace, after a comma if
\* the last row has none.
Addition(source) ==
  LET missing == Owned \ KeysOf(source)
  IN CASE missing = {} -> <<>>
       [] missing = Owned -> Prefix(source) \o Whole
       [] OTHER -> Prefix(source) \o <<Current(CHOOSE k \in missing : TRUE)>>

\* Rows in an earlier form are replaced where they are.
Replaced(source) ==
  [i \in DOMAIN source |->
     IF i \in Mine(source) THEN Current(source[i].key) ELSE source[i]]

Reconciled(source) == Replaced(source) \o Addition(source)

\* The places of a set in their order, and the text at these places.
Rank(places, i) == Cardinality({j \in places : j <= i})
Listing(places) ==
  [n \in 1..Cardinality(places) |-> CHOOSE i \in places : Rank(places, i) = n]
Only(source, places) == [n \in 1..Cardinality(places) |-> source[Listing(places)[n]]]

\* A row goes with the comma before it.
MutantCut(source, i) == {i} \cup CommaBefore(source, i)

\* A row goes with the comma after it, the last one with the one before it.
Cut(source, i) ==
  {i} \cup (IF CommaAfter(source, i) # {} THEN CommaAfter(source, i) ELSE CommaBefore(source, i))

\* Two rows may go with the same comma, which is cut once.
Cuts(source) == UNION {Cut(source, i) : i \in Mine(source)}
Removed(source) == Only(source, DOMAIN source \ Cuts(source))

Operations == {"reconcile", "remove"}
Rewritten(op, source) == IF op = "reconcile" THEN Reconciled(source) ELSE Removed(source)
=============================================================================
