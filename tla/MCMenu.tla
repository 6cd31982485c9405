------------------------------- MODULE MCMenu -------------------------------
(***************************************************************************)
(* Every text of rows, commas and comments in which the plugin's rows are  *)
(* next to each other, apart, first, last, repeated or changed, with and   *)
(* without a comma at the end, and some texts that are malformed.          *)
(***************************************************************************)
EXTENDS Menu

CONSTANTS MaxTokens, theirs

Sequences == UNION {[1..n -> Rows \cup {Comma, Comment}] : n \in 0..MaxTokens}

MCTexts ==
  {t \in Sequences : ParseJsonc(t)}
    \cup {<<Comma>>, <<Broken>>, <<Current("setup"), Current("system")>>}

MCEdits == {<<>>, <<Row(theirs, "theirs"), Comma, Row("setup", "modified")>>}
=============================================================================
