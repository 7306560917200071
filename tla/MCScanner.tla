------------------------------- MODULE MCScanner -------------------------------
(* Characters for TLC. *)
EXTENDS Scanner

MCLower == {"a"}
MCUpper == {"I", "F"}
MCKeywords == {<<"I", "F">>}
MCSymbols == {"{"}
MCJunk == {"1"}

(* Words next to words, symbols and errors; strings, comments and escapes. *)
OfWords == MCLower \cup MCUpper \cup MCSymbols \cup MCJunk \cup {Newline, Hash}
OfMarks == MCLower \cup {Quote, Hash, Backslash, Newline, Space}
MCAlphabets == {OfWords, OfMarks}
=============================================================================
