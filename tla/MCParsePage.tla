------------------------------ MODULE MCParsePage ------------------------------
(***************************************************************************)
(* Keys that make every kind of text: a vowel in lower and upper case, two *)
(* letters that are a segment only together, letters that are segments     *)
(* alone, the apostrophe of an ejective, and the ASCII spellings of the    *)
(* accent, the barred l and the apostrophe.                                *)
(***************************************************************************)
EXTENDS ParsePage

MCKeys == {"a", "A", "c", "d", "h", "l", "x", "'", "H", "B", "G"}
\* Enough to spell an ejective or a long vowel with a rising tone.
MCFewKeys == {"a", "c", "h", "'"}
================================================================================
