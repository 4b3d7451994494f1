----------------------------- MODULE MCGtfsCsv -----------------------------
(* Texts of up to three characters, of one in the neighbouring column.     *)
EXTENDS GtfsCsv

Alphabet == {Quote, csv_separator, Blank, Tab, "x"}

MCTexts == BoundedSeq(Alphabet, 3)
MCNearTexts == BoundedSeq(Alphabet, 1)

\* Raw fields hold a plain text
MCPlain == BoundedSeq({"x"}, 1)
=============================================================================
