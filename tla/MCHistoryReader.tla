--------------------------- MODULE MCHistoryReader ---------------------------
(***************************************************************************)
(* Instances of HistoryReader for TLC.                                     *)
(***************************************************************************)
EXTENDS HistoryReader

\* A history that fits a page, one of a few pages and one as long as a one-byte
\* token can serve with every page size.
MCLengths == {1, 5, 256}
MCPageSizes == {1, 2, 3, 100, 255, 256, 257}

\* 300 batches, two at a time, are 149 page turns.
MCLongLengths == {300}
MCLongPageSizes == {2}
=============================================================================
