--------------------------- MODULE MCHistoryStore ---------------------------
(* Small instances of HistoryStore for TLC.                                *)
EXTENDS HistoryStore, TLC

\* Connections and objects are interchangeable model values.
MCSymmetry == Permutations(Conn) \cup Permutations(Oid)
=============================================================================
