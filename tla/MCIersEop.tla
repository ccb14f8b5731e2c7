----------------------------- MODULE MCIersEop -----------------------------
(***************************************************************************)
(* Instances of IersEop for TLC.  The time line of the tables, in rows:    *)
(* the sparse part of the C01 file has rows 0..2 and its dense part rows   *)
(* from 3, C04 starts at 6 and the rapid series at 9.  Dates 1..3 are      *)
(* served from the sparse table, 4..6 from C01, 7..9 from C04, 10 and 11   *)
(* from the rapid series and later ones from C04; 0 is before all tables.  *)
(***************************************************************************)
EXTENDS IersEop

CONSTANTS rapidUrl, c04Url, c01Url, mirrorC04, mirrorC01, deadUrl

MCDefaultUrl == [s \in Series |-> CASE s = "rapid" -> rapidUrl
                                    [] s = "c04" -> c04Url
                                    [] s = "c01" -> c01Url]

MCJdStart == [f \in File |-> CASE f = "c01_sparse" -> 0
                               [] f = "c01" -> 3
                               [] f = "c04" -> 6
                               [] f = "rapid" -> 9]

\* Headers differ between a default file and its mirror, by a part of a row.
MCServed == [u \in Url |->
    CASE u = rapidUrl -> [header |-> 0, first |-> 9, last |-> 13]
      [] u = c04Url    -> [header |-> 4, first |-> 6, last |-> 14]
      [] u = c01Url    -> [header |-> 3, first |-> 0, last |-> 10]
      [] u = mirrorC04 -> [header |-> 1, first |-> 6, last |-> 12]
      [] u = mirrorC01 -> [header |-> 6, first |-> 0, last |-> 10]
      [] OTHER         -> [header |-> 0, first |-> 0, last |-> -1]]

MCBothMirrors == [s \in {"c04", "c01"} |-> IF s = "c04" THEN {mirrorC04} ELSE {mirrorC01}]
MCC04Mirror   == [s \in {"c04"} |-> {mirrorC04}]
MCC04Any      == [s \in {"c04"} |-> {mirrorC04, deadUrl}]

MCJdC04    == {0, 7, 8}
MCJdOne    == {7}
MCJdPair   == {7, 8}
MCJdSingle == {0, 2, 5, 7, 10}
MCYear     == {2014}


=============================================================================
