--------------------------- MODULE MCConfigReader ---------------------------
(* The lines of the files that the run of ConfigReader loads: sections     *)
(* with and without blanks, values with blanks, a second '=', separators,  *)
(* a number and nothing, comments, and lines that are none of these.       *)
EXTENDS ConfigReader

FileLines == {
    <<"[", "a", "]">>, <<" ", "[", " ", "a", "]", " ">>, <<"[", "b", "]">>,
    <<"[", " ", "]">>, <<"[", "]">>, <<"[", "a">>, << >>,
    <<"k", "=", "-", "1">>, <<" ", "k", " ", "=", " ", "x", " ", ",", "t", " ">>,
    <<"k", "=", ",", "=", ",">>, <<"a", "=">>, <<"=", "t">>,
    <<"#", "k", "=", "t">>, <<" ", "#", "[", "b", "]">>, <<"[", "=", "]">>}
=============================================================================
