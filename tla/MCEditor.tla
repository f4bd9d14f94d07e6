------------------------------- MODULE MCEditor -------------------------------
(* Instances of Editor for TLC. *)
EXTENDS Editor, TLC

(* " 07" is a numeral between blanks once it is trimmed, "x" is none; "d/f" is the
   path of file "f". *)
AllStrings == {"", "a", "b", "l", "x", " 07", "07", "7", "3", "d/f", "f"}
MCTrimmed == [s \in AllStrings |-> IF s = " 07" THEN "07" ELSE s]
MCBaseName == [s \in AllStrings |->
                 CASE s = "d/f" -> "f" [] s = " 07" -> "07" [] OTHER -> s]
MCNumeral == [s \in {"3", "7", "07"} |-> IF s = "3" THEN 3 ELSE 7]
MCItoa == [n \in {3, 7} |-> IF n = 3 THEN "3" ELSE "7"]

(* A December, a February of a leap year, and no date. *)
MCTyped == [title |-> {"a"}, desc |-> {"b"}, login |-> {"l"}, secret |-> {" 07"},
            system |-> {"x"}, number |-> {"l"}, holder |-> {"x"}, cvc |-> {" 07"},
            end |-> {<<12, 29>>, <<2, 28>>, <<29, 2, 2027>>}, path |-> {"d/f"}]
AllFaults == {"fail"}
=============================================================================
