---------------------------- MODULE ConfigReader ----------------------------
(***************************************************************************)
(* The config_reader singleton: setPath loads a file line by line into     *)
(* sections of keys and values, and the getters look them up.              *)
(* config_reader.cc; the conversion to float is left out.                  *)
(*                                                                         *)
(* A line is a sequence of characters.  " " stands for every character for *)
(* which isspace holds, "#" for both marks of a comment.                   *)
(***************************************************************************)
EXTENDS Integers, SequencesExt

CONSTANTS Lines,     \* lines a file may have
          MaxLines,  \* bound on the length of a file
          UInt       \* one more than the largest unsigned

ASSUME ConfigReaderAssumption ==
    /\ UInt \in Nat \ {0}
    /\ MaxLines \in Nat

VARIABLES
    config,  \* the singleton: "null", "loading", "loaded", or the process's
             \*   end, "aborted" by an assert or "crashed" on a null pointer
    map,     \* _map, as a set of [section, key, value]; no getter tells a
             \*   section without keys from none
    m,       \* Load's m: the section of the lines to come, as <<name>>,
             \*   or << >> for the null pointer
    file     \* history: the lines read

vars == <<config, map, m, file>>

Init ==
    /\ config = "null"
    /\ map = {}
    /\ m = << >>
    /\ file = << >>

-----------------------------------------------------------------------------
(* Strings.                                                                *)

isspace(c) == c = " "
NotSpace(c) == ~isspace(c)
substr(s, from) == SubSeq(s, from, Len(s))

trimLeft(s) ==
    LET first == SelectInSeq(s, NotSpace)
    IN  IF first = 0 THEN << >> ELSE substr(s, first)
trimRight(s) == SubSeq(s, 1, SelectLastInSeq(s, NotSpace))
trim(s) == trimLeft(trimRight(s))

(* <<name>> if the line opens section name, else << >>.                    *)
isSection(line) ==
    LET s == trim(line)
    IN  IF Len(s) > 2 /\ s[1] = "[" /\ s[Len(s)] = "]"
        THEN <<trim(SubSeq(s, 2, Len(s) - 1))>> ELSE << >>

(* The line up to the first '=', and after it.                             *)
equ_pos(line) == SelectInSeq(line, LAMBDA c : c = "=")
Key(line) == trim(SubSeq(line, 1, equ_pos(line) - 1))
Value(line) == trim(substr(line, equ_pos(line) + 1))

(* The line gives a value to a key.                                        *)
Assigns(line) ==
    /\ isSection(line) = << >>
    /\ equ_pos(line) # 0
    /\ Key(line) # << >> /\ Key(line)[1] # "#"

-----------------------------------------------------------------------------
(* setPath and Load.                                                       *)

(* The file cannot be opened: false is returned, and the object stays.     *)
setPath(opened) ==
    /\ config = "null"
    /\ config' = IF opened THEN "loading" ELSE "loaded"
    /\ UNCHANGED <<map, m, file>>

read_section(line) ==
    /\ isSection(line) # << >>
    /\ m' = isSection(line)
    /\ UNCHANGED <<config, map>>

(* Mutant: the first value of a key stays.                                 *)
Inserted_First(s, k, v) ==
    IF \E e \in map : e.section = s /\ e.key = k THEN map
    ELSE map \cup {[section |-> s, key |-> k, value |-> v]}

(* The map with value v for key k of section s.                            *)
Inserted(s, k, v) ==
    {e \in map : ~(e.section = s /\ e.key = k)}
        \cup {[section |-> s, key |-> k, value |-> v]}

read_value(line) ==
    /\ Assigns(line)
    /\ IF m = << >> THEN config' = "crashed" /\ UNCHANGED map
       ELSE map' = Inserted(m[1], Key(line), Value(line)) /\ UNCHANGED config
    /\ UNCHANGED m

read_other(line) ==
    /\ isSection(line) = << >> /\ ~Assigns(line)
    /\ UNCHANGED <<config, map, m>>

getline(line) ==
    /\ config = "loading" /\ Len(file) < MaxLines
    /\ file' = Append(file, line)
    /\ read_section(line) \/ read_value(line) \/ read_other(line)

load_end ==
    /\ config = "loading"
    /\ config' = "loaded"
    /\ UNCHANGED <<map, m, file>>

(* The asserts of setPath, called twice, and of ins, called too early.     *)
setPath_again ==
    /\ config = "loaded"
    /\ config' = "aborted"
    /\ UNCHANGED <<map, m, file>>

ins_early ==
    /\ config = "null"
    /\ config' = "aborted"
    /\ UNCHANGED <<map, m, file>>

-----------------------------------------------------------------------------
(* The getters, which only read.                                           *)

Found(s, k) == {e.value : e \in {f \in map : f.section = s /\ f.key = k}}

GetString(s, k, default) ==
    IF Found(s, k) = {} THEN default ELSE CHOOSE v \in Found(s, k) : TRUE

isdigit(c) == c \in {"0", "1"}
Digit(c) == IF c = "1" THEN 1 ELSE 0

(* The number at the start of s, 0 if there is none (with two digits, the  *)
(* decimals 0, 1, 10, 11 and so on), cut to the width of unsigned.         *)
parseNumber(s) ==
    LET t == trimLeft(s)
        neg == t # << >> /\ t[1] = "-"
        u == IF neg THEN substr(t, 2) ELSE t
        n == LET e == SelectInSeq(u, LAMBDA c : ~isdigit(c))
             IN  IF e = 0 THEN Len(u) ELSE e - 1
        v[i \in 0..n] == IF i = 0 THEN 0 ELSE 10 * v[i - 1] + Digit(u[i])
    IN  (IF neg THEN -v[n] ELSE v[n]) % UInt

GetNumber(s, k, default) ==
    IF Found(s, k) = {} THEN default ELSE parseNumber(GetString(s, k, << >>))

GetBool(s, k, default) == GetString(s, k, << >>) = <<"t">> \/ default

IsSep(c) == c \in {",", " "}

(* Mutant: the search for the next item starts at the first separator's    *)
(* successor, which may be another separator.                              *)
NextItem_Adjacent(str, index) == IF index < Len(str) THEN index + 1 ELSE 0

(* Start of the item after the separator at index, 0 if there is none.     *)
NextItem(str, index) ==
    SelectInSubSeq(str, index, Len(str), LAMBDA c : ~IsSep(c))

GetStringList(s, k) ==
    LET str == GetString(s, k, << >>)
        sep(start) == SelectInSubSeq(str, start, Len(str), IsSep)
        items[start \in 1..(Len(str) + 1)] ==
            LET index == sep(start) IN
            IF index = 0 THEN <<substr(str, start)>>
            ELSE <<SubSeq(str, start, index - 1)>>
                     \o (IF NextItem(str, index) = 0 THEN << >>
                         ELSE items[NextItem(str, index)])
    IN  items[1]

-----------------------------------------------------------------------------
Next ==
    \/ \E opened \in BOOLEAN : setPath(opened)
    \/ \E line \in Lines : getline(line)
    \/ load_end \/ setPath_again \/ ins_early

Spec == Init /\ [][Next]_vars

-----------------------------------------------------------------------------
(* Properties.                                                             *)

Strings == {Key(l) : l \in Lines} \cup UNION {ToSet(isSection(l)) : l \in Lines}

(* The section in force at line i of the file: named by the last line up   *)
(* to it that is a '[', something, and a ']', with only blanks around.     *)
Opens(line, name) ==
    \E i, j \in 1..Len(line) :
        /\ i + 1 < j /\ line[i] = "[" /\ line[j] = "]"
        /\ \A p \in 1..Len(line) : p < i \/ p > j => isspace(line[p])
        /\ name = trim(SubSeq(line, i + 1, j - 1))
InForce(i, name) ==
    \E j \in 1..i :
        /\ Opens(file[j], name)
        /\ \A q \in (j + 1)..i : ~\E n \in Strings : Opens(file[q], n)

(* After any part of a file, a key has the value that the last line for it *)
(* in the sections of its name gives it, wherever these lie in the file:   *)
(* sections that are opened again are continued, comments and malformed    *)
(* lines change nothing, and no line is attributed to another section.     *)
LastOneWins ==
    config \in {"loading", "loaded"} =>
        \A s, k \in Strings :
            LET given == {i \in 1..Len(file) : /\ Assigns(file[i]) /\ Key(file[i]) = k
                                               /\ InForce(i, s)}
            IN  GetString(s, k, <<"default">>) =
                    IF given = {} THEN <<"default">> ELSE Value(file[Max(given)])

(* The items of a list are the maximal runs of its value that have no      *)
(* separator, in order; an item before them is empty, and is there only if *)
(* the value starts with a separator or is empty.                          *)
ItemsAreRuns ==
    \A e \in map :
        LET str == e.value
            starts == {i \in 1..Len(str) : ~IsSep(str[i]) /\ (i = 1 \/ IsSep(str[i - 1]))}
            Run(i) == LET n == SelectInSubSeq(str, i, Len(str), IsSep)
                      IN  SubSeq(str, i, IF n = 0 THEN Len(str) ELSE n - 1)
            runs == [n \in 1..Cardinality(starts) |-> Run(SetToSortSeq(starts, <)[n])]
        IN  GetStringList(e.section, e.key) =
                IF str = << >> \/ IsSep(str[1]) THEN <<<< >>>> \o runs ELSE runs

-----------------------------------------------------------------------------
(* What one would expect and the code does not do; README.md gives the     *)
(* behaviours.  No run checks these.                                       *)

(* Any file can be loaded.                                                 *)
NoCrash == config # "crashed"

(* A value that is not "true" turns a switch off, whatever its default.    *)
FalseIsFalse ==
    \A e \in map : e.value # <<"t">> => ~GetBool(e.section, e.key, TRUE)

(* A negative number is not read as a large one.                           *)
NegativeIsNone ==
    \A e \in map : e.value # << >> /\ e.value[1] = "-" =>
                       GetNumber(e.section, e.key, 0) = 0
=============================================================================
