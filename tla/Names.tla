------------------------------- MODULE Names -------------------------------
(***************************************************************************)
(* Topics and the names of message files: parse_topic (src/src/data.c),    *)
(* _format_tmpfile and _format_seqfile (src/src/data.h), parse_file_name   *)
(* and the way mds_file_open takes a name out of a path (src/src/file.c).  *)
(* A name is a sequence of characters; "tmp" is one.                       *)
(***************************************************************************)
EXTENDS Integers, Sequences, SequencesExt

CONSTANTS
  Width         (* how many characters a topic's number has (the code: 6)  *)

ASSUME NamesAssumption == Width \in Nat \ {0}

Digits == <<"0", "1", "2", "3", "4", "5", "6", "7", "8", "9">>
IsDigit(c) == Contains(Digits, c)
DigitOf(c) == (CHOOSE i \in DOMAIN Digits : Digits[i] = c) - 1

Bad == [ok |-> FALSE]

(* Where c is first in s, 0 if nowhere (strchr), and where it is last      *)
(* (strrchr).                                                              *)
FirstOf(s, c) == SelectInSeq(s, LAMBDA x : x = c)
LastOf(s, c)  == SelectLastInSeq(s, LAMBDA x : x = c)
From(s, i) == SubSeq(s, i, Len(s))

(* How many of the first characters of s are c. *)
Leading(s, c) ==
  CHOOSE n \in 0 .. Len(s) :
    /\ \A i \in 1 .. n : s[i] = c
    /\ n = Len(s) \/ s[n + 1] # c

-----------------------------------------------------------------------------
(* sscanf with "%u": blanks, a sign and digits.  The number of s when all  *)
(* of it was used and the result, taken as an int, is not negative.        *)
Value(ds) ==
  LET value[i \in 0 .. Len(ds)] ==
        IF i = 0 THEN 0 ELSE 10 * value[i - 1] + DigitOf(ds[i]) IN
  value[Len(ds)]

Scanned(s) ==
  LET text   == From(s, Leading(s, " ") + 1)
      signed == text # <<>> /\ text[1] \in {"+", "-"}
      ds     == IF signed THEN Tail(text) ELSE text IN
  IF ds = <<>> \/ \E i \in DOMAIN ds : ~IsDigit(ds[i]) THEN Bad
  ELSE IF signed /\ text[1] = "-" /\ Value(ds) > 0 THEN Bad
  ELSE [ok |-> TRUE, v |-> Value(ds)]

(* The number of a topic or a file: zeros in front are skipped, and zeros  *)
(* alone are 0.                                                            *)
Scaled(s) ==
  LET rest == From(s, Leading(s, "0") + 1) IN
  IF rest = <<>> THEN [ok |-> TRUE, v |-> 0] ELSE Scanned(rest)

(* The market, 1 for SH and 2 for SZ. *)
Market(s) == CASE s = <<"S", "H">> -> 1
               [] s = <<"S", "Z">> -> 2
               [] OTHER            -> 0

(* Variant of HasLength: it is not looked at. *)
AnyLength(s) == TRUE

HasLength(s) == Len(s) = Width + 3

(* parse_topic. *)
ParseTopic(s) ==
  LET dot == FirstOf(s, ".")
      nr  == Scaled(SubSeq(s, 1, dot - 1))
      m   == Market(From(s, dot + 1)) IN
  IF ~HasLength(s) \/ dot < 2 THEN Bad
  ELSE IF ~nr.ok \/ m = 0 THEN Bad
  ELSE [ok |-> TRUE, exch |-> m, instr |-> nr.v]

(* parse_file_name; -1 is the number of a .tmp file. *)
ParseFileName(s) ==
  LET dot    == FirstOf(s, ".")
      nr     == Scaled(SubSeq(s, 1, dot - 1))
      rest   == From(s, dot + 1)
      m      == Market(SubSeq(rest, 1, FirstOf(rest, ".") - 1))
      suffix == From(rest, FirstOf(rest, ".") + 1) IN
  IF dot < 2 THEN Bad
  ELSE IF ~nr.ok \/ FirstOf(rest, ".") # 3 \/ m = 0 THEN Bad
  ELSE IF suffix = <<"tmp">> THEN [ok |-> TRUE, exch |-> m, instr |-> nr.v, seq |-> -1]
  ELSE IF ~Scanned(suffix).ok THEN Bad
  ELSE [ok |-> TRUE, exch |-> m, instr |-> nr.v, seq |-> Scanned(suffix).v]

-----------------------------------------------------------------------------
(* "%u" and "%06u". *)
Decimal[n \in Nat] ==
  IF n < 10 THEN <<Digits[n + 1]>> ELSE Append(Decimal[n \div 10], Digits[(n % 10) + 1])

(* Variant of Padded: "%u". *)
Unpadded(n) == Decimal[n]

Padded(n) ==
  LET d == Decimal[n] IN
  IF Len(d) >= Width THEN d ELSE [i \in 1 .. Width - Len(d) |-> "0"] \o d

(* exchIdstr. *)
ExchIdstr(e) == <<"S", IF e = 1 THEN "H" ELSE "Z">>

(* The name of a file and the topic that is published and subscribed.      *)
FileName(e, i, seq) ==
  Padded(i) \o <<".">> \o ExchIdstr(e) \o <<".">>
    \o (IF seq < 0 THEN <<"tmp">> ELSE Decimal[seq])
Topic(e, i) == Padded(i) \o <<".">> \o ExchIdstr(e)

(* _format_tmpfile and _format_seqfile. *)
Path(dir, date, e, i, seq) ==
  dir \o <<"/">> \o Decimal[date] \o <<"/">> \o FileName(e, i, seq)

(* mds_file_open: what comes after the last backslash. *)
NameIn(path) == From(path, LastOf(path, "backslash") + 1)
=============================================================================
