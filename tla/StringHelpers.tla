---------------------------- MODULE StringHelpers ----------------------------
(***************************************************************************)
(* The string helpers of tg_util.c, checked against what first and last    *)
(* occurrence mean, and the two callers that cut a string in two with      *)
(* them: getLibName and the lines of __read_conf_file.                     *)
(*                                                                         *)
(* Positions count from 0, as in the source.  The helpers compare one      *)
(* character, copied to the stack, with strncmp over the length of the     *)
(* separator: every caller passes a separator of length one, for which     *)
(* nothing behind that copy is read.  lastFindSeparator goes on to         *)
(* position -1 and reads the byte before its buffer.                       *)
(***************************************************************************)
EXTENDS Integers, Sequences

CONSTANTS
    Char,           \* characters
    MaxLen          \* bound of the model: length of a string

ASSUME StringAssumption == MaxLen \in Nat

VARIABLES
    source,         \* a string
    sepr,           \* a separator of one character
    before          \* the byte on the stack before the copy of source

stringVars == <<source, sepr, before>>

String == UNION {[1 .. n -> Char] : n \in 0 .. MaxLen}

\* Character at a position of the copy c[].
cAt(pos) == IF pos < 0 THEN before ELSE source[pos + 1]

findSeparator ==
    LET f[pos \in 0 .. Len(source)] ==
            IF pos > Len(source) - 1 THEN -1
            ELSE IF cAt(pos) = sepr THEN pos ELSE f[pos + 1]
    IN  IF Len(source) < 1 THEN -1 ELSE f[0]

\* Mutant: position 0 is not looked at.
LastFindSeparatorShort ==
    LET f[pos \in -2 .. Len(source)] ==
            IF pos < 1 THEN -2 ELSE IF cAt(pos) = sepr THEN pos ELSE f[pos - 1]
    IN  IF Len(source) < 1 THEN -1 ELSE f[Len(source) - 1]

\* "while(pos-->=0)": the last round has pos = -1, and the test that ends the
\* loop leaves -2.
lastFindSeparator ==
    LET f[pos \in -2 .. Len(source)] ==
            IF pos < -1 THEN -2 ELSE IF cAt(pos) = sepr THEN pos ELSE f[pos - 1]
    IN  IF Len(source) < 1 THEN -1 ELSE f[Len(source) - 1]

\* getLibName: what follows the last separator; nothing (<<>>) without one.
getLibName ==
    IF lastFindSeparator >= 0
    THEN <<SubSeq(source, lastFindSeparator + 2, Len(source))>> ELSE <<>>

\* A line of the configuration file: what is before the first separator and what
\* is behind it; nothing without one.
ConfLine ==
    IF findSeparator = -1 THEN <<>>
    ELSE <<SubSeq(source, 1, findSeparator), SubSeq(source, findSeparator + 2, Len(source))>>

StringInit == source \in String /\ sepr \in Char /\ before \in Char

\* The next call, for the same string with another separator.
Call ==
    /\ sepr' \in Char
    /\ UNCHANGED <<source, before>>

StringSpec == StringInit /\ [][Call]_stringVars

-----------------------------------------------------------------------------
Occurrences == {n \in 0 .. Len(source) - 1 : source[n + 1] = sepr}

\* findSeparator returns the first occurrence and -1 if there is none;
\* lastFindSeparator the last one, and -1 or -2 if there is none, depending on a
\* byte outside the string.  The name of a library has no separator in it, and a
\* line of the file is cut so that key, separator and value are the line.
SearchesRight ==
    /\ IF Occurrences = {}
       THEN findSeparator = -1 /\ lastFindSeparator \in {-1, -2}
       ELSE /\ {findSeparator, lastFindSeparator} \subseteq Occurrences
            /\ \A n \in Occurrences : findSeparator <= n /\ n <= lastFindSeparator
    /\ getLibName # <<>> => \A n \in DOMAIN getLibName[1] : getLibName[1][n] # sepr
    /\ ConfLine # <<>> => ConfLine[1] \o <<sepr>> \o ConfLine[2] = source
=============================================================================
