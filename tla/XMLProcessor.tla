---------------------------- MODULE XMLProcessor ----------------------------
(***************************************************************************)
(* NordeaTest: class XMLProcessor.  findfiles lists the files of a         *)
(* directory; processFile takes them from the back of the list and prints, *)
(* for every expression, its value once per attribute other than           *)
(* "complex".  A nested operation is recognised by std::stoi throwing.     *)
(*                                                                         *)
(* A file is a sequence of entries below <expressions>, or not readable as *)
(* one.  An entry has an operation, attributes (an absent <xmlattr> is     *)
(* {}) and operands; an operand has a role, the number its text starts     *)
(* with, if any, and the operations nested in it.  int has Width bits; an  *)
(* overflowing sum or product wraps, an overflowing or zero division traps *)
(* and ends the process.  TLC only: the module uses RECURSIVE.             *)
(***************************************************************************)
EXTENDS Integers, Sequences, SequencesExt, FiniteSetsExt

CONSTANTS Directories,  \* the directories to run in, sequences of files
          Width         \* bits of an int

VARIABLES
    fileList,   \* _fileList
    tree,       \* entries of _pt not yet visited
    phase,      \* "next file", "visit", "done", or "failed": an exception
                \* that nobody catches, or a trap
    printed,    \* the lines on std::cout, each entry with its value
    directory   \* ghost: what findfiles found

vars == <<fileList, tree, phase, printed, directory>>

Modulus == 2 ^ Width
Ints == -(Modulus \div 2) .. (Modulus \div 2) - 1
Wrap(n) == ((n + Modulus \div 2) % Modulus) - Modulus \div 2

Operations == {"addition", "subtraction", "multiplication", "division"}

-----------------------------------------------------------------------------
(***************************************************************************)
(* The value of an operation: a set of one int, or empty if it traps.      *)
(***************************************************************************)
Magnitude(n) == IF n < 0 THEN -n ELSE n

\* Slip: rounds down.
QuotientDown(x, y) ==
    IF y > 0 THEN x \div y ELSE (-x) \div Magnitude(y)

\* operator/ of ints, which rounds toward zero.
Quotient(x, y) ==
    LET q == Magnitude(x) \div Magnitude(y)
    IN  IF (x >= 0) = (y > 0) THEN q ELSE -q

\* Undefined for zero, and for the least int by -1.
Divide(xs, ys) == {Quotient(x, y) : x \in xs, y \in ys \ {0}} \cap Ints

\* std::stoi of the text; throws (is empty) when there is no number in it or
\* the number does not fit.
stoi(operand) == operand.text \cap Ints

RECURSIVE process(_)

\* Every nested operation is computed, the last one is the result.
callType(nested) ==
    LET known == SelectSeq(nested, LAMBDA e : e.operation \in Operations)
    IN  IF \E i \in DOMAIN known : process(known[i]) = {} THEN {}
        ELSE IF known = <<>> THEN {0}
        ELSE process(Last(known))

operandValue(operand) ==
    IF stoi(operand) # {} THEN stoi(operand) ELSE callType(operand.nested)

\* One turn of the loop of processAdd, processSub, processMul or processDiv.
\* What plays no role in the operation is skipped.
accumulate(operation, result, operand) ==
    LET value == operandValue(operand)
        part == <<operation, operand.role>>
    IN  CASE part \in {<<"addition", "item">>, <<"subtraction", "minuend">>,
                       <<"division", "dividend">>} ->
                 {Wrap(x + y) : x \in result, y \in value}
          [] part = <<"subtraction", "subtrahend">> ->
                 {Wrap(x - y) : x \in result, y \in value}
          [] part = <<"multiplication", "factor">> ->
                 {Wrap(x * y) : x \in result, y \in value}
          [] part = <<"division", "divisor">> -> Divide(result, value)
          [] OTHER -> result

process(e) ==
    FoldLeft(LAMBDA result, operand :
                accumulate(e.operation, result, operand),
             IF e.operation = "multiplication" THEN {1} ELSE {0},
             e.operands)

-----------------------------------------------------------------------------
\* findfiles
Init ==
    /\ directory \in Directories
    /\ fileList = directory
    /\ tree = <<>>
    /\ phase = "next file"
    /\ printed = <<>>

\* init() of the file at the back of the list, and the start of processXML.
OpenFile ==
    /\ phase = "next file"
    /\ fileList # <<>>
    /\ LET file == Last(fileList) IN
        IF file.readable
        THEN /\ tree' = file.entries
             /\ phase' = "visit"
        ELSE /\ phase' = "failed"        \* read_xml or get_child throws
             /\ UNCHANGED tree
    /\ UNCHANGED <<fileList, printed, directory>>

\* One turn of the outer loop of processXML; the inner one prints once per
\* attribute.
VisitEntry ==
    LET entry == Head(tree)
        lines == IF entry.operation \in Operations
                 THEN entry.attributes \ {"complex"} ELSE {}
        trapped == lines # {} /\ process(entry) = {}
    IN  /\ phase = "visit"
        /\ tree # <<>>
        /\ IF entry.attributes = {} \/ trapped  \* no <xmlattr>: get_child throws
           THEN /\ phase' = "failed"
                /\ UNCHANGED <<tree, printed>>
           ELSE /\ printed' = printed \o
                     [i \in 1..Cardinality(lines) |->
                        [entry |-> entry,
                         value |-> CHOOSE n \in process(entry) : TRUE]]
                /\ tree' = Tail(tree)
                /\ UNCHANGED phase
        /\ UNCHANGED <<fileList, directory>>

\* Slip: drops the file at the front of the list.
FileDoneFront ==
    /\ phase = "visit"
    /\ tree = <<>>
    /\ phase' = "next file"
    /\ fileList' = Tail(fileList)
    /\ UNCHANGED <<tree, printed, directory>>

\* deinit() and pop_back.
FileDone ==
    /\ phase = "visit"
    /\ tree = <<>>
    /\ phase' = "next file"
    /\ fileList' = Front(fileList)
    /\ UNCHANGED <<tree, printed, directory>>

AllDone ==
    /\ phase = "next file"
    /\ fileList = <<>>
    /\ phase' = "done"
    /\ UNCHANGED <<fileList, tree, printed, directory>>

Next == OpenFile \/ VisitEntry \/ FileDone \/ AllDone

Spec == Init /\ [][Next]_vars

\* One thread that waits for nothing.
FairSpec == Spec /\ WF_vars(Next)

-----------------------------------------------------------------------------
(***************************************************************************)
(* What an expression means, independent of the order it is computed in.   *)
(***************************************************************************)
RolesOf ==
    [addition |-> {"item"}, subtraction |-> {"minuend", "subtrahend"},
     multiplication |-> {"factor"}, division |-> {"dividend", "divisor"}]

\* The integer part of a / b: the multiple of b next to a, between 0 and a.
IntegerPart(a, b) ==
    CHOOSE q \in -Magnitude(a) .. Magnitude(a) :
        LET rest == a - q * b
        IN  Magnitude(rest) < Magnitude(b) /\ rest * a >= 0

RECURSIVE Meaning(_)
Meaning(e) ==
    LET Of(i) == IF e.operands[i].nested = <<>>
                 THEN CHOOSE n \in e.operands[i].text : TRUE
                 ELSE Meaning(e.operands[i].nested[1])
        Playing(role) == {i \in DOMAIN e.operands : e.operands[i].role = role}
        Total(role) == MapThenSumSet(Of, Playing(role))
        Product(role) == MapThenFoldSet(LAMBDA x, y : x * y, 1, Of,
                            LAMBDA S : CHOOSE i \in S : TRUE, Playing(role))
    IN  CASE e.operation = "addition" -> Total("item")
          [] e.operation = "subtraction" ->
                Total("minuend") - Total("subtrahend")
          [] e.operation = "multiplication" -> Product("factor")
          [] e.operation = "division" ->
                IntegerPart(Total("dividend"), Product("divisor"))

\* The expressions the author had in mind: each operand a number that fits or
\* one operation, the dividend first.
RECURSIVE WellFormed(_)
WellFormed(e) ==
    /\ e.operation \in Operations
    /\ \A i \in DOMAIN e.operands :
        LET o == e.operands[i] IN
        /\ o.role \in RolesOf[e.operation]
        /\ \/ Cardinality(stoi(o)) = 1 /\ o.nested = <<>>
           \/ /\ o.text = {}
              /\ Len(o.nested) = 1
              /\ WellFormed(o.nested[1])
        /\ e.operation = "division" => (o.role = "dividend") = (i = 1)
    /\ e.operation = "division" => e.operands # <<>>

\* No partial result leaves the range of int.
RECURSIVE Fits(_)
Fits(e) ==
    \A k \in DOMAIN e.operands :
        /\ \A i \in DOMAIN e.operands[k].nested : Fits(e.operands[k].nested[i])
        /\ Meaning([e EXCEPT !.operands = SubSeq(@, 1, k)]) \in Ints

\* What is printed for a well formed expression is what it means: the loops
\* over the operands, the exception that tells a nested operation from a
\* number, and division after division (which rounds each time) agree with the
\* sum, difference, product or integer part of the quotient.
PrintedIsMeant ==
    \A i \in DOMAIN printed :
        LET e == printed[i].entry IN
        WellFormed(e) /\ Fits(e) => printed[i].value = Meaning(e)

-----------------------------------------------------------------------------
\* The entries of a file, each as often as it is to be printed.
Lines(file) ==
    FlattenSeq([i \in DOMAIN file.entries |->
        [k \in 1..Cardinality(file.entries[i].attributes \ {"complex"}) |->
            file.entries[i]]])

Sound(file) ==
    /\ file.readable
    /\ \A i \in DOMAIN file.entries :
        LET e == file.entries[i] IN
        e.operation \in Operations /\ e.attributes # {} /\ process(e) # {}

\* Every file is answered up to the first that is not sound, counted from the
\* back of the directory: with sound files only, every expression is printed
\* once per attribute; an unreadable file, a comment, an expression without
\* attributes or a division by zero takes the files before it with it, and no
\* file after it.
SoundFilesAreAnswered ==
    LET back == Reverse(directory)
        sound == {n \in 0..Len(back) : \A i \in 1..n : Sound(back[i])}
        expected == FlattenSeq([i \in 1..Max(sound) |-> Lines(back[i])])
        answered == [i \in DOMAIN printed |-> printed[i].entry]
    IN  <>(IF Len(back) \in sound
           THEN phase = "done" /\ answered = expected
           ELSE phase = "failed" /\ IsPrefix(expected, answered))
=============================================================================
