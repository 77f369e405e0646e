--------------------------- MODULE MCXMLProcessor ---------------------------
EXTENDS XMLProcessor

\* Texts: no number, numbers that fit into 5 bits, one that does not.
MCTexts == {{}, {-5}, {0}, {2}, {7}, {16}}

MCLeaf(role, text) == [role |-> role, text |-> text, nested |-> <<>>]

MCEntry(operation, attributes, operands) ==
    [operation |-> operation, attributes |-> attributes, operands |-> operands]

MCRoles == [operation \in Operations |-> RolesOf[operation] \cup {"item"}]

\* Operations over up to three numbers, one role out of place.
MCFlat ==
    UNION {{MCEntry(operation, {"id", "complex"}, operands) :
               operands \in SeqOf({MCLeaf(role, text) :
                   role \in MCRoles[operation], text \in MCTexts}, 2)} :
           operation \in Operations}

MCThree ==
    {MCEntry("division", {"id"}, <<MCLeaf("dividend", x), MCLeaf("divisor", y),
                                   MCLeaf("divisor", z)>>) :
        x \in MCTexts, y \in MCTexts, z \in MCTexts}

\* What may be nested: a value of 5, of -3, a trap, a comment, two operations.
MCInner ==
    LET Of(operation, first, x, second, y) ==
            MCEntry(operation, {}, <<MCLeaf(first, {x}), MCLeaf(second, {y})>>)
    IN  {<<Of("division", "dividend", 15, "divisor", -5)>>,
         <<Of("division", "dividend", 2, "divisor", 0)>>,
         <<Of("subtraction", "subtrahend", 2, "minuend", 7)>>,
         <<MCEntry("comment", {}, <<>>)>>,
         <<Of("addition", "item", 2, "item", 3),
           Of("multiplication", "factor", 2, "factor", 3)>>}

\* A number and a nested operation, in either order.
MCNested ==
    UNION {{MCEntry(operation, {"id"}, operands) : operands \in
              {<<MCLeaf(a, x), [role |-> b, text |-> y, nested |-> inner]>> :
                  a \in RolesOf[operation], b \in RolesOf[operation],
                  x \in {{-5}, {7}}, y \in {{}, {2}}, inner \in MCInner}} :
           operation \in Operations}

MCFile(entries) == [readable |-> TRUE, entries |-> entries]

MCGood == MCEntry("addition", {"id", "name"}, <<MCLeaf("item", {2})>>)

\* One file with one expression of each kind; and directories of up to three
\* files that are sound, hold a comment, or cannot be read.
MCDirectories ==
    {<<MCFile(<<e>>)>> : e \in MCFlat \cup MCThree \cup MCNested}
    \cup SeqOf({MCFile(<<MCGood, MCGood>>),
                MCFile(<<MCGood, MCEntry("comment", {}, <<>>), MCGood>>),
                [readable |-> FALSE, entries |-> <<>>]}, 3)
=============================================================================
