----------------------------- MODULE AppSettings -----------------------------
(***************************************************************************)
(* AppStart::readConfigFile, of PrimeXM_Price and FIXSpreadEngine: a file  *)
(* is a sequence of lines [key, value], written key=value.                 *)
(***************************************************************************)
EXTENDS Naturals, Sequences

Keys == {"FixSetting", "ManagerLogin", "ManagerPassword", "ManagerIP",
         "FileLogRequired"}

\* The members of AppStart before the file is read.
Defaults == [k \in Keys |-> IF k = "FileLogRequired" THEN "N" ELSE ""]

\* Slip: an unknown key is skipped with its value.
ReadLineSkips(read, line) ==
    IF line.key \in Keys
    THEN [read EXCEPT !.settings[line.key] = line.value]
    ELSE read

\* One turn of the loop.  The value of an unknown key is not read: it becomes
\* the first part of the next key, which therefore is unknown as well.
ReadLine(read, line) ==
    IF read.lost \/ line.key \notin Keys
    THEN [read EXCEPT !.lost = TRUE]
    ELSE [read EXCEPT !.settings[line.key] = line.value]

readConfigFile(file) ==
    LET upTo[i \in 0..Len(file)] ==
            IF i = 0 THEN [settings |-> Defaults, lost |-> FALSE]
            ELSE ReadLine(upTo[i - 1], file[i])
    IN upTo[Len(file)].settings

-----------------------------------------------------------------------------
\* What a setting is, without the loop: the last line that mentions it before
\* the first line with a key that is not known.
Readable(file) == {i \in DOMAIN file : \A j \in 1..i : file[j].key \in Keys}

Setting(file, k) ==
    LET at == {i \in Readable(file) : file[i].key = k}
    IN IF at = {} THEN Defaults[k]
       ELSE file[CHOOSE i \in at : \A j \in at : j <= i].value
=============================================================================
