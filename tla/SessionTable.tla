---------------------------- MODULE SessionTable ----------------------------
(***************************************************************************)
(* The table that turns the identity of a device into its session number   *)
(* (htab in windows_nt_common.c): open addressing with double hashing in   *)
(* HtabSize + 1 entries of which entry 0 is never used, because 0 says     *)
(* "not used" in an entry and "no session" in an answer.                   *)
(***************************************************************************)
EXTENDS Integers, Sequences, FiniteSets

CONSTANTS HtabSize,     \* HTAB_SIZE: 1021 in the code, a prime
          Hash          \* Hash[s]: the hash of string s modulo HtabSize

ASSUME TableAssumption ==
    /\ HtabSize \in Nat \ {0, 1, 2}
    /\ \A n \in 2 .. HtabSize - 1 : HtabSize % n # 0
    /\ \A s \in DOMAIN Hash : Hash[s] \in 0 .. HtabSize - 1

Strings == DOMAIN Hash
Entries == 1 .. HtabSize
Free == [used |-> 0, str |-> 0]

\* htab_create and htab_destroy.  The strings of entries 0 to HtabSize - 1 are
\* freed, so that the one in the last entry is not.
EmptyTable == [entry |-> [i \in Entries |-> Free], filled |-> 0]
Freed(table) == {i \in 1 .. HtabSize - 1 : table.entry[i].used # 0}
Leaked(table) == {i \in Entries : table.entry[i].used # 0} \ Freed(table)

\* htab_hash.  Main(s) is the first index; with a collision the search goes on
\* in steps of a second hash.
Main(s) == IF Hash[s] = 0 THEN 1 ELSE Hash[s]
Stride(s) == 1 + (Main(s) % (HtabSize - 2))
Onward(index, stride) == IF index <= stride THEN HtabSize + index - stride ELSE index - stride
Visited(s) ==
    LET visit[n \in 0 .. HtabSize] ==
          IF n = 0 THEN Main(s) ELSE Onward(visit[n - 1], Stride(s))
    IN  visit
\* Mutant: the strings are not compared when their hashes are the same
Holds_HashOnly(table, i, s) == table.entry[i].used = Main(s)
Holds(table, i, s) == table.entry[i].used = Main(s) /\ table.entry[i].str = s
\* Where the search ends: at the string, at an unused entry, or where it began
Ends(table, s, n) ==
    \/ Holds(table, Visited(s)[n], s)
    \/ table.entry[Visited(s)[n]].used = 0
    \/ n > 0 /\ Visited(s)[n] = Main(s)
Found(table, s) ==
    Visited(s)[CHOOSE n \in 0 .. HtabSize :
                 Ends(table, s, n) /\ \A m \in 0 .. n - 1 : ~Ends(table, s, m)]
\* The session of s and the table after the call; "copied" says whether there
\* is memory for a copy of the string
SessionId(table, s, copied) ==
    LET i == Found(table, s)
    IN  IF Holds(table, i, s) THEN [id |-> i, table |-> table]
        ELSE IF table.filled >= HtabSize \/ ~copied THEN [id |-> 0, table |-> table]
        ELSE [id |-> i, table |-> [table EXCEPT !.entry[i] = [used |-> Main(s), str |-> s],
                                                !.filled = @ + 1]]
=============================================================================
