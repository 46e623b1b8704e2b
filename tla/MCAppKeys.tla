------------------------------ MODULE MCAppKeys ------------------------------
(* One app with every spelling of its ID, and releases that bring along    *)
(* no MNEMONIC, words of the developer's, or something invalid.            *)
EXTENDS AppKeys

CONSTANTS a1, words

Spelled(checksummed, prefixed) ==
    [address |-> a1, checksummed |-> checksummed, prefixed |-> prefixed]

AllSpellings == {Spelled(c, p) : c \in BOOLEAN, p \in BOOLEAN}

LowerSpellings == {Spelled(FALSE, p) : p \in BOOLEAN}

Sealed(id, private, public) == [sealedFor |-> id, private |-> private, public |-> public]

MCReleases ==
    {Sealed(id, Absent, Absent) : id \in AllSpellings} \cup
    {Sealed(Spelled(FALSE, TRUE), words, Absent), Sealed(Spelled(TRUE, TRUE), Invalid, words),
     Sealed(Spelled(FALSE, TRUE), words, Invalid)}
=============================================================================
