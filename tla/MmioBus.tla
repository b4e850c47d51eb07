------------------------------- MODULE MmioBus -------------------------------
(***************************************************************************)
(* How MmioBus::write turns an access of the firmware into the one word    *)
(* that a peripheral's write32 gets.  A register is the set of its bits;    *)
(* an access covers some of them and carries the bits that it sets.        *)
(***************************************************************************)
EXTENDS FiniteSets

\* Accesses to the register with these bits: a word, some of its bytes, one
\* bit through the bit-band alias.
Accesses(bits, bytes) ==
    UNION { [covers : {c}, value : SUBSET c] :
            c \in {bits} \cup bytes \cup {{b} : b \in bits} }

\* The register as write32 gets it; base is the peripheral's partialWriteBase.
\* (For a word nothing of it is left.)
Written(base, access) == (base \ access.covers) \cup access.value

=============================================================================
