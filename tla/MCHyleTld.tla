----------------------------- MODULE MCHyleTld ------------------------------
EXTENDS HyleTld

\* The TLD itself, a fresh TLD, and a subdomain of another TLD (which
\* "hyle" may not register).
MCNames == {"hyle", "foo", "a.foo"}
MCParent == [c \in MCNames |->
                IF c = "a.foo" THEN "foo" ELSE NoParent]
MCIdentities == {"hyli@wallet", "alice@hydentity"}
MCProgramIds == {"p0", "p1"}
MCWindows == {"default", "w1"}
MCHyleRecord == [program |-> "p0", window |-> "default"]
=============================================================================
