----------------------------- MODULE JavaRules -----------------------------
(***************************************************************************)
(* What the Java language and VM specifications say of a program: which    *)
(* method an instruction selects, which field it means, which casts pass,  *)
(* and what integer instructions compute.  world[c] describes class c as   *)
(* ClassFormat does.  ClassTypes and Arithmetic are compared with this.    *)
(***************************************************************************)
EXTENDS Integers, SequencesExt, Powers

CONSTANTS NoText, Nowhere,
          InterfaceNames \* classes that are interfaces

VARIABLE world

\* The classes from c up, and all its supertypes.
Classes[c \in DOMAIN world] ==
    <<c>> \o (IF world[c].super = NoText THEN <<>> ELSE Classes[world[c].super])
Supertypes[c \in DOMAIN world] ==
    {c} \cup (UNION {Supertypes[i] : i \in Range(world[c].interfaces)})
        \cup (IF world[c].super = NoText THEN {} ELSE Supertypes[world[c].super])

Described(members, static, x, d) ==
    {m \in Range(members) : m.name = x /\ m.desc = d /\ ((m.flags \div 8) % 2 = 1) = static}
Method(c, static, x, d) == Described(world[c].methods, static, x, d)
HasBody(m) == m.body \/ (m.flags \div 256) % 2 = 1
Implements(c, static, x, d) == \E m \in Method(c, static, x, d) : HasBody(m)

Nearest(c, P(_)) ==
    LET i == SelectInSeq(Classes[c], P) IN IF i = 0 THEN Nowhere ELSE Classes[c][i]

\* Method selection for an object of class c: the nearest class that declares
\* it, and otherwise the one superinterface that does and is more specific
\* than all others; Nowhere if what is found has no body.
Select(c, x, d) ==
    LET class == Nearest(c, LAMBDA k : Method(k, FALSE, x, d) # {})
        declare == {i \in Supertypes[c] \cap InterfaceNames : Method(i, FALSE, x, d) # {}}
        most == {i \in declare : ~\E j \in declare \ {i} : i \in Supertypes[j]}
    IN  IF class # Nowhere
        THEN IF Implements(class, FALSE, x, d) THEN class ELSE Nowhere
        ELSE IF \E i \in most : most = {i} /\ Implements(i, FALSE, x, d)
        THEN CHOOSE i \in most : TRUE ELSE Nowhere

\* Resolution of static methods, and what a search for a field finds that
\* looks at no interfaces.
SelectStatic(c, x, d) == Nearest(c, LAMBDA k : Method(k, TRUE, x, d) # {})
NearestField(c, static, x, d) == Nearest(c, LAMBDA k : Described(world[k].fields, static, x, d) # {})

\* Resolution of a field: in the class itself, else in its interfaces, in
\* their order, and what these inherit, else in its superclass.
OwnerOf(c, x, d) ==
    LET Has(k) == \E f \in Range(world[k].fields) : f.name = x /\ f.desc = d
        owner[k \in DOMAIN world] ==
            LET above == world[k].interfaces
                             \o (IF world[k].super = NoText THEN <<>> ELSE <<world[k].super>>)
                hits == {i \in 1..Len(above) : owner[above[i]] # Nowhere}
            IN  IF Has(k) THEN k ELSE IF hits = {} THEN Nowhere ELSE owner[above[Min(hits)]]
    IN  owner[c]

\* The class whose field, static or not, an instruction means; Nowhere if the
\* field is of the other kind.
FieldOf(c, static, x, d) ==
    LET owner == OwnerOf(c, x, d)
    IN  IF owner # Nowhere /\ Described(world[owner].fields, static, x, d) # {}
        THEN owner ELSE Nowhere

-----------------------------------------------------------------------------
(* Integers of w bits in two's complement                                  *)

Ints(w) == -(Pow[w - 1]) .. (Pow[w - 1] - 1)
Unsigned(w, n) == n % Pow[w]
Signed(w, n) == CHOOSE i \in Ints(w) : i % Pow[w] = n % Pow[w]

Abs(n) == IF n < 0 THEN -n ELSE n
\* Division leaves the remainder that has the sign of the dividend.
IsQuotient(q, x, y) ==
    LET r == x - q * y IN Abs(r) < Abs(y) /\ (r # 0 => (r < 0) = (x < 0))
Quotient(x, y) == CHOOSE q \in -Abs(x)..Abs(x) : IsQuotient(q, x, y)

=============================================================================
