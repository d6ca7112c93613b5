---------------------------- MODULE MCDwarfTypes ----------------------------
(* A small instance of DwarfTypes: every .debug_info of at most MaxDies    *)
(* DIEs taken from a set that has each group of tags, structs with each    *)
(* kind of member, and declarations beside definitions.                    *)
EXTENDS DwarfTypes

CONSTANT MaxDies

Refs == 0 .. MaxDies

D(tag, ref, name, decl, abbrev, members, lists, symbol) ==
  [tag |-> tag, ref |-> ref, name |-> name, decl |-> decl, abbrev |-> abbrev,
   members |-> members, lists |-> lists, symbol |-> symbol]

Plain(tag, ref) == D(tag, ref, NoName, FALSE, 1, <<>>, 1, "none")
Struct(name, members) ==
  D("structure_type", 0, name, FALSE, 2, members, 1, "none")
M(kind, ref) == [kind |-> kind, ref |-> ref]

SimpleDies ==
  {Plain("base_type", 0), Plain("volatile_type", 0), Plain("subprogram", 0)}
    \cup {Plain(tag, r) : tag \in {"typedef", "pointer_type", "array_type"},
                          r \in Refs}

SymbolDies ==
  {D("variable", r, "v", FALSE, 1, <<>>, 1, s) : r \in Refs \ {2}, s \in Symbols}

EnumDies ==
  {D("enumeration_type", 0, "E", FALSE, 1, <<>>, n, "none") : n \in {1, 9}}

StructDies ==
  {D("structure_type", 0, "S", TRUE, 3, <<>>, 1, "none"),
   Struct("S", <<>>), Struct("T", <<M("other", 0)>>)}
    \cup {Struct("S", <<M("plain", r)>>) : r \in Refs}
    \cup {Struct("S", <<M("bitfield", 1), M("plain", r), M("bitfield", r)>>) :
            r \in Refs}
    \cup {Struct("S", <<M("anonymous", r), M("bitfield", 0)>>) : r \in Refs}
    \cup {Struct("T", <<M("inheritance", r), M("bitfield", r)>>) : r \in {1, 2}}

(* References stay in the section and name types, and no struct is made of *)
(* itself.                                                                 *)
WellFormed(s) ==
  \A d \in 1 .. Len(s) :
    LET refs == {s[d].ref} \cup {s[d].members[i].ref : i \in 1 .. Len(s[d].members)}
    IN  /\ \A r \in refs \ {0} : r <= Len(s) /\ s[r].tag \in TypeTags
        /\ s[d].tag # "pointer_type" => s[d].ref < d
        /\ \A i \in 1 .. Len(s[d].members) :
             s[d].members[i].kind # "plain" => s[d].members[i].ref < d

MCInputs ==
  {s \in UNION {[1 .. n -> SimpleDies \cup SymbolDies \cup EnumDies
                              \cup StructDies] : n \in 0 .. MaxDies} :
     WellFormed(s)}
=============================================================================
