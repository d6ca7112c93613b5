----------------------------- MODULE MCPEImage -----------------------------
(***************************************************************************)
(* Images of two to five sections: DWARF at the end, before another        *)
(* section, or in another file; CodeView in a .debug section that is the   *)
(* last or not; a symbol table behind the sections, or none where no name  *)
(* needs it.                                                               *)
(***************************************************************************)
EXTENDS PEImage, SequencesExt

Content(name) == IF name = ".debug" THEN "NB09" ELSE name

(* A section behind the others: in memory at the next multiple of          *)
(* SectionAlignment, in the file at the next of FileAlignment.             *)
Laid(m, kind) ==
  LET last == m.sec[Len(m.sec)]
      va   == IF m.sec = <<>> THEN SectionAlignment
              ELSE AlignUp(last.va + last.vsize, SectionAlignment)
      raw  == AlignUp(Len(m.file), FileAlignment)
  IN  [sec  |-> Append(m.sec, [name |-> kind.name, va |-> va, vsize |-> kind.vsize,
                               raw |-> IF kind.rawsize = 0 THEN 0 ELSE raw,
                               rawsize |-> kind.rawsize]),
       file |-> m.file \o Bytes("zero", 0, raw - Len(m.file))
                  \o Bytes(Content(kind.name), Len(m.sec), kind.rawsize)]

Kind(name, vsize, rawsize) == [name |-> name, vsize |-> vsize, rawsize |-> rawsize]
Text  == {Kind(".text", 3, 4), Kind(".text", 8, 8)}
Data  == {Kind(".data", 9, 4), Kind(".data", 4, 0)}
Link  == {Kind(".gnu_debuglink", 2, 4)}
Line  == {Kind(".debug_line", 3, 4), Kind(".debug_line", 8, 8)}
Info  == {Kind(".debug_info", 5, 8)}
Debug == {Kind(".debug", 3, 4), Kind(".debug", 12, 12)}

Kinds ==
  (Text \X Data) \cup (Text \X Data \X Link)
    \cup (Text \X Data \X Line) \cup (Text \X Data \X Line \X Info)
    \cup (Text \X Line \X Info \X Data) \cup (Text \X Line \X Data \X Info)
    \cup (Text \X Data \X Debug) \cup (Text \X Debug \X Data)
    \cup (Text \X Debug \X Data \X Link) \cup (Text \X Data \X Link \X Line \X Info)

DebugAt(m) == {s \in DOMAIN m.sec : m.sec[s].name = ".debug"}

(* CodeView has its directory at the start of .text, and another entry     *)
(* may precede the one for CodeView.                                       *)
WithDirectory(m) ==
  LET s == m.sec[CHOOSE s \in DebugAt(m) : TRUE]
  IN  IF DebugAt(m) = {}
        THEN m @@ [dir |-> [rva |-> 0, size |-> 0],
                   entry |-> [type |-> "other", ptr |-> 0, addr |-> 0, size |-> 0]]
        ELSE [m EXCEPT !.file = [k \in DOMAIN @ |->
                 IF k \in m.sec[1].raw + 1 .. m.sec[1].raw + DirSize
                   THEN <<"dir", 1, k - m.sec[1].raw>> ELSE @[k]]]
             @@ [dir |-> [rva |-> m.sec[1].va, size |-> DirSize],
                 entry |-> [type |-> "codeview", ptr |-> s.raw, addr |-> s.va,
                            size |-> s.rawsize]]

WithSymbols(m, n) ==
  [m EXCEPT !.file = @ \o Bytes("symbol", 0, n)]
    @@ [symtab |-> IF n = 0 THEN 0 ELSE Len(m.file), symbols |-> n,
        sizeOfImage |-> AlignUp(m.sec[Len(m.sec)].va + m.sec[Len(m.sec)].vsize,
                                SectionAlignment)]

Image(ks) ==
  WithDirectory(FoldLeft(Laid, [sec |-> <<>>, file |-> Bytes("header", 0, 6)], ks))

MCImages ==
  {WithSymbols(Image(ks), 3) : ks \in Kinds}
    \cup {WithSymbols(Image(ks), 0) :
            ks \in {l \in Kinds : \A i \in DOMAIN l : l[i].name \notin LongNames}}
=============================================================================
