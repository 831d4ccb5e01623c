-------------------------------- MODULE MCNm --------------------------------
(* Two files, symbols of every kind, and a counter up to three. *)
EXTENDS Nm

LOCAL Symbol(shndx, flags, section, bind, type, name, value) ==
  [shndx |-> shndx, flags |-> flags, section |-> section, bind |-> bind,
   type |-> type, name |-> name, value |-> value]

LOCAL Defined(flags, section, bind) ==
  Symbol("SECTION", flags, section, bind, "OTHER", "some", "nonzero")

MCSymbols ==
  { Symbol("UNDEF", {}, "PROGBITS", "LOCAL", "OTHER", "none", "zero"),
    Symbol("ABS", {}, "PROGBITS", "LOCAL", "FILE", "some", "zero"),
    Symbol("ABS", {}, "PROGBITS", "LOCAL", "OTHER", "some", "nonzero"),
    Symbol("UNDEF", {}, "PROGBITS", "GLOBAL", "OTHER", "some", "zero"),
    Symbol("UNDEF", {}, "PROGBITS", "GLOBAL", "OTHER", "empty", "zero"),
    Symbol("UNDEF", {}, "PROGBITS", "WEAK", "OTHER", "some", "nonzero"),
    Symbol("RESERVED", {}, "PROGBITS", "WEAK", "OTHER", "some", "nonzero"),
    Defined({"ALLOC", "EXECINSTR"}, "PROGBITS", "GLOBAL"),
    Defined({"ALLOC", "WRITE"}, "NOBITS", "LOCAL"),
    Defined({"ALLOC", "WRITE"}, "PROGBITS", "UNIQUE"),
    Defined({"ALLOC"}, "NOTE", "LOCAL"),
    Defined({}, "PROGBITS", "GLOBAL") }
=============================================================================
