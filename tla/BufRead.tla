------------------------------- MODULE BufRead ------------------------------
(***************************************************************************)
(* zlBufRead.c: a buffer is read field by field.  The reader is a malloc'ed*)
(* handle that frees itself when it answers NULL; without copies it cuts   *)
(* the caller's buffer in place.  Bytes are counted from 0, as in C.       *)
(***************************************************************************)
EXTENDS Nulo, Integers, Sequences, SequencesExt

CONSTANTS
  Caracteres,    \* the bytes a string can have
  Textos,        \* the strings that are read, without their NUL
  Separadores,   \* the separators, none of them empty
  BARRACERO      \* the NUL byte

ASSUME BufAssumption == /\ BARRACERO \notin Caracteres
                        /\ Textos \subseteq Seq(Caracteres)
                        /\ Separadores \subseteq Seq(Caracteres) \ {<<>>}

VARIABLES
  buf,           \* the caller's buffer, with the NUL at its end
  lector,        \* the handle, NULL when there is none
  campos,        \* the fields answered so far
  texto          \* history: the string as it was given

bufVars == <<buf, lector, campos, texto>>

Byte(i) == buf[i + 1]

\* The string at byte i: up to the next NUL.
Cadena(memoria, i) ==
  LET resto == SubSeq(memoria, i + 1, Len(memoria))
  IN SubSeq(resto, 1, SelectInSeq(resto, LAMBDA b : b = BARRACERO) - 1)

BufInit == /\ texto \in Textos
           /\ buf = Append(texto, BARRACERO)
           /\ lector = NULL
           /\ campos = <<>>

\* The length given is that of the string, or 0 for it.
zlrBufReadFor(separador, alloc) ==
  /\ lector = NULL /\ campos = <<>>
  /\ lector' = [posicion |-> 0, endPosicion |-> Len(texto), numLinea |-> -1,
                separador |-> separador, alloc |-> alloc]
  /\ UNCHANGED <<buf, campos, texto>>

\* strstr: where the separator is found from posicion on, before the NUL.
Encontrados ==
  {i \in 0 .. Len(buf) - 1 :
     /\ lector.posicion <= i
     /\ i + Len(lector.separador)
          <= lector.posicion + Len(Cadena(buf, lector.posicion))
     /\ SubSeq(buf, i + 1, i + Len(lector.separador)) = lector.separador}

Encontrado == CHOOSE i \in Encontrados : \A otro \in Encontrados : i <= otro

\* Mutant of NextFin: the end is looked for one byte further.
NextFinPasado == /\ lector.posicion = lector.endPosicion + 1
                 /\ lector' = NULL
                 /\ UNCHANGED <<buf, campos, texto>>

\* zlrBufReadFree, and what a loop sees as its end.
NextFin == /\ lector.posicion = lector.endPosicion
           /\ lector' = NULL
           /\ UNCHANGED <<buf, campos, texto>>

\* No separator is left: the field is the rest, copied or where it is.
NextResto ==
  /\ lector.posicion # lector.endPosicion /\ Encontrados = {}
  /\ campos' = Append(campos, Cadena(buf, lector.posicion))
  /\ lector' = [lector EXCEPT !.posicion = lector.endPosicion, !.numLinea = @ + 1]
  /\ UNCHANGED <<buf, texto>>

\* Mutant of NextCampo: one byte of the separator is skipped.
NextCampoUnByte ==
  /\ lector.posicion # lector.endPosicion /\ Encontrados # {}
  /\ campos' = Append(campos, SubSeq(buf, lector.posicion + 1, Encontrado))
  /\ buf' = IF lector.alloc THEN buf ELSE [buf EXCEPT ![Encontrado + 1] = BARRACERO]
  /\ lector' = [lector EXCEPT !.posicion = Encontrado + 1, !.numLinea = @ + 1]
  /\ UNCHANGED texto

\* Up to the separator, which is skipped; without copies, its first byte is made the
\* NUL of the field.
NextCampo ==
  /\ lector.posicion # lector.endPosicion /\ Encontrados # {}
  /\ campos' = Append(campos, SubSeq(buf, lector.posicion + 1, Encontrado))
  /\ buf' = IF lector.alloc THEN buf ELSE [buf EXCEPT ![Encontrado + 1] = BARRACERO]
  /\ lector' = [lector EXCEPT !.posicion = Encontrado + Len(lector.separador),
                              !.numLinea = @ + 1]
  /\ UNCHANGED texto

zlrBufReadNext == lector # NULL /\ (NextFin \/ NextResto \/ NextCampo)

BufNext == \/ \E separador \in Separadores, alloc \in BOOLEAN : zlrBufReadFor(separador, alloc)
           \/ zlrBufReadNext

BufSpec == BufInit /\ [][BufNext]_bufVars /\ WF_bufVars(zlrBufReadNext)

-----------------------------------------------------------------------------
\* The fields with the separator between them.
Unidos(separador) ==
  LET unidos[n \in 0 .. Len(campos)] ==
        IF n = 0 THEN <<>>
        ELSE (IF n = 1 THEN <<>> ELSE unidos[n - 1] \o separador) \o campos[n]
  IN unidos[Len(campos)]

\* No byte is lost, repeated or read past the end, with copies or without: the fields
\* with the separator between them, and what is left, are the string; and none of the
\* fields has a separator in it.
FieldsMakeTheText ==
  lector # NULL =>
    LET sep == lector.separador
        resto == SubSeq(texto, lector.posicion + 1, lector.endPosicion)
    IN /\ lector.posicion <= lector.endPosicion
       /\ lector.numLinea = Len(campos) - 1
       /\ texto \in {Unidos(sep) \o resto, Unidos(sep) \o sep \o resto}
       /\ \A n \in DOMAIN campos : \A i \in 0 .. Len(campos[n]) - Len(sep) :
            SubSeq(campos[n], i + 1, i + Len(sep)) # sep
       /\ lector.alloc => buf = Append(texto, BARRACERO)

\* The loop ends, and the handle is freed, for every text and separator.
ReaderGoesAway == lector # NULL ~> lector = NULL
=============================================================================
