------------------------------ MODULE Funciones -----------------------------
(***************************************************************************)
(* The functions of zlUtil.lib that keep no state: a program calls one on  *)
(* what it has, and again on what that left.                               *)
(***************************************************************************)
EXTENDS Cadenas

I == INSTANCE Ipv4

CONSTANTS
  Direcciones,   \* the strings that are validated as addresses
  Lineas,        \* the buffers that are edited, and the files that are read
  Largo          \* the length campos are padded to

ASSUME FuncionesAssumption ==
  /\ Direcciones \subseteq Seq(I!CaracteresIp)
  /\ Lineas \subseteq Seq(Bytes)
  /\ Largo \in Nat

VARIABLES llamada,    \* the last function called
          entrada,    \* the buffer it was called with
          salida      \* the buffer it left or answered, and the number it answered

funVars == <<llamada, entrada, salida>>

FunInit == llamada = "main" /\ entrada = <<>> /\ salida = [buf |-> <<>>, ret |-> 0]

Llama(fn, argumento, buf, ret) == /\ llamada' = fn
                                  /\ entrada' = argumento
                                  /\ salida' = [buf |-> buf, ret |-> ret]

Valida(str) == Llama("isValidIp4", str, str, IF I!isValidIp4(str) THEN 1 ELSE 0)

\* A line of a file: the newline goes first, then the spaces around the rest.
QuitaSalto(linea) ==
  LET q == quita0d0a(Append(linea, NUL)) IN Llama("quita0d0a", linea, q.buf, q.ret)

Limpia == /\ llamada = "quita0d0a"
          /\ LET l == limpiaBuffer(salida.buf, strlen(salida.buf))
             IN Llama("limpiaBuffer", salida.buf, l.buf, l.len)

Rellena == /\ llamada = "limpiaBuffer"
           /\ LET campo == Texto(salida.buf)
              IN Llama("padCerosIzquierda", campo, padCerosIzquierda(campo, Largo), 0)

QuitaMates(linea) == Llama("quitaMates", linea, quitaMates(Append(linea, NUL)), 0)

Lee(fichero) == Llama("zluFile2Buf", fichero, zluFile2Buf(fichero), 0)

FunNext == \/ /\ llamada = "main"
              /\ \/ \E str \in Direcciones : Valida(str)
                 \/ \E linea \in Lineas : QuitaSalto(linea) \/ QuitaMates(linea) \/ Lee(linea)
           \/ Limpia
           \/ Rellena

FunSpec == FunInit /\ [][FunNext]_funVars

-----------------------------------------------------------------------------
Tras(fn) == llamada = fn

\* An address is valid when it is four groups of digits of at most 255.
AddressesAreRight ==
  Tras("isValidIp4") => (salida.ret = 1 <=> I!EsDireccion(entrada))

\* Cleaning a line leaves what was between its spaces, once and whole, and answers its
\* length.
CleanIsTrimmed ==
  Tras("limpiaBuffer") =>
    LET queda == Texto(salida.buf)
    IN /\ salida.ret = Len(queda)
       /\ Len(salida.buf) = Len(entrada)
       /\ queda # <<>> => Head(queda) # ESPACIO /\ Last(queda) # ESPACIO
       /\ \E n, m \in 0 .. Len(entrada) :
            Texto(entrada) = [i \in 1 .. n |-> ESPACIO] \o queda \o [i \in 1 .. m |-> ESPACIO]

\* A file without NULs is read whole, wherever its lines and the pieces fgets gives
\* begin and end.
FileIsWhole ==
  Tras("zluFile2Buf") => (NUL \notin {entrada[i] : i \in DOMAIN entrada} => salida.buf = entrada)

\* A number padded with zeros has the length asked for, and keeps what it was.
PadKeepsField ==
  Tras("padCerosIzquierda") =>
    /\ Len(salida.buf) = IF Len(entrada) > Largo THEN Len(entrada) ELSE Largo
    /\ IsSuffix(entrada, salida.buf)
    /\ \A i \in 1 .. Len(salida.buf) - Len(entrada) : salida.buf[i] = CERO

AnswersAreRight == AddressesAreRight /\ CleanIsTrimmed /\ FileIsWhole /\ PadKeepsField
=============================================================================
