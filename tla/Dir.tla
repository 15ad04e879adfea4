--------------------------------- MODULE Dir --------------------------------
(***************************************************************************)
(* zlDir.c: the regular files of a directory whose names match, one by     *)
(* one, while other processes create, change and delete files.  A turn of  *)
(* the loop of zlDirNext is a readdir and then the stat of the name it     *)
(* gave, and the file may be another by then.                              *)
(***************************************************************************)
EXTENDS Nulo, Integers

CONSTANTS
  Nombres,       \* the names a file can have
  Coinciden,     \* those that fnmatch accepts
  MaxCambios     \* bound: what other processes do to the directory

ASSUME DirAssumption == /\ Coinciden \subseteq Nombres
                        /\ NULL \notin Nombres \cup [pendientes : SUBSET Nombres]

VARIABLES
  tipo,          \* what stat says of each name
  zlDir,         \* the handle: NULL, or the names readdir has not given
  leido,         \* the name given by readdir that is being looked at, or NULL
  nombres,       \* the names answered since zlDirFor
  fijos,         \* history: those nobody has touched since zlDirFor
  completo,      \* whether the walk came to its end
  cambios

handleVars == <<zlDir, leido, nombres, completo>>
dirVars == <<tipo, handleVars, fijos, cambios>>

\* tipoFile_t
TiposFile == {"NoValido", "Raro", "Regular", "Carpeta"}

DirInit == /\ tipo \in [Nombres -> TiposFile]
           /\ zlDir = NULL
           /\ leido = NULL
           /\ nombres = {}
           /\ fijos = Nombres
           /\ completo = FALSE
           /\ cambios = 0

\* The environment.
CambiaFichero(n, t) == /\ cambios < MaxCambios /\ t # tipo[n]
                       /\ tipo' = [tipo EXCEPT ![n] = t]
                       /\ fijos' = fijos \ {n}
                       /\ cambios' = cambios + 1
                       /\ UNCHANGED handleVars

zlDirFor == /\ zlDir = NULL
            /\ zlDir' = [pendientes |-> Nombres]
            /\ nombres' = {}
            /\ completo' = FALSE
            /\ fijos' = Nombres
            /\ UNCHANGED <<tipo, leido, cambios>>

EnBucleNext == zlDir # NULL /\ leido = NULL

\* readdir gives each name that is there once, and may or may not give one that comes
\* or goes meanwhile.
Readdir(n) == /\ EnBucleNext /\ n \in zlDir.pendientes
              /\ n \in fijos => tipo[n] # "NoValido"
              /\ leido' = n
              /\ zlDir' = [zlDir EXCEPT !.pendientes = @ \ {n}]
              /\ UNCHANGED <<tipo, nombres, fijos, completo, cambios>>

zlDirTipoFichero(n) == tipo[n]

\* Mutant of Pasa: only what is not there any more is passed over.
PasaSiNoEsta(n) == zlDirTipoFichero(n) = "NoValido" \/ n \notin Coinciden

Pasa(n) == zlDirTipoFichero(n) # "Regular" \/ n \notin Coinciden

\* The turn goes on to the next name, or zlDirNext answers this one.
zlDirNext == /\ leido # NULL
             /\ nombres' = IF Pasa(leido) THEN nombres ELSE nombres \cup {leido}
             /\ leido' = NULL
             /\ UNCHANGED <<tipo, zlDir, fijos, completo, cambios>>

\* readdir gives NULL: the handle is closed and freed, and zlDirNext answers NULL.
NextNull == /\ EnBucleNext
            /\ \A n \in zlDir.pendientes \cap fijos : tipo[n] = "NoValido"
            /\ zlDir' = NULL
            /\ completo' = TRUE
            /\ UNCHANGED <<tipo, leido, nombres, fijos, cambios>>

\* The application stops before the end.
zlDirClose == /\ EnBucleNext
              /\ zlDir' = NULL
              /\ UNCHANGED <<tipo, leido, nombres, fijos, completo, cambios>>

DirNext == \/ \E n \in Nombres : \/ \E t \in TiposFile : CambiaFichero(n, t)
                                 \/ Readdir(n)
           \/ zlDirFor
           \/ zlDirNext
           \/ NextNull
           \/ zlDirClose

DirSpec == DirInit /\ [][DirNext]_dirVars

-----------------------------------------------------------------------------
\* Of the files nobody touches during the walk, a walk that comes to its end has
\* answered the regular ones that match and no other, whatever happens to the rest.
UntouchedAreListed ==
  completo => nombres \cap fijos = {n \in fijos \cap Coinciden : tipo[n] = "Regular"}
=============================================================================
