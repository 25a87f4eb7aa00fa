-------------------------------- MODULE Silo --------------------------------
(***************************************************************************)
(* A silo, where a node keeps its blocks (silo/Silo.cc), as files of a     *)
(* directory (silo/Filesystem.cc): the files and, kept in memory and       *)
(* recovered when it starts, their sizes, the space used and their number. *)
(*                                                                         *)
(* The operations are operators on the state of the silo, for the modules  *)
(* that own one.  A file is what it holds and its size.                    *)
(***************************************************************************)
EXTENDS Integers, FiniteSets, Functions

CONSTANTS
  Addresses,   \* the keys
  Capacity     \* the space the silo may use

ASSUME CapacityAssumption == IsFiniteSet(Addresses) /\ Capacity \in Nat

Exists(s, k) == k \in DOMAIN s.files

Filed(f, k, x) == [j \in DOMAIN f \cup {k} |-> IF j = k THEN x ELSE f[j]]
Unfiled(f, k) == [j \in DOMAIN f \ {k} |-> f[j]]

\* The space a write of this size takes, less the file it replaces.
Delta(s, k, size) == size - (IF Exists(s, k) THEN s.files[k].size ELSE 0)

\* InsufficientSpace is thrown otherwise.
Fits(s, k, size) == s.usage + Delta(s, k, size) <= Capacity

\* Fault: the space of the file a write replaces is not given back.
SetWhole(s, k, data, size) ==
  [files |-> Filed(s.files, k, [data |-> data, size |-> size]),
   sizes |-> Filed(s.sizes, k, size),
   usage |-> s.usage + size,
   count |-> s.count + (IF Exists(s, k) THEN 0 ELSE 1)]

\* Fault: a file written over is counted again.
SetCounted(s, k, data, size) ==
  [files |-> Filed(s.files, k, [data |-> data, size |-> size]),
   sizes |-> Filed(s.sizes, k, size),
   usage |-> s.usage + Delta(s, k, size),
   count |-> s.count + 1]

\* set, once it is known that the value fits and may be inserted or updated.
Set(s, k, data, size) ==
  [files |-> Filed(s.files, k, [data |-> data, size |-> size]),
   sizes |-> Filed(s.sizes, k, size),
   usage |-> s.usage + Delta(s, k, size),
   count |-> s.count + (IF Exists(s, k) THEN 0 ELSE 1)]

\* erase gives back the size remembered.
Erase(s, k) ==
  [files |-> Unfiled(s.files, k),
   sizes |-> Unfiled(s.sizes, k),
   usage |-> s.usage - s.sizes[k],
   count |-> s.count - 1]

\* The sum of the sizes of files.
Space(files) == SumFunction([k \in DOMAIN files |-> files[k].size])

\* The constructor reads the directory.
Recover(files) ==
  [files |-> files, sizes |-> [k \in DOMAIN files |-> files[k].size],
   usage |-> Space(files), count |-> Cardinality(DOMAIN files)]

Empty == Recover([k \in {} |-> 0])

-----------------------------------------------------------------------------
(* Predicates on a silo the properties are built from.                     *)

SiloType(s, Data) ==
  /\ DOMAIN s.files \subseteq Addresses
  /\ s.files \in [DOMAIN s.files -> [data : Data, size : Nat]]
  /\ s = [files |-> s.files, sizes |-> s.sizes, usage |-> s.usage, count |-> s.count]
  /\ s.usage \in Int

\* The sizes and the number of files remembered are those of the files.
Accounted(s) ==
  /\ s.sizes = [k \in DOMAIN s.files |-> s.files[k].size]
  /\ s.count = Cardinality(DOMAIN s.files)

=============================================================================
